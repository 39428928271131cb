------------------------ MODULE MaterialIngestProofs ------------------------
(***************************************************************************)
(* For any pages, drafts, curriculum and answers of the models: the bank   *)
(* that a material leaves is sound, and the family gets one account of it. *)
(*                                                                         *)
(* Both come from what is kept and never changed.  Exercises are made of a *)
(* material only past a screening that was remembered as safe, and one     *)
(* that is held was remembered as unsafe: the memo tells them apart, also  *)
(* when the handler died in between.  The account is the one message that  *)
(* the outbox of the material was opened with.                             *)
(***************************************************************************)
EXTENDS MaterialIngest, WellFoundedInduction, FiniteSetTheorems, SequenceTheorems, TLAPS

-----------------------------------------------------------------------------
Accepted == [accepted : BOOLEAN, blind : {None, "unasked", "hit", "missed"}]

Report ==
    [status : {"parsed", "illegible", "unsupported"},
     reason : {None, "unreadable_image", "blurry_photo", "empty_text", "low_confidence"}]

\* What a family may be told.
Text ==
    {None, "supported_material", "media_unreadable", "rephoto_request", "material_unreadable",
     "material_interrupted", "material_held", "material_unmatched", "material_thin",
     "material_unusable", "material_ready"}

GoodDraft == {d \in Draft : ValidDraft(d)}

Practised == ToSet(Slate)

\* What was mapped, and what was generated for it.
MapOf == [outcome : {"undetermined", "unmatched", "mapped"}, ids : Seq(Practised)]

Drafts == [answered : BOOLEAN, drafts : Seq(GoodDraft)]

MemoType ==
    [parsed : Report, screen : {None} \cup Screened, mapping : MapOf, generated : Drafts,
     verdict : [ItemIds -> Accepted]]

RunType ==
    [key : {"material", "channel"}, say : Seq(Text), next : Nat \ {0}, kept : Nat,
     screen : {None} \cup Screened]

BoxType == {b \in [messages : Seq(Text), receipts : Nat] : b.receipts <= Len(b.messages)}

\* An exercise of the bank, for the competency it is kept under.
InBank(i) ==
    /\ bank[i] = Item(i, bank[i].draft, bank[i].status)
    /\ bank[i].draft \in GoodDraft
    /\ i[1] \in Practised
    /\ bank[i].status = "active" => memo.verdict[i].accepted

Shape ==
    /\ page \in Page
    /\ memo \in MemoType
    /\ memo.mapping.outcome = "mapped" => memo.mapping.ids # <<>>
    /\ run \in RunType
    /\ prepared \in Seq(Text)
    /\ box \in [material : BoxType, channel : BoxType]
    /\ chat \in Seq([key : {"material", "channel"}, text : Text])
    /\ bank = [i \in ItemIds |-> bank[i]]

\* Nothing is made of a material before it is known to be safe.
SafeFirst ==
    /\ pc \in {"map", "put_mapped", "generate", "put_items", "judge"} => memo.screen = "safe"
    /\ pc \in {"put_mapped", "generate", "put_items", "judge"} =>
           memo.mapping.outcome = "mapped"
    /\ \A i \in ItemIds : bank[i] # NoItem => InBank(i) /\ memo.screen = "safe"

\* What is held is remembered as unsafe.
HeldIsUnsafe ==
    /\ pc = "put_screened" /\ run.screen # "screener_error" => memo.screen = run.screen
    /\ pc = "put_screened" => run.screen # None
    /\ pc = "hold" => memo.screen \notin {None, "safe"}
    /\ quarantine # None => memo.screen \notin {None, "safe"}

Active == \E i \in ItemIds : bank[i].status = "active"

\* The outbox of the material is opened once, with one message.
OneMessage ==
    /\ run.key = "material" => pc \in {"deliver", "send"} /\ Len(run.say) = 1
    /\ Len(box.material.messages) <= 1
    /\ \A i \in 1..Len(chat) : chat[i].key = "material" =>
           /\ Len(box.material.messages) = 1
           /\ chat[i].text = box.material.messages[1]

\* What is promised can be practised.
ReadyIsActive ==
    /\ run.kept > 0 => Active
    /\ run.key = "material" /\ run.say = <<"material_ready">> => Active
    /\ box.material.messages = <<"material_ready">> => Active

IngestInv == Shape /\ SafeFirst /\ HeldIsUnsafe /\ OneMessage /\ ReadyIsActive

-----------------------------------------------------------------------------
(***************************************************************************)
(* What the filters of the module return.                                  *)
(***************************************************************************)
LEMMA ListedIs ==
    ASSUME NEW S, IsFiniteSet(S), S \subseteq Nat
    PROVE  Listed(S, {p \in S \X S : p[1] < p[2]}) \in Seq(S)
<1> DEFINE R == {p \in S \X S : p[1] < p[2]}
           k == Cardinality(S)
           rank == [x \in S |-> Cardinality(Earlier(S, R, x)) + 1]
<1>1. k \in Nat
  BY FS_CardinalityType
<1>2. ASSUME NEW x \in S PROVE Earlier(S, R, x) = {y \in S : y < x}
  BY DEF Earlier
<1> HIDE DEF R
<1>3. ASSUME NEW x \in S PROVE IsFiniteSet(Earlier(S, R, x)) /\ rank[x] \in 1..k
  <2>1. IsFiniteSet(S \ {x}) /\ Cardinality(S \ {x}) = k - 1
    BY FS_RemoveElement
  <2>2. Earlier(S, R, x) \in SUBSET (S \ {x})
    BY <1>2
  <2>3. IsFiniteSet(Earlier(S, R, x)) /\ Cardinality(Earlier(S, R, x)) <= k - 1
    BY <2>1, <2>2, FS_Subset
  <2>4. Cardinality(Earlier(S, R, x)) \in Nat
    BY <2>3, FS_CardinalityType
  <2> QED
    BY <1>1, <2>3, <2>4
<1>4. ASSUME NEW x \in S, NEW y \in S, x < y PROVE rank[x] # rank[y]
  <2>1. Earlier(S, R, x) \in SUBSET Earlier(S, R, y)
    <3>1. \A z \in S : z < x => z < y
      BY <1>4
    <3> QED
      BY <1>2, <3>1
  <2>2. x \in Earlier(S, R, y) /\ x \notin Earlier(S, R, x)
    BY <1>2, <1>4
  <2>3. Cardinality(Earlier(S, R, x)) # Cardinality(Earlier(S, R, y))
    BY <1>3, <2>1, <2>2, FS_Subset
  <2>4. Cardinality(Earlier(S, R, x)) \in Nat /\ Cardinality(Earlier(S, R, y)) \in Nat
    BY <1>3, FS_CardinalityType
  <2> QED
    BY <2>3, <2>4
<1>5. \A x, y \in S : rank[x] = rank[y] => x = y
  BY <1>4
<1>6. rank \in [S -> 1..k]
  BY <1>3
<1> HIDE DEF rank
<1>7. rank \in Injection(S, 1..k)
  BY <1>5, <1>6 DEF Injection, IsInjective
<1>8. rank \in Surjection(S, 1..k)
  BY <1>1, <1>7, FS_Interval, FS_Injection
<1>9. ASSUME NEW n \in 1..k PROVE \E x \in S : Cardinality(Earlier(S, R, x)) = n - 1
  <2>1. PICK x \in S : rank[x] = n
    BY <1>8 DEF Surjection
  <2>2. Cardinality(Earlier(S, R, x)) \in Nat
    BY <1>3, FS_CardinalityType
  <2> QED
    BY <2>1, <2>2 DEF rank
<1>10. Listed(S, R) \in [1..k -> S]
  BY <1>9 DEF Listed
<1> QED
  BY <1>1, <1>10 DEF R

LEMMA WhereIs ==
    ASSUME NEW A, NEW B, NEW s \in Seq(A), NEW T \in SUBSET (1..Len(s)), \A i \in T : s[i] \in B
    PROVE  Where(s, T) \in Seq(B)
<1> DEFINE at == Listed(T, {p \in T \X T : p[1] < p[2]})
<1>1. IsFiniteSet(T) /\ T \subseteq Nat
  <2>1. IsFiniteSet(1..Len(s))
    BY FS_Interval
  <2>2. IsFiniteSet(T)
    BY <2>1, FS_Subset
  <2> QED
    BY <2>2
<1>2. at \in Seq(T)
  BY <1>1, ListedIs
<1>3. Where(s, T) = [n \in DOMAIN at |-> s[at[n]]]
  BY DEF Where
<1> HIDE DEF at
<1>4. Where(s, T) = [n \in 1..Len(at) |-> s[at[n]]] /\ Len(at) \in Nat
  BY <1>2, <1>3
<1>5. \A n \in 1..Len(at) : s[at[n]] \in B
  <2>1. \A n \in 1..Len(at) : at[n] \in T
    BY <1>2
  <2> QED
    BY <2>1
<1> QED
  BY <1>4, <1>5

LEMMA AmongIs ==
    ASSUME NEW A, NEW B, NEW s \in Seq(A) PROVE Among(s, B) \in Seq(A \cap B)
<1> DEFINE T == {i \in DOMAIN s : s[i] \in B}
<1>1. T \in SUBSET (1..Len(s)) /\ \A i \in T : s[i] \in A \cap B
  OBVIOUS
<1> HIDE DEF T
<1>2. Where(s, T) \in Seq(A \cap B)
  BY <1>1, WhereIs
<1> QED
  BY <1>2 DEF Among, T

LEMMA DistinctIs ==
    ASSUME NEW A, NEW s \in Seq(A) PROVE Distinct(s) \in Seq(A)
<1> DEFINE T == {i \in DOMAIN s : \A j \in 1..(i - 1) : s[j] # s[i]}
<1>1. T \in SUBSET (1..Len(s)) /\ \A i \in T : s[i] \in A
  OBVIOUS
<1> HIDE DEF T
<1>2. Where(s, T) \in Seq(A)
  BY <1>1, WhereIs
<1> QED
  BY <1>2 DEF Distinct, T

LEMMA FirstsIs ==
    ASSUME NEW A, NEW s \in Seq(A), NEW n \in Nat PROVE Firsts(s, n) \in Seq(A)
BY SubSeqProperties DEF Firsts

-----------------------------------------------------------------------------
LEMMA SlateIs ==
    Slate \in Seq(Competency) /\ Slate \in Seq(Practised) /\ Practised \subseteq Competency
<1>1. Slate \in Seq(Competency)
  <2>1. Curriculum \in Seq(Competency)
    BY IngestAssumption
  <2>2. Among(Curriculum, {c \in Competency : GradeOf[c] = Grade})
            \in Seq(Competency \cap {c \in Competency : GradeOf[c] = Grade})
    BY <2>1, AmongIs
  <2> QED
    BY <2>2 DEF Slate, OfGrade
<1>2. Practised = {Slate[i] : i \in DOMAIN Slate}
  BY DEF Practised, ToSet
<1> QED
  BY <1>1, <1>2

\* Nothing is offered but what is practised.
LEMMA CandidatesAre ==
    ASSUME NEW hints \in Seq(Competency) PROVE OrderedCandidates(hints) \in Seq(Practised)
<1> DEFINE known == Distinct(Among(hints, ToSet(Slate)))
           others == Among(Slate, Competency \ ToSet(known))
<1>1. known \in Seq(Practised)
  <2>1. Among(hints, Practised) \in Seq(Competency \cap Practised)
    BY AmongIs
  <2>2. Among(hints, ToSet(Slate)) \in Seq(Practised)
    BY <2>1 DEF Practised
  <2> QED
    BY <2>2, DistinctIs
<1> HIDE DEF known
<1>2. others \in Seq(Practised)
  <2>1. others \in Seq(Practised \cap (Competency \ ToSet(known)))
    BY SlateIs, AmongIs
  <2> QED
    BY <2>1
<1> HIDE DEF others
<1>3. known \o others \in Seq(Practised)
  BY <1>1, <1>2
<1>4. CandidateLimit \in Nat
  BY IngestAssumption
<1>5. Firsts(known \o others, CandidateLimit) \in Seq(Practised)
  BY <1>3, <1>4, FirstsIs
<1> QED
  BY <1>5 DEF OrderedCandidates, known, others

LEMMA KeptKnownIs ==
    ASSUME NEW chosen \in Seq(Competency), NEW candidates \in Seq(Practised)
    PROVE  KeepKnown(chosen, candidates) \in Seq(Practised)
<1>1. ToSet(candidates) \subseteq Practised
  BY DEF ToSet
<1>2. Among(chosen, ToSet(candidates)) \in Seq(Competency \cap ToSet(candidates))
  BY AmongIs
<1>3. Among(chosen, ToSet(candidates)) \in Seq(Practised)
  BY <1>1, <1>2
<1>4. Distinct(Among(chosen, ToSet(candidates))) \in Seq(Practised)
  BY <1>3, DistinctIs
<1>5. MappingLimit \in Nat
  BY IngestAssumption
<1> QED
  BY <1>4, <1>5, FirstsIs DEF KeepKnown

LEMMA MappingIs ==
    ASSUME NEW ids \in Seq(Practised)
    PROVE  Mapping(ids) \in MapOf /\ (Mapping(ids).outcome = "mapped" => ids # <<>>)
<1>1. Mapping(ids).outcome = "mapped" => ids # <<>>
  BY DEF Mapping
<1>2. Mapping(ids) \in MapOf
  BY DEF Mapping, MapOf
<1> QED
  BY <1>1, <1>2

LEMMA UndeterminedIs == Undetermined \in MapOf /\ Undetermined.outcome # "mapped"
<1>1. <<>> \in Seq(Practised)
  OBVIOUS
<1>2. Undetermined \in MapOf
  BY <1>1 DEF Undetermined, MapOf
<1>3. Undetermined.outcome # "mapped"
  BY DEF Undetermined
<1> QED
  BY <1>2, <1>3

LEMMA MapMaterialIs ==
    ASSUME NEW m \in MapMaterial
    PROVE  m \in MapOf /\ (m.outcome = "mapped" => m.ids # <<>>)
<1>1. PICK ranking \in Ranking :
        \/ m = Mapping(<<>>) \/ m = Undetermined
        \/ \E c \in Choice : m = Mapping(KeepKnown(c, OrderedCandidates(Retrieved(ranking))))
  BY DEF MapMaterial
<1>2. Retrieved(ranking) \in Seq(Competency)
  <2>1. ranking \in Seq(Competency) /\ CandidateLimit \in Nat
    BY IngestAssumption
  <2>2. OfGrade(ranking) \in Seq(Competency \cap {c \in Competency : GradeOf[c] = Grade})
    BY <2>1, AmongIs DEF OfGrade
  <2>3. OfGrade(ranking) \in Seq(Competency)
    BY <2>2
  <2> QED
    BY <2>1, <2>3, FirstsIs DEF Retrieved
<1> DEFINE candidates == OrderedCandidates(Retrieved(ranking))
<1>3. candidates \in Seq(Practised)
  BY <1>2, CandidatesAre
<1> HIDE DEF candidates
<1>4. CASE m = Mapping(<<>>)
  <2>1. <<>> \in Seq(Practised)
    OBVIOUS
  <2> QED
    BY <1>4, <2>1, MappingIs DEF Mapping
<1>5. CASE m = Undetermined
  BY <1>5, UndeterminedIs
<1>6. ASSUME NEW c \in Choice, m = Mapping(KeepKnown(c, candidates))
      PROVE  m \in MapOf /\ (m.outcome = "mapped" => m.ids # <<>>)
  <2>1. c \in Seq(Competency)
    BY IngestAssumption
  <2>2. KeepKnown(c, candidates) \in Seq(Practised)
    BY <1>3, <2>1, KeptKnownIs
  <2> HIDE DEF KeepKnown
  <2> QED
    BY <1>6, <2>2, MappingIs DEF Mapping
<1> QED
  BY <1>1, <1>4, <1>5, <1>6 DEF candidates

LEMMA KeptAre == \A b \in Batch : Kept(b) \in Seq(GoodDraft)
<1> SUFFICES ASSUME NEW b \in Batch PROVE Kept(b) \in Seq(GoodDraft)
  OBVIOUS
<1>1. b \in Seq(Draft) /\ ItemsPerMaterial * MaxOverproduction \in Nat
  BY IngestAssumption DEF MaxOverproduction
<1>2. Among(b, GoodDraft) \in Seq(Draft \cap GoodDraft)
  BY <1>1, AmongIs
<1>3. Among(b, GoodDraft) \in Seq(GoodDraft)
  BY <1>2
<1>4. Firsts(Among(b, GoodDraft), ItemsPerMaterial * MaxOverproduction) \in Seq(GoodDraft)
  BY <1>1, <1>3, FirstsIs
<1> QED
  BY <1>4 DEF Kept, GoodDraft

\* A set of numbers has a least one.
LEMMA LeastIs ==
    ASSUME NEW S \in SUBSET Nat, S # {} PROVE \E r \in S : \A q \in S : r <= q
<1> DEFINE R == OpToRel(<, Nat)
<1>1. \A m, n \in Nat : <<m, n>> \in R <=> m < n
  BY DEF OpToRel
<1>2. IsWellFoundedOn(R, Nat)
  BY NatLessThanWellFounded
<1> HIDE DEF R
<1>3. PICK r \in S : \A q \in S : ~ (<<q, r>> \in R)
  BY <1>2, WFMin
<1>4. \A q \in S : ~ (q < r)
  BY <1>1, <1>3, Zenon
<1> QED
  BY <1>4

LEMMA ItemsAre == \A g \in ItemsForMaterial : g \in Drafts
<1> SUFFICES ASSUME NEW replies \in [1..(RegenRounds + 1) -> Reply]
             PROVE  Generation(replies) \in Drafts
  BY DEF ItemsForMaterial
<1>1. Reply \subseteq Drafts
  <2>1. <<>> \in Seq(GoodDraft)
    OBVIOUS
  <2>2. Unavailable \in Drafts
    BY <2>1 DEF Unavailable, Drafts
  <2>3. ASSUME NEW b \in Batch PROVE Drafted(b) \in Drafts
    BY KeptAre DEF Drafted, Drafts
  <2> QED
    BY <2>2, <2>3 DEF Reply
<1>2. replies \in [1..(RegenRounds + 1) -> Drafts]
  BY <1>1
<1>3. RegenRounds \in Nat
  BY IngestAssumption
<1> DEFINE useful == {r \in DOMAIN replies : replies[r].drafts # <<>>}
<1>4. CASE useful = {}
  BY <1>4 DEF Generation, Drafts
<1>5. CASE useful # {}
  <2>1. \E r \in useful : \A q \in useful : r <= q
    <3>1. useful \in SUBSET Nat
      BY <1>2, <1>3
    <3> QED
      BY <1>5, <3>1, LeastIs
  <2> DEFINE first == CHOOSE r \in useful : \A q \in useful : r <= q
  <2>2. first \in useful
    BY <2>1
  <2>3. Generation(replies) = replies[first]
    BY <1>5 DEF Generation
  <2> QED
    BY <1>2, <2>2, <2>3
<1> QED
  BY <1>4, <1>5

-----------------------------------------------------------------------------
(***************************************************************************)
(* What each step leaves.                                                  *)
(***************************************************************************)
LEMMA ParseIs == ParseMaterial(page) \in Report
BY DEF ParseMaterial, ParsePhoto, ParseDocument, Report, Illegible, Parsed, Unsupported

LEMMA ScreenIs == \A v \in ScreenText(page) : page \in Page => v \in Screened
BY IngestAssumption DEF ScreenText, Guarded, Screened

LEMMA Saying ==
    ASSUME run \in RunType, NEW what \in Text, Say(what)
    PROVE  /\ run' \in RunType /\ pc' = "deliver"
           /\ run'.key = "material" /\ run'.say = <<what>>
           /\ run'.kept = run.kept /\ run'.screen = run.screen
<1>1. <<what>> \in Seq(Text)
  OBVIOUS
<1> QED
  BY <1>1 DEF Say, RunType

LEMMA Declining ==
    ASSUME run \in RunType, NEW what \in Text, Decline(what)
    PROVE  /\ run' \in RunType /\ pc' = "prepare"
           /\ run'.key = run.key /\ run'.say = <<what>> /\ run'.kept = run.kept
<1>1. <<what>> \in Seq(Text)
  OBVIOUS
<1> QED
  BY <1>1 DEF Decline, RunType

LEMMA NoRunIs == NoRun \in RunType /\ NoRun.key = "channel" /\ NoRun.kept = 0
<1>1. <<>> \in Seq(Text)
  OBVIOUS
<1> QED
  BY <1>1 DEF NoRun, RunType, None

\* What was generated is well formed, and is for a competency that is practised.
LEMMA GeneratedAre ==
    ASSUME memo \in MemoType, memo.mapping.outcome = "mapped", memo.mapping.ids # <<>>
    PROVE  /\ Len(Generated) \in Nat
           /\ \A n \in 1..Len(Generated) : \E i \in ItemIds, d \in GoodDraft :
                  Generated[n] = Item(i, d, "candidate") /\ i[1] \in Practised
<1>1. Competence \in Practised
  BY DEF MemoType, MapOf, Competence
<1>2. memo.generated.drafts \in Seq(GoodDraft)
  BY DEF MemoType, Drafts
<1>3. Generated = [n \in 1..Len(memo.generated.drafts) |->
                      ToItem(Competence, memo.generated.drafts[n])]
  BY <1>2 DEF Generated
<1> HIDE DEF Competence
<1>4. ASSUME NEW d \in GoodDraft
      PROVE  /\ ItemId(Competence, d) \in ItemIds
             /\ ItemId(Competence, d)[1] \in Practised
             /\ ToItem(Competence, d) = Item(ItemId(Competence, d), d, "candidate")
  <2>1. Competence \in Competency /\ d \in Draft /\ d.kind \in {"mcq", "open"}
    BY <1>1, SlateIs, IngestAssumption DEF GoodDraft
  <2> QED
    BY <1>1, <2>1 DEF ItemId, ItemIds, ToItem
<1>5. Len(Generated) = Len(memo.generated.drafts) /\ Len(Generated) \in Nat
  BY <1>2, <1>3
<1>6. ASSUME NEW n \in 1..Len(Generated)
      PROVE  \E i \in ItemIds, d \in GoodDraft :
                 Generated[n] = Item(i, d, "candidate") /\ i[1] \in Practised
  <2>1. memo.generated.drafts[n] \in GoodDraft
    BY <1>2, <1>5
  <2>2. Generated[n] = ToItem(Competence, memo.generated.drafts[n])
    BY <1>3, <1>5
  <2> QED
    BY <1>4, <2>1, <2>2
<1> QED
  BY <1>5, <1>6

\* The exercise that is put or judged next.
LEMMA NextIs ==
    ASSUME IngestInv, pc \in {"put_items", "judge"}, run.next <= Len(Generated)
    PROVE  \E i \in ItemIds, d \in GoodDraft :
               Generated[run.next] = Item(i, d, "candidate") /\ i[1] \in Practised
<1>1. memo \in MemoType /\ memo.mapping.outcome = "mapped" /\ memo.mapping.ids # <<>>
  BY DEF IngestInv, Shape, SafeFirst
<1>2. run.next \in Nat \ {0}
  BY DEF IngestInv, Shape, RunType
<1> QED
  BY <1>1, <1>2, GeneratedAre

LEMMA ScreenStep ==
    ASSUME Shape, Screen
    PROVE  /\ memo' \in MemoType /\ run' \in RunType
           /\ \E v \in Screened :
                /\ run' = [run EXCEPT !.screen = v]
                /\ memo' = IF v = "screener_error" THEN memo ELSE [memo EXCEPT !.screen = v]
                /\ memo.screen # None => v = memo.screen
<1>1. PICK v \in IF memo.screen # None THEN {memo.screen} ELSE ScreenText(page) :
        memo' = RememberScreen(v) /\ run' = [run EXCEPT !.screen = v]
  BY DEF Screen
<1>2. v \in Screened /\ (memo.screen # None => v = memo.screen)
  BY <1>1, ScreenIs DEF Shape, MemoType
<1>3. run' \in RunType
  BY <1>1, <1>2 DEF Shape, RunType
<1>4. memo' \in MemoType
  BY <1>1, <1>2 DEF Shape, MemoType, RememberScreen
<1> QED
  BY <1>1, <1>2, <1>3, <1>4 DEF RememberScreen

\* What maps and generates keeps what it was answered before.
LEMMA MapStep ==
    ASSUME Shape, MapToCurriculum
    PROVE  /\ memo' \in MemoType /\ run' \in RunType /\ memo'.screen = memo.screen
           /\ memo'.verdict = memo.verdict
           /\ memo'.mapping.outcome = "mapped" => memo'.mapping.ids # <<>>
           /\ pc' = "put_mapped" => memo'.mapping.outcome = "mapped" /\ UNCHANGED run
           /\ pc' # "put_mapped" =>
                  \E what \in Text \ {"material_ready"} : Say(what)
<1>1. PICK m \in IF memo.mapping # Undetermined THEN {memo.mapping} ELSE MapMaterial :
        /\ memo' = [memo EXCEPT !.mapping = m]
        /\ CASE m.outcome = "undetermined" -> Say("material_interrupted")
             [] m.outcome = "unmatched" -> Say("material_unmatched")
             [] OTHER -> Goto("put_mapped")
  BY DEF MapToCurriculum
<1>2. m \in MapOf /\ (m.outcome = "mapped" => m.ids # <<>>)
  BY <1>1, MapMaterialIs DEF Shape, MemoType
<1>3. memo' \in MemoType /\ memo'.mapping = m
      /\ memo'.screen = memo.screen /\ memo'.verdict = memo.verdict
  BY <1>1, <1>2 DEF Shape, MemoType
<1>4. CASE m.outcome = "mapped"
  BY <1>1, <1>2, <1>3, <1>4 DEF Shape, Goto
<1>5. ASSUME NEW what \in Text \ {"material_ready"}, Say(what), m.outcome # "mapped"
      PROVE  pc' = "deliver" /\ run' \in RunType
  BY <1>5, Saying DEF Shape
<1>6. m.outcome # "mapped" => \E what \in Text \ {"material_ready"} : Say(what)
  BY <1>1, <1>2 DEF MapOf, Text
<1> QED
  BY <1>2, <1>3, <1>4, <1>5, <1>6

LEMMA GenerateStep ==
    ASSUME Shape, Generate
    PROVE  /\ memo' \in MemoType /\ run' \in RunType
           /\ memo'.screen = memo.screen /\ memo'.mapping = memo.mapping
           /\ memo'.verdict = memo.verdict
           /\ \/ pc' = "put_items" /\ UNCHANGED run
              \/ Say("material_interrupted")
<1>1. PICK g \in IF memo.generated # Unavailable THEN {memo.generated} ELSE ItemsForMaterial :
        /\ memo' = [memo EXCEPT !.generated = g]
        /\ IF g = Unavailable THEN Say("material_interrupted") ELSE Goto("put_items")
  BY DEF Generate
<1>2. g \in Drafts
  BY <1>1, ItemsAre DEF Shape, MemoType
<1>3. memo' \in MemoType /\ memo'.screen = memo.screen /\ memo'.mapping = memo.mapping
      /\ memo'.verdict = memo.verdict
  BY <1>1, <1>2 DEF Shape, MemoType
<1>4. "material_interrupted" \in Text
  BY DEF Text
<1> QED
  BY <1>1, <1>3, <1>4, Saying DEF Shape, Goto

\* A verdict is given once.
LEMMA JudgeStep ==
    ASSUME IngestInv, Judge
    PROVE  /\ memo' \in MemoType /\ memo'.screen = memo.screen /\ memo'.mapping = memo.mapping
           /\ \A i \in ItemIds : memo.verdict[i].accepted => memo'.verdict[i].accepted
           /\ UNCHANGED <<bank, pc, run, quarantine>>
<1>1. PICK i \in ItemIds, d \in GoodDraft : Generated[run.next] = Item(i, d, "candidate")
  BY NextIs DEF Judge, At
<1>2. Generated[run.next].id = i
  BY <1>1 DEF Item
<1>3. PICK verdict \in Critique, blind \in Probed(Generated[run.next].draft) :
        /\ memo' = [memo EXCEPT !.verdict[i] = Combine(verdict, blind)]
        /\ memo.verdict[i] = NoVerdict
  BY <1>2 DEF Judge
<1>4. Combine(verdict, blind) \in Accepted
  BY <1>3 DEF Combine, Accepted, Probed
<1>5. memo \in MemoType
  BY DEF IngestInv, Shape
<1>6. /\ memo' \in MemoType /\ memo'.screen = memo.screen /\ memo'.mapping = memo.mapping
      /\ memo'.verdict = [memo.verdict EXCEPT ![i] = Combine(verdict, blind)]
  BY <1>3, <1>4, <1>5 DEF MemoType
<1>7. \A j \in ItemIds : memo.verdict[j].accepted => memo'.verdict[j].accepted
  BY <1>3, <1>5, <1>6 DEF MemoType, NoVerdict
<1> QED
  BY <1>6, <1>7 DEF Judge

\* What a step leaves of a bank that is sound.
BankKept ==
    /\ bank' = [i \in ItemIds |-> bank'[i]]
    /\ \A i \in ItemIds : bank'[i] # NoItem => InBank(i)'
    /\ Active => Active'
    /\ run'.kept > 0 => Active'

LEMMA PutItemStep ==
    ASSUME IngestInv, PutItem
    PROVE  /\ run' \in RunType /\ BankKept
           /\ UNCHANGED <<memo, quarantine>>
           /\ \/ pc' \in {"put_items", "judge"} /\ run'.key = run.key
              \/ Say("material_thin")
<1>1. memo' = memo /\ quarantine' = quarantine
  BY DEF PutItem
<1>2. run \in RunType
  BY DEF IngestInv, Shape
<1>3. CASE run.next <= Len(Generated) /\ run' = [run EXCEPT !.next = @ + 1]
  <2>1. PICK i \in ItemIds, d \in GoodDraft :
          Generated[run.next] = Item(i, d, "candidate") /\ i[1] \in Practised
    BY <1>3, NextIs DEF PutItem, At
  <2>2. Generated[run.next].id = i
    BY <2>1 DEF Item
  <2>3. bank' = IF bank[i] = NoItem
                THEN [bank EXCEPT ![i] = Item(i, d, "candidate")] ELSE bank
    <3>1. Len(Generated) \in Nat
      BY GeneratedAre DEF IngestInv, Shape, SafeFirst, PutItem, At
    <3> QED
      BY <1>2, <1>3, <2>1, <2>2, <3>1 DEF PutItem, RunType
  <2>4. \A j \in ItemIds : bank[j] # NoItem => InBank(j)
    BY DEF IngestInv, SafeFirst
  <2>5. bank = [j \in ItemIds |-> bank[j]] /\ bank' = [j \in ItemIds |-> bank'[j]]
    BY <2>3 DEF IngestInv, Shape
  <2>6. \A j \in ItemIds : bank'[j] = bank[j] \/ (j = i /\ bank[i] = NoItem
                                                  /\ bank'[j] = Item(i, d, "candidate"))
    BY <2>3, <2>5
  <2>7. \A j \in ItemIds : bank'[j] # NoItem => InBank(j)'
    BY <1>1, <2>1, <2>4, <2>6 DEF InBank, Item
  <2>8. Active => Active'
    BY <2>6 DEF Active, NoItem, None
  <2>9. run' \in RunType /\ run'.key = run.key /\ run'.kept = run.kept
    BY <1>2, <1>3 DEF RunType
  <2>10. pc' = "put_items"
    <3>1. Len(Generated) \in Nat
      BY GeneratedAre DEF IngestInv, Shape, SafeFirst, PutItem, At
    <3> QED
      BY <1>2, <1>3, <3>1 DEF PutItem, RunType, At
  <2> QED
    BY <1>1, <2>5, <2>7, <2>8, <2>9, <2>10 DEF BankKept, IngestInv, ReadyIsActive
<1>4. CASE /\ bank' = bank
           /\ \/ Say("material_thin")
              \/ pc' = "judge" /\ run' = [run EXCEPT !.next = 1]
  <2>1. \A j \in ItemIds : bank'[j] # NoItem => InBank(j)'
    BY <1>1, <1>4 DEF InBank, IngestInv, SafeFirst
  <2>2. bank' = [j \in ItemIds |-> bank'[j]]
    BY <1>4 DEF IngestInv, Shape
  <2>3. "material_thin" \in Text
    BY DEF Text
  <2>4. run' \in RunType /\ run'.kept = run.kept /\ (pc' = "judge" => run'.key = run.key)
    BY <1>2, <1>4, <2>3, Saying DEF RunType
  <2>5. Active' <=> Active
    BY <1>4 DEF Active
  <2> QED
    BY <1>1, <1>4, <2>1, <2>2, <2>4, <2>5, <2>3, Saying, <1>2
       DEF BankKept, IngestInv, ReadyIsActive
<1> QED
  BY <1>3, <1>4, Zenon DEF PutItem

LEMMA PutJudgedStep ==
    ASSUME IngestInv, PutJudged
    PROVE  run' \in RunType /\ run'.key = run.key /\ BankKept /\ UNCHANGED <<memo, quarantine, pc>>
<1>1. PICK i \in ItemIds, d \in GoodDraft :
        Generated[run.next] = Item(i, d, "candidate") /\ i[1] \in Practised
  BY NextIs DEF PutJudged, At
<1>2. Generated[run.next].id = i
  BY <1>1 DEF Item
<1> DEFINE v == memo.verdict[i]
<1>3. /\ bank' = [bank EXCEPT ![i] = Item(i, d, StatusFor(v))]
      /\ run' = [run EXCEPT !.next = @ + 1, !.kept = IF v.accepted THEN @ + 1 ELSE @]
      /\ memo' = memo
  <2>1. [Generated[run.next] EXCEPT !.status = StatusFor(v)] = Item(i, d, StatusFor(v))
    BY <1>1 DEF Item
  <2> QED
    BY <1>2, <2>1, Zenon DEF PutJudged
<1>4. memo \in MemoType /\ run \in RunType /\ bank = [j \in ItemIds |-> bank[j]]
  BY DEF IngestInv, Shape
<1>5. v.accepted \in BOOLEAN
  BY <1>4 DEF MemoType, Accepted
<1> HIDE DEF v
<1>6. run' \in RunType /\ run'.key = run.key
      /\ (run'.kept > 0 => run.kept > 0 \/ v.accepted)
  <2>1. PICK n \in {run.kept, run.kept + 1} :
          /\ run' = [run EXCEPT !.next = @ + 1, !.kept = n]
          /\ n = run.kept \/ v.accepted
    BY <1>3
  <2>2. n \in Nat /\ (n > 0 => run.kept > 0 \/ v.accepted)
    BY <1>4, <2>1 DEF RunType
  <2>3. run' \in RunType
    <3> DEFINE m == run.next + 1
    <3>1. m \in Nat \ {0} /\ run' = [run EXCEPT !.next = m, !.kept = n]
      BY <1>4, <2>1 DEF RunType
    <3> HIDE DEF m
    <3> QED
      BY <1>4, <2>2, <3>1 DEF RunType
  <2>4. run'.kept = n /\ run'.key = run.key
    BY <1>4, <2>1 DEF RunType
  <2> QED
    BY <2>2, <2>3, <2>4
<1>7. /\ bank' = [j \in ItemIds |-> bank'[j]]
      /\ bank'[i] = Item(i, d, StatusFor(v))
      /\ \A j \in ItemIds \ {i} : bank'[j] = bank[j]
  BY <1>3, <1>4
<1>8. \A j \in ItemIds : bank[j] # NoItem => InBank(j)
  BY DEF IngestInv, SafeFirst
<1>9. bank'[i].status = "active" <=> v.accepted
  BY <1>7 DEF Item, StatusFor
<1>10. \A j \in ItemIds : bank'[j] # NoItem => InBank(j)'
  <2>1. InBank(i)'
    BY <1>1, <1>3, <1>7, <1>9 DEF InBank, Item, v
  <2>2. ASSUME NEW j \in ItemIds \ {i}, bank'[j] # NoItem PROVE InBank(j)'
    BY <1>3, <1>7, <1>8, <2>2 DEF InBank
  <2> QED
    BY <2>1, <2>2
<1>11. Active => Active'
  <2> SUFFICES ASSUME NEW j \in ItemIds, bank[j].status = "active" PROVE Active'
    BY DEF Active
  <2>1. CASE j = i
    <3>1. v.accepted
      BY <1>8, <2>1 DEF InBank, v, NoItem, None
    <3> QED
      BY <1>9, <3>1 DEF Active
  <2>2. CASE j # i
    BY <1>7, <2>2 DEF Active
  <2> QED
    BY <2>1, <2>2
<1>12. run'.kept > 0 => Active'
  BY <1>6, <1>9, <1>11 DEF Active, IngestInv, ReadyIsActive
<1> QED
  BY <1>6, <1>7, <1>10, <1>11, <1>12 DEF BankKept, PutJudged

-----------------------------------------------------------------------------
(***************************************************************************)
(* The outbox and what the family received.                                *)
(***************************************************************************)
LEMMA MessagesAre ==
    ASSUME IngestInv, pc \in {"deliver", "send"}
    PROVE  /\ Messages \in Seq(Text)
           /\ run.key = "material" => Messages = run.say /\ Len(run.say) = 1
BY DEF IngestInv, Shape, RunType, OneMessage, Messages

LEMMA OpenBoxStep ==
    ASSUME IngestInv, OpenBox
    PROVE  /\ box' \in [material : BoxType, channel : BoxType]
           /\ \/ box'.material = box.material
              \/ /\ box.material.messages = <<>> /\ run.key = "material"
                 /\ box'.material.messages = run.say /\ Len(run.say) = 1
           /\ pc' = "send"
           /\ UNCHANGED <<given, stored, prepared, chat, run>>
<1>1. /\ run.key \in {"material", "channel"} /\ run \in RunType
      /\ box \in [material : BoxType, channel : BoxType]
  BY DEF IngestInv, Shape, RunType
<1>2. /\ Messages \in Seq(Text)
      /\ run.key = "material" => Messages = run.say /\ Len(run.say) = 1
  BY MessagesAre DEF OpenBox, At
<1> HIDE DEF Messages
<1>3. pc' = "send" /\ UNCHANGED <<given, stored, prepared, chat, run>>
  BY DEF OpenBox, Goto
<1>4. CASE box' = box
  BY <1>1, <1>3, <1>4
<1>5. CASE box' = [box EXCEPT ![run.key] = Opened(@, Messages)]
  <2> DEFINE opened == Opened(box[run.key], Messages)
  <2>1. opened = box[run.key] \/ (box[run.key] = NoBox
                                  /\ opened = [messages |-> Messages, receipts |-> 0])
    BY DEF Opened, IsOpen
  <2>2. opened \in BoxType
    BY <1>1, <1>2, <2>1 DEF BoxType
  <2>3. box' = [box EXCEPT ![run.key] = opened]
    BY <1>5
  <2> HIDE DEF opened
  <2>4. CASE run.key = "channel"
    BY <1>1, <1>3, <2>2, <2>3, <2>4
  <2>5. CASE run.key = "material"
    <3>1. box' \in [material : BoxType, channel : BoxType] /\ box'.material = opened
      BY <1>1, <2>2, <2>3, <2>5
    <3> QED
      BY <1>2, <1>3, <2>1, <2>5, <3>1 DEF NoBox
  <2> QED
    BY <1>1, <2>4, <2>5
<1> QED
  BY <1>4, <1>5 DEF OpenBox

LEMMA OnlyOne ==
    ASSUME NEW r \in Nat, NEW n \in Nat, n <= 1, r + 1 \in 1..n PROVE r = 0 /\ n = 1
OBVIOUS

LEMMA SendStep ==
    ASSUME IngestInv, Send
    PROVE  /\ box' \in [material : BoxType, channel : BoxType]
           /\ box'.material.messages = box.material.messages
           /\ run' \in RunType
           /\ \/ chat' = chat
              \/ \E text \in Text :
                   /\ chat' = Append(chat, [key |-> run.key, text |-> text])
                   /\ run.key = "material" =>
                          /\ Len(box.material.messages) = 1
                          /\ text = box.material.messages[1]
           /\ \/ run' = NoRun /\ pc' = "idle"
              \/ UNCHANGED <<run, pc>>
           /\ UNCHANGED <<given, stored, prepared>>
<1>1. /\ run.key \in {"material", "channel"} /\ run \in RunType
      /\ box \in [material : BoxType, channel : BoxType]
      /\ Len(box.material.messages) <= 1
  BY DEF IngestInv, Shape, RunType, OneMessage
<1> DEFINE b == box[run.key]
           text == b.messages[b.receipts + 1]
<1>2. b \in BoxType /\ b.receipts # Len(b.messages)
  BY <1>1 DEF Send, NothingLeft
<1>3. b.receipts + 1 \in 1..Len(b.messages) /\ text \in Text
  BY <1>2 DEF BoxType
<1>4. Receipted(b) \in BoxType /\ Receipted(b).messages = b.messages
  BY <1>2, <1>3 DEF Receipted, BoxType
<1>5. run.key = "material" => Len(box.material.messages) = 1 /\ text = box.material.messages[1]
  <2> SUFFICES ASSUME run.key = "material"
               PROVE  Len(box.material.messages) = 1 /\ text = box.material.messages[1]
    OBVIOUS
  <2>1. b = box.material
    OBVIOUS
  <2> HIDE DEF b
  <2>2. b.receipts = 0 /\ Len(b.messages) = 1
    <3>1. b.receipts \in Nat /\ Len(b.messages) \in Nat
      BY <1>2 DEF BoxType
    <3>2. Len(b.messages) <= 1
      BY <1>1, <2>1
    <3>3. b.receipts + 1 \in 1..Len(b.messages)
      BY <1>3
    <3> QED
      BY <3>1, <3>2, <3>3, OnlyOne
  <2> QED
    BY <2>1, <2>2
<1>6. /\ box' = box \/ box' = [box EXCEPT ![run.key] = Receipted(b)]
      /\ chat' = chat \/ chat' = Append(chat, [key |-> run.key, text |-> text])
      /\ (run' = NoRun /\ pc' = "idle") \/ UNCHANGED <<run, pc>>
      /\ UNCHANGED <<given, stored, prepared>>
  BY DEF Send, NextMessage
<1> HIDE DEF b, text
<1>7. /\ box' \in [material : BoxType, channel : BoxType]
      /\ box'.material.messages = box.material.messages
  <2>1. CASE run.key = "material"
    BY <1>1, <1>4, <1>6, <2>1 DEF b
  <2>2. CASE run.key = "channel"
    BY <1>1, <1>4, <1>6, <2>2 DEF b
  <2> QED
    BY <1>1, <2>1, <2>2
<1> QED
  BY <1>1, <1>3, <1>5, <1>6, <1>7, NoRunIs

-----------------------------------------------------------------------------
LEMMA InitIngest == Init => IngestInv
<1> SUFFICES ASSUME Init PROVE IngestInv
  OBVIOUS
<1>1. page \in Page /\ bank = [i \in ItemIds |-> NoItem]
      /\ quarantine = None /\ pc = "idle" /\ run = NoRun /\ chat = <<>>
      /\ memo = NoMemo /\ box = [material |-> NoBox, channel |-> NoBox]
      /\ prepared = Unprepared
  BY DEF Init
<1>2. <<>> \in Seq(Text) /\ <<>> \in Seq(GoodDraft) /\ <<None>> \in Seq(Text)
  BY DEF Text
<1>3. memo \in MemoType /\ memo.mapping.outcome # "mapped"
  <2>1. Unavailable \in Drafts /\ NoVerdict \in Accepted /\ Unsupported \in Report
    BY <1>2 DEF Unavailable, Drafts, NoVerdict, Accepted, Unsupported, Report
  <2>2. [i \in ItemIds |-> NoVerdict] \in [ItemIds -> Accepted]
    BY <2>1
  <2> HIDE DEF Unavailable, NoVerdict, Unsupported, Undetermined
  <2> QED
    BY <1>1, <2>1, <2>2, UndeterminedIs DEF NoMemo, MemoType
<1>4. NoBox \in BoxType /\ NoBox.messages = <<>>
  BY <1>2 DEF NoBox, BoxType
<1>5. box \in [material : BoxType, channel : BoxType] /\ box.material = NoBox
  BY <1>1, <1>4
<1>6. Shape
  BY <1>1, <1>2, <1>3, <1>5, NoRunIs DEF Shape, Unprepared
<1>7. SafeFirst /\ HeldIsUnsafe
  BY <1>1 DEF SafeFirst, HeldIsUnsafe
<1>8. OneMessage /\ ReadyIsActive
  <2>1. <<>> # <<"material_ready">> /\ Len(<<>>) = 0
    OBVIOUS
  <2>2. run.key = "channel" /\ run.kept = 0 /\ box.material.messages = <<>>
    BY <1>1, <1>4, <1>5, NoRunIs
  <2>3. Len(box.material.messages) <= 1 /\ \A i \in 1..Len(chat) : FALSE
    BY <1>1, <2>1, <2>2
  <2> QED
    BY <2>1, <2>2, <2>3 DEF OneMessage, ReadyIsActive
<1> QED
  BY <1>6, <1>7, <1>8 DEF IngestInv

LEMMA ShapeStep == IngestInv /\ [Next]_vars => Shape'
<1> SUFFICES ASSUME IngestInv, [Next]_vars PROVE Shape'
  OBVIOUS
<1> USE DEF IngestInv
<1>1. CASE Receive
  <2>1. "supported_material" \in Text
    BY DEF Text
  <2>2. run' \in RunType
    BY <1>1, <2>1, Declining DEF Receive, Goto, Shape
  <2> QED
    BY <1>1, <2>2 DEF Receive, Outside, given, stored, told, Shape
<1>2. CASE FetchMedia
  <2>1. "media_unreadable" \in Text
    BY DEF Text
  <2>2. run' \in RunType
    BY <1>2, <2>1, Declining DEF FetchMedia, Goto, Shape
  <2> QED
    BY <1>2, <2>2 DEF FetchMedia, Outside, given, told, Shape
<1>3. CASE MediaFails
  <2>1. "media_unreadable" \in Text
    BY DEF Text
  <2>2. run' \in RunType
    BY <1>3, <2>1, Declining DEF MediaFails, Shape
  <2> QED
    BY <1>3, <2>2 DEF MediaFails, given, stored, told, Shape
<1>4. CASE Parse
  <2>1. PICK r \in Report : memo' = [memo EXCEPT !.parsed = r]
    BY <1>4, ParseIs DEF Parse, Shape, MemoType
  <2>2. memo' \in MemoType /\ memo'.mapping = memo.mapping
    BY <2>1 DEF Shape, MemoType
  <2> QED
    BY <1>4, <2>2 DEF Parse, Goto, Outside, given, told, Shape
<1>5. CASE PutParsed
  <2>1. {"supported_material", "rephoto_request", "material_unreadable"} \subseteq Text
    BY DEF Text
  <2>2. run' \in RunType
    BY <1>5, <2>1, Saying DEF PutParsed, Goto, Shape
  <2> QED
    BY <1>5, <2>2 DEF PutParsed, Outside, given, told, Shape
<1>6. CASE Screen
  <2>1. memo' \in MemoType /\ run' \in RunType /\ memo'.mapping = memo.mapping
    BY <1>6, ScreenStep DEF Shape, MemoType
  <2> QED
    BY <1>6, <2>1 DEF Screen, Outside, given, told, Shape
<1>7. CASE PutScreened
  <2>1. "material_interrupted" \in Text
    BY DEF Text
  <2>2. run' \in RunType
    BY <1>7, <2>1, Saying DEF PutScreened, Goto, Shape
  <2> QED
    BY <1>7, <2>2 DEF PutScreened, Outside, given, told, Shape
<1>8. CASE Hold
  <2>1. "material_held" \in Text
    BY DEF Text
  <2>2. run' \in RunType
    BY <1>8, <2>1, Saying DEF Hold, Shape
  <2> QED
    BY <1>8, <2>2 DEF Hold, Outside, given, told, Shape
<1>9. CASE MapToCurriculum
  BY <1>9, MapStep DEF MapToCurriculum, Outside, given, told, Shape
<1>10. CASE PutMapped
  BY <1>10 DEF PutMapped, Goto, Outside, given, told, Shape
<1>11. CASE Generate
  BY <1>11, GenerateStep DEF Generate, Outside, given, told, Shape
<1>12. CASE PutItem
  BY <1>12, PutItemStep DEF PutItem, BankKept, Outside, given, told, Shape
<1>13. CASE Judge
  BY <1>13, JudgeStep DEF Judge, Outside, given, told, Shape
<1>14. CASE PutJudged
  BY <1>14, PutJudgedStep DEF PutJudged, BankKept, Outside, given, told, Shape
<1>15. CASE Conclude
  <2>1. {"material_unusable", "material_ready"} \subseteq Text
    BY DEF Text
  <2>2. run' \in RunType
    BY <1>15, <2>1, Saying DEF Conclude, Shape
  <2> QED
    BY <1>15, <2>2 DEF Conclude, Outside, given, told, Shape
<1>16. CASE OpenBox
  BY <1>16, OpenBoxStep DEF given, stored, Shape
<1>17. CASE Send
  <2>1. chat' \in Seq([key : {"material", "channel"}, text : Text])
    <3>1. PICK text \in Text :
            chat' = chat \/ chat' = Append(chat, [key |-> run.key, text |-> text])
      BY <1>17, SendStep DEF Text
    <3> DEFINE received == [key |-> run.key, text |-> text]
    <3>2. received \in [key : {"material", "channel"}, text : Text]
      BY DEF Shape, RunType
    <3>3. chat \in Seq([key : {"material", "channel"}, text : Text])
      BY DEF Shape
    <3>4. chat' = chat \/ chat' = Append(chat, received)
      BY <3>1
    <3> HIDE DEF received
    <3>5. Append(chat, received) \in Seq([key : {"material", "channel"}, text : Text])
      BY <3>2, <3>3, AppendProperties
    <3> QED
      BY <3>3, <3>4, <3>5
  <2> QED
    BY <1>17, <2>1, SendStep DEF given, stored, Shape
<1>18. CASE Delivered
  BY <1>18, NoRunIs DEF Delivered, given, stored, told, Shape
<1>19. CASE Prepare
  BY <1>19 DEF Prepare, Goto, given, stored, Shape, RunType
<1>20. CASE Finish
  BY <1>20, NoRunIs DEF Finish, given, stored, Shape
<1>21. CASE Crash
  BY <1>21, NoRunIs DEF Crash, given, stored, told, Shape
<1>22. CASE Enroll \/ UNCHANGED vars
  BY <1>22 DEF Enroll, vars, given, stored, told, Shape
<1> QED
  BY <1>1, <1>2, <1>3, <1>4, <1>5, <1>6, <1>7, <1>8, <1>9, <1>10, <1>11, <1>12, <1>13,
     <1>14, <1>15, <1>16, <1>17, <1>18, <1>19, <1>20, <1>21, <1>22 DEF Next, Handler

\* The bank stays sound when it is left as it is and verdicts are only given.
LEMMA BankLeft ==
    ASSUME IngestInv, bank' = bank, memo'.screen = memo.screen,
           \A i \in ItemIds : memo.verdict[i].accepted => memo'.verdict[i].accepted
    PROVE  \A i \in ItemIds : bank'[i] # NoItem => InBank(i)' /\ memo'.screen = "safe"
BY DEF IngestInv, SafeFirst, InBank

LEMMA SafeStep == IngestInv /\ [Next]_vars => SafeFirst'
<1> SUFFICES ASSUME IngestInv, [Next]_vars PROVE SafeFirst'
  OBVIOUS
<1> DEFINE Making == {"put_mapped", "generate", "put_items", "judge"}
           Sound == \A i \in ItemIds : bank[i] # NoItem => InBank(i) /\ memo.screen = "safe"
<1>0. /\ pc \in {"map"} \cup Making => memo.screen = "safe"
      /\ pc \in Making => memo.mapping.outcome = "mapped"
      /\ Shape
  BY DEF IngestInv, SafeFirst
<1>1. CASE UNCHANGED <<memo, bank>> /\ (pc' \in {"map"} \cup Making => pc' = pc)
  <2>1. Sound'
    BY <1>1, BankLeft
  <2> QED
    BY <1>0, <1>1, <2>1 DEF SafeFirst
<1>2. CASE Parse
  <2>1. memo'.screen = memo.screen /\ memo'.verdict = memo.verdict /\ pc' = "put_parsed"
    BY <1>0, <1>2 DEF Parse, Goto, Shape, MemoType
  <2>2. Sound'
    BY <1>2, <2>1, BankLeft DEF Parse
  <2> QED
    BY <2>1, <2>2 DEF SafeFirst
<1>3. CASE PutParsed
  <2>1. UNCHANGED <<memo, bank>> /\ pc' \in {"deliver", "screen"}
    BY <1>3 DEF PutParsed, Say, Goto
  <2> QED
    BY <1>1, <2>1
<1>4. CASE Screen
  <2>1. PICK v \in Screened :
          /\ memo' = IF v = "screener_error" THEN memo ELSE [memo EXCEPT !.screen = v]
          /\ memo.screen # None => v = memo.screen
    BY <1>0, <1>4, ScreenStep
  <2>2. memo'.verdict = memo.verdict /\ (memo.screen = "safe" => memo'.screen = "safe")
    BY <1>0, <2>1 DEF Shape, MemoType, None
  <2>3. bank' = bank /\ pc' = "put_screened"
    BY <1>4 DEF Screen
  <2>4. Sound'
    BY <2>2, <2>3 DEF IngestInv, SafeFirst, InBank
  <2> QED
    BY <2>3, <2>4 DEF SafeFirst
<1>5. CASE PutScreened
  <2>1. UNCHANGED <<memo, bank>> /\ pc' \in {"map", "deliver", "hold"}
        /\ (pc' = "map" => memo.screen = "safe")
    BY <1>5 DEF PutScreened, Say, Goto, IngestInv, HeldIsUnsafe, At
  <2>2. Sound'
    BY <2>1, BankLeft
  <2> QED
    BY <2>1, <2>2 DEF SafeFirst
<1>6. CASE MapToCurriculum
  <2>1. memo'.screen = memo.screen /\ memo'.verdict = memo.verdict /\ memo.screen = "safe"
        /\ bank' = bank
    BY <1>0, <1>6, MapStep DEF MapToCurriculum, At
  <2>2. Sound'
    BY <2>1, BankLeft
  <2>3. pc' = "put_mapped" \/ pc' = "deliver"
    BY <1>0, <1>6, MapStep DEF Say
  <2>4. pc' = "put_mapped" => memo'.mapping.outcome = "mapped"
    BY <1>0, <1>6, MapStep
  <2> QED
    BY <2>1, <2>2, <2>3, <2>4 DEF SafeFirst
<1>7. CASE PutMapped
  <2>1. UNCHANGED <<memo, bank>> /\ pc = "put_mapped" /\ pc' = "generate"
    BY <1>7 DEF PutMapped, Goto, At
  <2>2. Sound'
    BY <2>1, BankLeft
  <2> QED
    BY <1>0, <2>1, <2>2 DEF SafeFirst
<1>8. CASE Generate
  <2>1. memo'.screen = memo.screen /\ memo'.verdict = memo.verdict
        /\ memo'.mapping = memo.mapping /\ bank' = bank /\ pc = "generate"
        /\ pc' \in {"put_items", "deliver"}
    BY <1>0, <1>8, GenerateStep DEF Generate, At, Say
  <2>2. Sound'
    BY <2>1, BankLeft
  <2> QED
    BY <1>0, <2>1, <2>2 DEF SafeFirst
<1>9. CASE PutItem
  <2>1. memo' = memo /\ pc = "put_items" /\ pc' \in {"put_items", "judge", "deliver"} /\ BankKept
    BY <1>9, PutItemStep DEF PutItem, At, Say
  <2>2. Sound'
    BY <1>0, <2>1 DEF BankKept
  <2> QED
    BY <1>0, <2>1, <2>2 DEF SafeFirst
<1>10. CASE Judge
  <2>1. /\ memo'.screen = memo.screen /\ memo'.mapping = memo.mapping
        /\ \A i \in ItemIds : memo.verdict[i].accepted => memo'.verdict[i].accepted
        /\ bank' = bank /\ pc' = pc
    BY <1>10, JudgeStep
  <2>2. Sound'
    BY <2>1, BankLeft
  <2> QED
    BY <1>0, <2>1, <2>2 DEF SafeFirst
<1>11. CASE PutJudged
  <2>1. memo' = memo /\ pc = "judge" /\ pc' = pc /\ BankKept
    BY <1>11, PutJudgedStep DEF PutJudged, At
  <2>2. Sound'
    BY <1>0, <2>1 DEF BankKept
  <2> QED
    BY <1>0, <2>1, <2>2 DEF SafeFirst
<1>12. CASE Receive \/ MediaFails \/ Hold \/ Conclude
  BY <1>1, <1>12 DEF Receive, MediaFails, Hold, Conclude, Decline, Say, Goto, stored
<1>13. CASE FetchMedia
  BY <1>1, <1>13 DEF FetchMedia, Decline, Goto
<1>14. CASE OpenBox \/ Delivered \/ Prepare \/ Finish \/ Crash
  BY <1>1, <1>14 DEF OpenBox, Delivered, Prepare, Finish, Crash, Goto, stored
<1>15. CASE Send
  BY <1>1, <1>15, SendStep DEF stored
<1>16. CASE Enroll \/ UNCHANGED vars
  BY <1>1, <1>16 DEF Enroll, vars, given, stored
<1> QED
  BY <1>2, <1>3, <1>4, <1>5, <1>6, <1>7, <1>8, <1>9, <1>10, <1>11, <1>12, <1>13, <1>14,
     <1>15, <1>16 DEF Next, Handler

LEMMA HeldStep == IngestInv /\ [Next]_vars => HeldIsUnsafe'
<1> SUFFICES ASSUME IngestInv, [Next]_vars PROVE HeldIsUnsafe'
  OBVIOUS
<1>0. Shape /\ HeldIsUnsafe
  BY DEF IngestInv
<1>1. CASE UNCHANGED quarantine /\ memo'.screen = memo.screen /\ pc' \notin {"put_screened", "hold"}
  BY <1>0, <1>1 DEF HeldIsUnsafe
<1>2. CASE Screen
  <2>1. PICK v \in Screened :
          /\ run' = [run EXCEPT !.screen = v]
          /\ memo' = IF v = "screener_error" THEN memo ELSE [memo EXCEPT !.screen = v]
          /\ memo.screen # None => v = memo.screen
    BY <1>0, <1>2, ScreenStep
  <2>2. run'.screen = v /\ v # None
    BY <1>0, <2>1 DEF Shape, RunType, Screened, None
  <2>3. v # "screener_error" => memo'.screen = v
    BY <1>0, <2>1 DEF Shape, MemoType
  <2>4. memo.screen # None => memo'.screen = memo.screen
    BY <1>0, <2>1, <2>3
  <2>5. quarantine' = quarantine /\ pc' = "put_screened"
    BY <1>2 DEF Screen
  <2> QED
    BY <1>0, <2>2, <2>3, <2>4, <2>5 DEF HeldIsUnsafe
<1>3. CASE PutScreened
  <2>1. UNCHANGED <<memo, quarantine>> /\ pc = "put_screened" /\ pc' # "put_screened"
        /\ (pc' = "hold" => run.screen \notin {"safe", "screener_error"})
    BY <1>3 DEF PutScreened, At, Say, Goto
  <2> QED
    BY <1>0, <2>1 DEF HeldIsUnsafe
<1>4. CASE Hold
  <2>1. memo' = memo /\ pc = "hold" /\ pc' = "deliver"
    BY <1>4 DEF Hold, At, Say
  <2> QED
    BY <1>0, <2>1 DEF HeldIsUnsafe
<1>5. CASE Parse
  <2>1. memo'.screen = memo.screen /\ UNCHANGED quarantine /\ pc' = "put_parsed"
    BY <1>0, <1>5 DEF Parse, Goto, Shape, MemoType
  <2> QED
    BY <1>1, <2>1
<1>6. CASE PutParsed
  <2>1. UNCHANGED <<memo, quarantine>> /\ pc' \in {"deliver", "screen"}
    BY <1>6 DEF PutParsed, Say, Goto
  <2> QED
    BY <1>1, <2>1
<1>7. CASE MapToCurriculum
  <2>1. memo'.screen = memo.screen /\ UNCHANGED quarantine
    BY <1>0, <1>7, MapStep DEF MapToCurriculum
  <2>2. pc' \in {"put_mapped", "deliver"}
    BY <1>0, <1>7, MapStep DEF Say
  <2> QED
    BY <1>1, <2>1, <2>2
<1>8. CASE Generate
  <2>1. memo'.screen = memo.screen /\ UNCHANGED quarantine /\ pc' \in {"put_items", "deliver"}
    BY <1>0, <1>8, GenerateStep DEF Generate, Say
  <2> QED
    BY <1>1, <2>1
<1>9. CASE PutItem
  <2>1. UNCHANGED <<memo, quarantine>> /\ pc' \in {"put_items", "judge", "deliver"}
    BY <1>9, PutItemStep DEF Say
  <2> QED
    BY <1>1, <2>1
<1>10. CASE Judge \/ PutJudged
  <2>1. memo'.screen = memo.screen /\ UNCHANGED quarantine /\ pc = "judge" /\ pc' = pc
    BY <1>10, JudgeStep, PutJudgedStep DEF Judge, PutJudged, At
  <2> QED
    BY <1>1, <2>1
<1>11. CASE Receive \/ FetchMedia \/ MediaFails \/ PutMapped \/ Conclude
  <2>1. UNCHANGED <<memo, quarantine>> /\ pc' \notin {"put_screened", "hold"}
    BY <1>11 DEF Receive, FetchMedia, MediaFails, PutMapped, Conclude, Decline, Say, Goto, stored
  <2> QED
    BY <1>1, <2>1
<1>12. CASE OpenBox \/ Delivered \/ Prepare \/ Finish \/ Crash
  <2>1. UNCHANGED <<memo, quarantine>> /\ pc' \notin {"put_screened", "hold"}
    BY <1>12 DEF OpenBox, Delivered, Prepare, Finish, Crash, Goto, stored
  <2> QED
    BY <1>1, <2>1
<1>13. CASE Send
  <2>1. UNCHANGED <<memo, quarantine>> /\ pc' \notin {"put_screened", "hold"}
    BY <1>13, SendStep DEF Send, At, stored
  <2> QED
    BY <1>1, <2>1
<1>14. CASE Enroll \/ UNCHANGED vars
  BY <1>0, <1>14 DEF Enroll, vars, given, stored, HeldIsUnsafe
<1> QED
  BY <1>2, <1>3, <1>4, <1>5, <1>6, <1>7, <1>8, <1>9, <1>10, <1>11, <1>12, <1>13, <1>14
     DEF Next, Handler

\* Steps that neither deliver nor put exercises: most say nothing, or one text.
LEMMA QuietSteps ==
    ASSUME IngestInv,
           \/ Receive \/ FetchMedia \/ MediaFails \/ Parse \/ PutParsed \/ Screen \/ PutScreened
           \/ Hold \/ MapToCurriculum \/ PutMapped \/ Generate \/ Judge \/ Delivered \/ Prepare
           \/ Finish \/ Crash \/ Enroll \/ UNCHANGED vars
    PROVE  /\ UNCHANGED <<bank, box, chat>>
           /\ \/ \E what \in Text \ {"material_ready"} : Say(what)
              \/ run'.key = "channel" /\ run'.kept \in {0, run.kept}
              \/ UNCHANGED <<run, pc>>
<1>0. /\ run \in RunType /\ run.key \in {"material", "channel"}
      /\ pc \notin {"deliver", "send"} => run.key = "channel"
      /\ Shape
  BY DEF IngestInv, Shape, OneMessage, RunType
<1>1. CASE Receive \/ FetchMedia \/ MediaFails
  <2>1. UNCHANGED <<bank, box, chat>> /\ pc \in {"idle", "fetch"}
    BY <1>1 DEF Receive, FetchMedia, MediaFails, Outside, stored, told, At
  <2>2. \E what \in Text : Decline(what) \/ UNCHANGED run
    BY <1>1 DEF Receive, FetchMedia, MediaFails, Goto, Text
  <2> QED
    BY <1>0, <2>1, <2>2, Declining
<1>2. CASE PutParsed
  <2>1. UNCHANGED <<bank, box, chat>> /\ pc = "put_parsed"
    BY <1>2 DEF PutParsed, Outside, told, At
  <2>2. (\E what \in Text \ {"material_ready"} : Say(what)) \/ UNCHANGED run
    BY <1>2 DEF PutParsed, Goto, Text
  <2> QED
    BY <1>0, <2>1, <2>2
<1>3. CASE Screen
  <2>1. UNCHANGED <<bank, box, chat>> /\ pc = "screen"
    BY <1>3 DEF Screen, Outside, told, At
  <2>2. run'.key = run.key /\ run'.kept = run.kept
    BY <1>0, <1>3, ScreenStep DEF RunType
  <2> QED
    BY <1>0, <2>1, <2>2
<1>4. CASE PutScreened \/ Hold
  <2>1. UNCHANGED <<bank, box, chat>> /\ pc \in {"put_screened", "hold"}
    BY <1>4 DEF PutScreened, Hold, Outside, told, At
  <2>2. (\E what \in Text \ {"material_ready"} : Say(what)) \/ UNCHANGED run
    BY <1>4 DEF PutScreened, Hold, Goto, Text
  <2> QED
    BY <1>0, <2>1, <2>2
<1>5. CASE MapToCurriculum
  <2>1. UNCHANGED <<bank, box, chat>> /\ pc = "map"
    BY <1>5 DEF MapToCurriculum, Outside, told, At
  <2>2. (\E what \in Text \ {"material_ready"} : Say(what)) \/ UNCHANGED run
    BY <1>0, <1>5, MapStep
  <2> QED
    BY <1>0, <2>1, <2>2
<1>6. CASE Generate
  <2>1. UNCHANGED <<bank, box, chat>> /\ pc = "generate"
    BY <1>6 DEF Generate, Outside, told, At
  <2>2. (\E what \in Text \ {"material_ready"} : Say(what)) \/ UNCHANGED run
    BY <1>0, <1>6, GenerateStep DEF Text
  <2> QED
    BY <1>0, <2>1, <2>2
<1>7. CASE Parse \/ PutMapped \/ Judge \/ Prepare
  <2>1. UNCHANGED <<bank, box, chat, run>> /\ pc \notin {"deliver", "send"}
    BY <1>7 DEF Parse, PutMapped, Judge, Prepare, Goto, Outside, stored, told, At
  <2> QED
    BY <1>0, <2>1
<1>8. CASE Delivered \/ Finish \/ Crash
  <2>1. UNCHANGED <<bank, box, chat>> /\ run' = NoRun
    BY <1>8 DEF Delivered, Finish, Crash, stored, told
  <2> QED
    BY <2>1, NoRunIs
<1>9. CASE Enroll \/ UNCHANGED vars
  BY <1>9 DEF Enroll, vars, given, stored, told
<1> QED
  BY <1>1, <1>2, <1>3, <1>4, <1>5, <1>6, <1>7, <1>8, <1>9

LEMMA MessageStep == IngestInv /\ [Next]_vars => OneMessage'
<1> SUFFICES ASSUME IngestInv, [Next]_vars PROVE OneMessage'
  OBVIOUS
<1>0. /\ OneMessage /\ run \in RunType
      /\ pc \notin {"deliver", "send"} => run.key = "channel"
  BY DEF IngestInv, Shape, OneMessage, RunType
<1>1. ASSUME UNCHANGED <<box, chat>>,
             \/ \E what \in Text : Say(what)
             \/ run'.key = "channel"
             \/ UNCHANGED <<run, pc>>
      PROVE  OneMessage'
  <2>1. CASE \E what \in Text : Say(what)
    <3>1. PICK what \in Text : Say(what)
      BY <2>1
    <3>2. pc' = "deliver" /\ Len(run'.say) = 1
      BY <1>0, <3>1, Saying
    <3> QED
      BY <1>0, <1>1, <3>2 DEF OneMessage
  <2>2. CASE run'.key = "channel"
    BY <1>0, <1>1, <2>2 DEF OneMessage
  <2>3. CASE UNCHANGED <<run, pc>>
    BY <1>0, <1>1, <2>3 DEF OneMessage
  <2> QED
    BY <1>1, <2>1, <2>2, <2>3
<1>2. CASE OpenBox
  <2>1. UNCHANGED <<run, chat>> /\ pc' = "send"
    BY <1>2, OpenBoxStep
  <2>2. \/ box'.material = box.material
        \/ Len(box'.material.messages) = 1 /\ box.material.messages = <<>>
    BY <1>2, OpenBoxStep
  <2>3. run.key = "material" => Len(run.say) = 1
    BY <1>0 DEF OneMessage
  <2>4. CASE box'.material = box.material
    BY <1>0, <2>1, <2>3, <2>4 DEF OneMessage
  <2>5. CASE Len(box'.material.messages) = 1 /\ box.material.messages = <<>>
    <3>1. Len(box.material.messages) # 1
      BY <2>5
    <3>2. \A i \in 1..Len(chat) : chat[i].key # "material"
      BY <1>0, <3>1 DEF OneMessage
    <3> QED
      BY <2>1, <2>3, <2>5, <3>2 DEF OneMessage
  <2> QED
    BY <2>2, <2>4, <2>5
<1>3. CASE Send
  <2>1. box'.material.messages = box.material.messages
    BY <1>3, SendStep
  <2>2. run'.key = "material" => pc' \in {"deliver", "send"} /\ Len(run'.say) = 1
    BY <1>0, <1>3, SendStep, NoRunIs DEF OneMessage
  <2>3. \A i \in 1..Len(chat') : chat'[i].key = "material" =>
            /\ Len(box.material.messages) = 1
            /\ chat'[i].text = box.material.messages[1]
    <3>1. CASE chat' = chat
      BY <1>0, <3>1 DEF OneMessage
    <3>2. ASSUME NEW text \in Text, chat' = Append(chat, [key |-> run.key, text |-> text]),
                 run.key = "material" => /\ Len(box.material.messages) = 1
                                         /\ text = box.material.messages[1],
                 NEW i \in 1..Len(chat'), chat'[i].key = "material"
          PROVE  Len(box.material.messages) = 1 /\ chat'[i].text = box.material.messages[1]
      <4> DEFINE received == [key |-> run.key, text |-> text]
      <4>1. chat \in Seq([key : {"material", "channel"}, text : Text])
        BY DEF IngestInv, Shape
      <4>2. received.key = run.key /\ received.text = text /\ chat' = Append(chat, received)
        BY <3>2
      <4> HIDE DEF received
      <4>3. (i \in 1..Len(chat) /\ chat'[i] = chat[i]) \/ chat'[i] = received
        BY <3>2, <4>1, <4>2
      <4> QED
        BY <1>0, <3>2, <4>2, <4>3 DEF OneMessage
    <3> QED
      BY <1>3, <3>1, <3>2, SendStep
  <2> QED
    BY <1>0, <2>1, <2>2, <2>3 DEF OneMessage
<1>4. CASE PutItem
  <2>1. UNCHANGED <<box, chat>> /\ pc = "put_items"
    BY <1>4 DEF PutItem, Outside, told, At
  <2>2. "material_thin" \in Text
    BY DEF Text
  <2> QED
    BY <1>0, <1>1, <1>4, <2>1, <2>2, PutItemStep
<1>5. CASE PutJudged
  <2>1. UNCHANGED <<box, chat>> /\ pc = "judge"
    BY <1>5 DEF PutJudged, Outside, told, At
  <2> QED
    BY <1>0, <1>1, <1>5, <2>1, PutJudgedStep
<1>6. CASE Conclude
  <2>1. UNCHANGED <<box, chat>> /\ \E what \in Text : Say(what)
    BY <1>6 DEF Conclude, Outside, told, Text
  <2> QED
    BY <1>1, <2>1
<1> QED
  BY <1>1, <1>2, <1>3, <1>4, <1>5, <1>6, QuietSteps DEF Next, Handler

LEMMA ReadyStep == IngestInv /\ [Next]_vars => ReadyIsActive'
<1> SUFFICES ASSUME IngestInv, [Next]_vars PROVE ReadyIsActive'
  OBVIOUS
<1>0. ReadyIsActive /\ run \in RunType
  BY DEF IngestInv, Shape
<1>1. ASSUME NEW what, what # "material_ready", run'.say = <<what>>
      PROVE  run'.say # <<"material_ready">>
  BY <1>1
<1>2. ASSUME bank' = bank, box'.material = box.material,
             \/ \E what \in Text \ {"material_ready"} : Say(what)
             \/ run'.key = "channel" /\ run'.kept \in {0, run.kept}
             \/ UNCHANGED run
      PROVE  ReadyIsActive'
  <2>1. Active' <=> Active
    BY <1>2 DEF Active
  <2>2. CASE \E what \in Text \ {"material_ready"} : Say(what)
    <3>1. run'.kept = run.kept /\ run'.say # <<"material_ready">>
      BY <1>0, <1>1, <2>2, Saying
    <3> QED
      BY <1>0, <1>2, <2>1, <3>1 DEF ReadyIsActive
  <2>3. CASE run'.key = "channel" /\ run'.kept \in {0, run.kept}
    BY <1>0, <1>2, <2>1, <2>3 DEF ReadyIsActive
  <2>4. CASE UNCHANGED run
    BY <1>0, <1>2, <2>1, <2>4 DEF ReadyIsActive
  <2> QED
    BY <1>2, <2>2, <2>3, <2>4
<1>3. CASE OpenBox
  <2>1. UNCHANGED <<bank, run>>
    BY <1>3, OpenBoxStep DEF stored
  <2>2. \/ box'.material = box.material
        \/ run.key = "material" /\ box'.material.messages = run.say
    BY <1>3, OpenBoxStep
  <2>3. Active' <=> Active
    BY <2>1 DEF Active
  <2> QED
    BY <1>0, <2>1, <2>2, <2>3 DEF ReadyIsActive
<1>4. CASE Send
  <2>1. bank' = bank /\ box'.material.messages = box.material.messages
    BY <1>4, SendStep DEF stored
  <2>2. UNCHANGED run \/ run' = NoRun
    BY <1>4, SendStep
  <2>3. Active' <=> Active
    BY <2>1 DEF Active
  <2> QED
    BY <1>0, <2>1, <2>2, <2>3, NoRunIs DEF ReadyIsActive
<1>5. CASE PutItem
  <2>1. BankKept /\ box' = box
    BY <1>5, PutItemStep DEF PutItem, Outside, told
  <2>2. run.key = "channel"
    BY <1>0, <1>5 DEF PutItem, At, IngestInv, OneMessage, RunType
  <2>3. run'.key = "channel" \/ run'.say # <<"material_ready">>
    <3>1. "material_thin" \in Text /\ "material_thin" # "material_ready"
      BY DEF Text
    <3> QED
      BY <1>0, <1>1, <1>5, <2>2, <3>1, PutItemStep, Saying
  <2> QED
    BY <1>0, <2>1, <2>3 DEF BankKept, ReadyIsActive
<1>6. CASE PutJudged
  <2>1. BankKept /\ box' = box /\ run'.key = run.key
    BY <1>6, PutJudgedStep DEF PutJudged, Outside, told
  <2>2. run.key = "channel"
    BY <1>0, <1>6 DEF PutJudged, At, IngestInv, OneMessage, RunType
  <2> QED
    BY <1>0, <2>1, <2>2 DEF BankKept, ReadyIsActive
<1>7. CASE Conclude
  <2>1. bank' = bank /\ box' = box
    BY <1>7 DEF Conclude, Outside, told
  <2>2. Active' <=> Active
    BY <2>1 DEF Active
  <2>3. PICK what \in {"material_unusable", "material_ready"} :
          Say(what) /\ (what = "material_ready" => run.kept # 0)
    BY <1>7 DEF Conclude
  <2>4. what \in Text
    BY DEF Text
  <2>5. run'.kept = run.kept /\ run'.say = <<what>>
    BY <1>0, <2>3, <2>4, Saying
  <2>6. what = "material_ready" => Active
    BY <1>0, <2>3 DEF ReadyIsActive, RunType
  <2> QED
    BY <1>0, <1>1, <2>1, <2>2, <2>5, <2>6 DEF ReadyIsActive
<1> QED
  BY <1>2, <1>3, <1>4, <1>5, <1>6, <1>7, QuietSteps DEF Next, Handler

-----------------------------------------------------------------------------
(***************************************************************************)
(* Which draft a verdict was given to.                                     *)
(***************************************************************************)
Made(n, i, d) == n \in DOMAIN Generated /\ Generated[n].id = i /\ Generated[n].draft = d

\* What was accepted is the first draft of the batch with its id; whatever is in
\* the bank is a draft of the batch; and judging goes through the batch in order.
Judged ==
    /\ memo.generated.drafts # <<>> => memo.mapping.outcome = "mapped"
    /\ pc = "judge" => \A m \in DOMAIN Generated :
           m < run.next => memo.verdict[Generated[m].id] # NoVerdict
    /\ \A i, d : <<i, d>> \in approved => \E m : Made(m, i, d)
    /\ \A i, d, e, n : <<i, d>> \in approved /\ Made(n, i, e) =>
           \E m \in 1..n : Made(m, i, d)
    /\ \A i \in ItemIds : memo.verdict[i].accepted => \E d : <<i, d>> \in approved
    /\ \A i \in ItemIds : bank[i] # NoItem => \E n : Made(n, i, bank[i].draft)

\* The batch is kept as it was first answered, and for what it was mapped to.
LEMMA BatchStays ==
    ASSUME IngestInv, Judged, [Next]_vars, memo.generated.drafts # <<>>
    PROVE  memo'.generated = memo.generated /\ memo'.mapping = memo.mapping
<1>1. memo \in MemoType /\ memo.mapping.outcome = "mapped" /\ Shape
  BY DEF IngestInv, Shape, Judged
<1>2. CASE memo' = memo
  BY <1>2
<1>3. CASE Parse \/ Screen
  BY <1>1, <1>3 DEF Parse, Screen, RememberScreen, MemoType
<1>4. CASE MapToCurriculum
  <2>1. memo.mapping # Undetermined
    BY <1>1 DEF Undetermined
  <2>2. memo' = [memo EXCEPT !.mapping = memo.mapping]
    BY <1>4, <2>1, Zenon DEF MapToCurriculum
  <2> QED
    BY <1>1, <2>2 DEF MemoType
<1>5. CASE Generate
  <2>1. memo.generated # Unavailable
    BY DEF Unavailable
  <2>2. memo' = [memo EXCEPT !.generated = memo.generated]
    BY <1>5, <2>1, Zenon DEF Generate
  <2> QED
    BY <1>1, <2>2 DEF MemoType
<1>6. CASE Judge
  <2>1. PICK i, v : memo' = [memo EXCEPT !.verdict[i] = v]
    BY <1>6 DEF Judge
  <2> QED
    BY <1>1, <2>1 DEF MemoType
<1>7. CASE \/ Receive \/ FetchMedia \/ MediaFails \/ PutParsed \/ PutScreened \/ Hold \/ PutMapped
           \/ PutItem \/ PutJudged \/ Conclude \/ OpenBox \/ Send \/ Delivered \/ Prepare
           \/ Finish \/ Crash \/ Enroll \/ UNCHANGED vars
  <2>1. memo' = memo
    BY <1>7 DEF Receive, FetchMedia, MediaFails, PutParsed, PutScreened, Hold, PutMapped,
                PutItem, PutJudged, Conclude, OpenBox, Send, Delivered, Prepare, Finish, Crash,
                Enroll, vars, stored
  <2> QED
    BY <2>1
<1> QED
  BY <1>3, <1>4, <1>5, <1>6, <1>7 DEF Next, Handler

LEMMA GeneratedStays ==
    ASSUME memo'.generated = memo.generated, memo'.mapping = memo.mapping
    PROVE  Generated' = Generated
BY DEF Generated, Competence

\* A batch is only kept for what was mapped.
LEMMA MappedFirst ==
    ASSUME IngestInv, Judged, [Next]_vars, memo'.generated.drafts # <<>>
    PROVE  memo'.mapping.outcome = "mapped"
<1>1. memo \in MemoType /\ Shape
  BY DEF IngestInv, Shape
<1>2. CASE memo.generated.drafts # <<>>
  BY <1>2, BatchStays DEF Judged
<1>3. CASE memo'.generated = memo.generated
  BY <1>2, <1>3
<1>4. CASE Parse \/ Screen
  BY <1>1, <1>3, <1>4 DEF Parse, Screen, RememberScreen, MemoType
<1>5. CASE MapToCurriculum
  <2>1. PICK m : memo' = [memo EXCEPT !.mapping = m]
    BY <1>5 DEF MapToCurriculum
  <2> QED
    BY <1>1, <1>3, <2>1 DEF MemoType
<1>6. CASE Generate
  <2>1. memo'.mapping = memo.mapping /\ pc = "generate"
    BY <1>1, <1>6, GenerateStep DEF Generate, At
  <2> QED
    BY <2>1 DEF IngestInv, SafeFirst
<1>7. CASE Judge
  <2>1. PICK i, v : memo' = [memo EXCEPT !.verdict[i] = v]
    BY <1>7 DEF Judge
  <2> QED
    BY <1>1, <1>3, <2>1 DEF MemoType
<1>8. CASE \/ Receive \/ FetchMedia \/ MediaFails \/ PutParsed \/ PutScreened \/ Hold \/ PutMapped
           \/ PutItem \/ PutJudged \/ Conclude \/ OpenBox \/ Send \/ Delivered \/ Prepare
           \/ Finish \/ Crash \/ Enroll \/ UNCHANGED vars
  <2>1. memo' = memo
    BY <1>8 DEF Receive, FetchMedia, MediaFails, PutParsed, PutScreened, Hold, PutMapped,
                PutItem, PutJudged, Conclude, OpenBox, Send, Delivered, Prepare, Finish, Crash,
                Enroll, vars, stored
  <2> QED
    BY <1>3, <2>1
<1> QED
  BY <1>4, <1>5, <1>6, <1>7, <1>8 DEF Next, Handler

\* A step that gives no verdict and puts no exercise.
LEMMA NothingJudged ==
    ASSUME IngestInv, Judged, [Next]_vars, UNCHANGED <<approved, bank>>,
           memo'.verdict = memo.verdict, pc' = "judge" => UNCHANGED <<pc, run>>
    PROVE  Judged'
<1>1. memo'.generated.drafts # <<>> => memo'.mapping.outcome = "mapped"
  BY MappedFirst
<1>2. CASE memo.generated.drafts # <<>>
  <2>1. Generated' = Generated
    BY <1>2, BatchStays, GeneratedStays
  <2>2. \A n, i, d : Made(n, i, d)' <=> Made(n, i, d)
    BY <2>1 DEF Made
  <2>3. pc' = "judge" => \A m \in DOMAIN Generated' :
            m < run'.next => memo'.verdict[Generated'[m].id] # NoVerdict
    BY <2>1 DEF Judged
  <2> HIDE DEF Made
  <2> QED
    BY <1>1, <2>2, <2>3 DEF Judged
<1>3. CASE memo.generated.drafts = <<>>
  <2>1. DOMAIN Generated = {}
    BY <1>3 DEF Generated
  <2>2. /\ \A i, d : <<i, d>> \notin approved'
        /\ \A i \in ItemIds : bank'[i] = NoItem /\ ~memo'.verdict[i].accepted
    BY <2>1 DEF Judged, Made
  <2>3. pc' = "judge" => Generated' = Generated
    <3> SUFFICES ASSUME pc' = "judge" PROVE Generated' = Generated
      OBVIOUS
    <3>1. pc = "judge" /\ run' = run
      OBVIOUS
    <3>2. CASE memo' = memo
      BY <3>2, GeneratedStays
    <3>3. Judge \/ PutJudged \/ Conclude \/ Crash \/ Enroll \/ UNCHANGED vars
      BY <3>1 DEF Next, Handler, At, Receive, FetchMedia, MediaFails, Parse, PutParsed, Screen,
                  PutScreened, Hold, MapToCurriculum, PutMapped, Generate, PutItem, OpenBox,
                  Send, Delivered, Prepare, Finish
    <3>4. ~Judge
      BY <1>3 DEF Judge, Generated, At, IngestInv, Shape, RunType
    <3>5. memo' = memo
      BY <3>3, <3>4 DEF PutJudged, Conclude, Crash, Enroll, vars, stored
    <3> QED
      BY <3>2, <3>5
  <2> QED
    BY <1>1, <2>1, <2>2, <2>3 DEF Judged
<1> QED
  BY <1>2, <1>3

\* The exercise at the handler's place in the batch.
LEMMA PlaceIs ==
    ASSUME IngestInv, Judged, pc \in {"put_items", "judge"}, run.next <= Len(Generated)
    PROVE  \E i \in ItemIds, d \in GoodDraft :
             /\ Generated[run.next] = Item(i, d, "candidate")
             /\ Made(run.next, i, d)
             /\ memo.generated.drafts # <<>>
<1>1. PICK i \in ItemIds, d \in GoodDraft : Generated[run.next] = Item(i, d, "candidate")
  BY NextIs
<1>2. run.next \in Nat \ {0} /\ memo.generated.drafts \in Seq(GoodDraft)
  BY DEF IngestInv, Shape, RunType, MemoType, Drafts
<1>3. DOMAIN Generated = 1..Len(Generated) /\ DOMAIN Generated = 1..Len(memo.generated.drafts)
  BY <1>2 DEF Generated
<1>4. run.next \in DOMAIN Generated
  <2>1. Len(memo.generated.drafts) \in Nat
    BY <1>2
  <2>2. Len(Generated) \in Nat
    BY GeneratedAre DEF IngestInv, Shape, SafeFirst
  <2> QED
    BY <1>2, <1>3, <2>2
<1>5. Generated[run.next].id = i /\ Generated[run.next].draft = d
  BY <1>1 DEF Item
<1>6. memo.generated.drafts # <<>>
  BY <1>3, <1>4 
<1> QED
  BY <1>1, <1>4, <1>5, <1>6 DEF Made

LEMMA ItemJudged ==
    ASSUME IngestInv, Judged, Next, PutItem PROVE Judged'
<1>1. memo' = memo /\ approved' = approved /\ Generated' = Generated /\ run \in RunType
  BY GeneratedStays DEF PutItem, Outside, IngestInv, Shape
<1>2. pc' = "judge" => run'.next = 1
  BY <1>1 DEF PutItem, RunType, At, Say
<1>3. pc' = "judge" => \A m \in DOMAIN Generated : ~(m < run'.next)
  <2>1. DOMAIN Generated \subseteq Nat \ {0}
    BY DEF Generated, IngestInv, Shape, MemoType, Drafts
  <2> QED
    BY <1>2, <2>1
<1>4. \A i \in ItemIds : bank'[i] # NoItem => \E n : Made(n, i, bank'[i].draft)
  <2>1. CASE bank' = bank
    BY <2>1 DEF Judged
  <2>2. CASE run.next <= Len(Generated) /\ bank' # bank
    <3>1. PICK i \in ItemIds, d \in GoodDraft :
            Generated[run.next] = Item(i, d, "candidate") /\ Made(run.next, i, d)
      BY <2>2, PlaceIs DEF PutItem, At
    <3>2. Generated[run.next].id = i
      BY <3>1 DEF Item
    <3>3. Len(Generated) \in Nat
      BY GeneratedAre DEF IngestInv, Shape, SafeFirst, PutItem, At
    <3>4. bank' = [bank EXCEPT ![i] = Item(i, d, "candidate")]
      BY <1>1, <2>2, <3>1, <3>2, <3>3 DEF PutItem, RunType
    <3>5. bank = [j \in ItemIds |-> bank[j]]
      BY DEF IngestInv, Shape
    <3>6. bank'[i].draft = d /\ \A j \in ItemIds \ {i} : bank'[j] = bank[j]
      BY <3>4, <3>5 DEF Item
    <3> QED
      BY <3>1, <3>6 DEF Judged
  <2> QED
    BY <2>1, <2>2 DEF PutItem
<1>5. \A n, i, d : Made(n, i, d)' <=> Made(n, i, d)
  BY <1>1 DEF Made
<1> HIDE DEF Made
<1> QED
  BY <1>1, <1>3, <1>4, <1>5 DEF Judged

LEMMA VerdictJudged ==
    ASSUME IngestInv, Judged, Next, Judge PROVE Judged'
<1>1. PICK i \in ItemIds, d \in GoodDraft :
        /\ Generated[run.next] = Item(i, d, "candidate")
        /\ Made(run.next, i, d)
        /\ memo.generated.drafts # <<>>
  BY PlaceIs DEF Judge, At
<1>2. Generated[run.next].id = i /\ Generated[run.next].draft = d
  BY <1>1 DEF Item
<1>3. PICK verdict \in Critique, blind \in Probed(d) :
        /\ memo' = [memo EXCEPT !.verdict[i] = Combine(verdict, blind)]
        /\ approved' = IF verdict = "accepted" THEN approved \cup {<<i, d>>} ELSE approved
        /\ memo.verdict[i] = NoVerdict
  BY <1>2 DEF Judge
<1>4. UNCHANGED <<bank, pc, run>> /\ pc = "judge"
  BY DEF Judge, At
<1>5. memo \in MemoType /\ run.next \in Nat \ {0}
  BY DEF IngestInv, Shape, RunType
<1>6. memo'.verdict = [memo.verdict EXCEPT ![i] = Combine(verdict, blind)]
  BY <1>3, <1>5 DEF MemoType
<1>7. memo'.generated = memo.generated /\ memo'.mapping = memo.mapping /\ Generated' = Generated
  BY <1>1, BatchStays, GeneratedStays
<1>8. Combine(verdict, blind) # NoVerdict
      /\ (Combine(verdict, blind).accepted <=> verdict = "accepted")
  BY <1>3 DEF Combine, NoVerdict, Probed, None
<1>9. \A j \in ItemIds : memo'.verdict[j] = IF j = i THEN Combine(verdict, blind)
                                            ELSE memo.verdict[j]
  BY <1>5, <1>6 DEF MemoType
<1> HIDE DEF Combine, NoVerdict
<1>10. \A m \in DOMAIN Generated : Generated[m].id \in ItemIds
  <2>1. DOMAIN Generated = 1..Len(Generated)
    BY <1>5 DEF Generated, MemoType, Drafts
  <2>2. \A m \in 1..Len(Generated) : \E j \in ItemIds, e \in GoodDraft :
            Generated[m] = Item(j, e, "candidate")
    BY GeneratedAre, <1>4 DEF IngestInv, Shape, SafeFirst
  <2> QED
    BY <2>1, <2>2 DEF Item
<1>11. \A m \in DOMAIN Generated : m < run.next => memo'.verdict[Generated[m].id] # NoVerdict
  BY <1>4, <1>8, <1>9, <1>10 DEF Judged
<1>12. \A n, e : Made(n, i, e) => run.next \in 1..n
  <2> SUFFICES ASSUME NEW n, NEW e, Made(n, i, e) PROVE run.next \in 1..n
    OBVIOUS
  <2>1. n \in DOMAIN Generated /\ Generated[n].id = i
    BY DEF Made
  <2>2. n \in Nat
    BY <1>5, <2>1 DEF Generated, MemoType, Drafts
  <2>3. ~(n < run.next)
    BY <1>3, <1>4, <2>1 DEF Judged
  <2> QED
    BY <1>5, <2>2, <2>3
<1>13. \A n, j, e : Made(n, j, e)' <=> Made(n, j, e)
  BY <1>7 DEF Made
<1>14. \A j, e : <<j, e>> \in approved' =>
          <<j, e>> \in approved \/ (j = i /\ e = d /\ verdict = "accepted")
  BY <1>3
<1>15. approved \subseteq approved' /\ (verdict = "accepted" => <<i, d>> \in approved')
  BY <1>3
<1>16. \A j, e : <<j, e>> \in approved' => \E m : Made(m, j, e)
  BY <1>1, <1>14 DEF Judged
<1>17. ASSUME NEW j, NEW e, NEW o, NEW n, <<j, e>> \in approved', Made(n, j, o)
       PROVE  \E m \in 1..n : Made(m, j, e)
  <2>1. CASE <<j, e>> \in approved
    BY <1>17, <2>1 DEF Judged
  <2>2. CASE j = i /\ e = d
    BY <1>1, <1>12, <1>17, <2>2
  <2> QED
    BY <1>14, <1>17, <2>1, <2>2
<1>18. \A j \in ItemIds : memo'.verdict[j].accepted => \E e : <<j, e>> \in approved'
  BY <1>8, <1>9, <1>15 DEF Judged
<1>19. \A j \in ItemIds : bank'[j] # NoItem => \E n : Made(n, j, bank'[j].draft)
  BY <1>4 DEF Judged
<1>20. memo'.generated.drafts # <<>> => memo'.mapping.outcome = "mapped"
  BY <1>7 DEF Judged
<1> HIDE DEF Made
<1> QED
  BY <1>4, <1>7, <1>11, <1>13, <1>16, <1>17, <1>18, <1>19, <1>20 DEF Judged

LEMMA StatusJudged ==
    ASSUME IngestInv, Judged, Next, PutJudged PROVE Judged'
<1>1. PICK i \in ItemIds, d \in GoodDraft :
        Generated[run.next] = Item(i, d, "candidate") /\ Made(run.next, i, d)
  BY PlaceIs DEF PutJudged, At
<1>2. Generated[run.next].id = i
  BY <1>1 DEF Item
<1> DEFINE v == memo.verdict[i]
<1>3. /\ bank' = [bank EXCEPT ![i] = Item(i, d, StatusFor(v))]
      /\ run' = [run EXCEPT !.next = @ + 1, !.kept = IF v.accepted THEN @ + 1 ELSE @]
      /\ v # NoVerdict
      /\ UNCHANGED <<memo, approved, pc>>
  <2>1. [Generated[run.next] EXCEPT !.status = StatusFor(v)] = Item(i, d, StatusFor(v))
    BY <1>1 DEF Item
  <2> QED
    BY <1>2, <2>1, Zenon DEF PutJudged, Outside
<1> HIDE DEF v
<1>4. run \in RunType /\ bank = [j \in ItemIds |-> bank[j]] /\ run.next \in Nat /\ pc = "judge"
  BY DEF IngestInv, Shape, RunType, PutJudged, At
<1>5. run'.next = run.next + 1
  <2>1. PICK k : run' = [run EXCEPT !.next = @ + 1, !.kept = k]
    BY <1>3
  <2> QED
    BY <1>4, <2>1 DEF RunType
<1>6. Generated' = Generated
  BY <1>3, GeneratedStays
<1>7. bank'[i].draft = d /\ \A j \in ItemIds \ {i} : bank'[j] = bank[j]
  BY <1>3, <1>4 DEF Item
<1>8. \A j \in ItemIds : bank'[j] # NoItem => \E n : Made(n, j, bank'[j].draft)
  BY <1>1, <1>7 DEF Judged
<1>9. \A m \in DOMAIN Generated : m < run'.next => memo.verdict[Generated[m].id] # NoVerdict
  <2> SUFFICES ASSUME NEW m \in DOMAIN Generated, m < run.next + 1
               PROVE  memo.verdict[Generated[m].id] # NoVerdict
    BY <1>5
  <2>1. m \in Nat
    BY DEF Generated, IngestInv, Shape, MemoType, Drafts
  <2>2. m < run.next \/ m = run.next
    BY <1>4, <2>1
  <2> QED
    BY <1>2, <1>3, <1>4, <2>2 DEF Judged, v
<1>10. \A n, j, e : Made(n, j, e)' <=> Made(n, j, e)
  BY <1>6 DEF Made
<1> HIDE DEF Made
<1> QED
  BY <1>3, <1>6, <1>8, <1>9, <1>10 DEF Judged

LEMMA InitJudged == Init => Judged
<1> SUFFICES ASSUME Init PROVE Judged
  OBVIOUS
<1>1. memo = NoMemo /\ pc = "idle" /\ approved = {} /\ bank = [i \in ItemIds |-> NoItem]
  BY DEF Init
<1>2. memo.generated.drafts = <<>> /\ \A i \in ItemIds : ~memo.verdict[i].accepted
  BY <1>1 DEF NoMemo, Unavailable, NoVerdict
<1> QED
  BY <1>1, <1>2 DEF Judged

LEMMA JudgedStep == IngestInv /\ Judged /\ [Next]_vars => Judged'
<1> SUFFICES ASSUME IngestInv, Judged, [Next]_vars PROVE Judged'
  OBVIOUS
<1>1. memo \in MemoType /\ Shape
  BY DEF IngestInv, Shape
<1>2. CASE Parse \/ Screen \/ MapToCurriculum \/ Generate
  <2>1. memo'.verdict = memo.verdict
    BY <1>1, <1>2, MapStep, GenerateStep DEF Parse, Screen, RememberScreen, MemoType
  <2>2. UNCHANGED <<approved, bank>>
    BY <1>2 DEF Parse, Screen, MapToCurriculum, Generate, Outside
  <2>3. pc' # "judge"
    BY <1>1, <1>2, MapStep, GenerateStep DEF Parse, Screen, Goto, Say
  <2> QED
    BY <2>1, <2>2, <2>3, NothingJudged
<1>3. CASE \/ Receive \/ FetchMedia \/ MediaFails \/ PutParsed \/ PutScreened \/ Hold \/ PutMapped
           \/ Conclude
  <2>1. UNCHANGED <<memo, approved, bank>> /\ pc' # "judge"
    BY <1>3 DEF Receive, FetchMedia, MediaFails, PutParsed, PutScreened, Hold, PutMapped,
                Conclude, Outside, stored, Goto, Say, Decline
  <2> QED
    BY <2>1, NothingJudged
<1>4. CASE OpenBox \/ Delivered \/ Prepare \/ Finish \/ Crash \/ Enroll \/ UNCHANGED vars
  <2>1. UNCHANGED <<memo, approved, bank>> /\ (pc' = "judge" => UNCHANGED <<pc, run>>)
    BY <1>4 DEF OpenBox, Delivered, Prepare, Finish, Crash, Enroll, vars, stored, Goto
  <2> QED
    BY <2>1, NothingJudged
<1>5. CASE Send
  <2>1. UNCHANGED <<memo, approved, bank>> /\ pc' # "judge"
    BY <1>5, SendStep DEF Send, At, stored
  <2> QED
    BY <2>1, NothingJudged
<1> QED
  BY <1>2, <1>3, <1>4, <1>5, ItemJudged, VerdictJudged, StatusJudged DEF Next, Handler

-----------------------------------------------------------------------------
THEOREM IngestInvariant == Spec => []IngestInv
<1>1. IngestInv /\ [Next]_vars => IngestInv'
  BY ShapeStep, SafeStep, HeldStep, MessageStep, ReadyStep DEF IngestInv
<1> QED
  BY InitIngest, <1>1, PTL DEF Spec

THEOREM JudgedInvariant == Spec => []Judged
BY InitJudged, JudgedStep, IngestInvariant, PTL DEF Spec

(***************************************************************************)
(* What a material leaves in the bank practises the child's own grade, is  *)
(* well formed, is active only when the critic was shown it and accepted   *)
(* it or an earlier one of its batch with the same id, and was not made of *)
(* material that is held, whatever was interrupted and asked anew.         *)
(***************************************************************************)
THEOREM SoundBank == Spec => []BankIsSound
<1>1. IngestInv /\ Judged => BankIsSound
  <2> SUFFICES ASSUME IngestInv, Judged, NEW i \in ItemIds, bank[i] # NoItem
               PROVE  /\ Contains(Slate, i[1])
                      /\ ValidDraft(bank[i].draft)
                      /\ bank[i].status = "active" => Critiqued(i)
                      /\ quarantine = None
    BY DEF BankIsSound
  <2>1. InBank(i) /\ memo.screen = "safe"
    BY DEF IngestInv, SafeFirst
  <2>2. i[1] \in {Slate[n] : n \in DOMAIN Slate} /\ Slate \in Seq(Competency)
    BY <2>1, SlateIs DEF InBank, Practised, ToSet
  <2>3. Contains(Slate, i[1])
    BY <2>2 DEF Contains
  <2>4. ASSUME bank[i].status = "active" PROVE Critiqued(i)
    <3>1. PICK d : <<i, d>> \in approved
      BY <2>1, <2>4 DEF InBank, Judged
    <3>2. PICK n : Made(n, i, bank[i].draft)
      BY DEF Judged
    <3>3. PICK m \in 1..n : Made(m, i, d)
      BY <3>1, <3>2 DEF Judged
    <3> QED
      BY <3>1, <3>2, <3>3 DEF Made, Critiqued
  <2> QED
    BY <2>1, <2>3, <2>4 DEF InBank, GoodDraft, IngestInv, HeldIsUnsafe
<1> QED
  BY <1>1, IngestInvariant, JudgedInvariant, PTL

(***************************************************************************)
(* However often a material is handled again and whatever the models then  *)
(* answer, its family gets one account of it; and one that says there is   *)
(* something to practise is true.                                          *)
(***************************************************************************)
THEOREM OneAccountEach == Spec => []OneAccount
<1>1. IngestInv => OneAccount
  <2> SUFFICES ASSUME IngestInv PROVE OneAccount
    OBVIOUS
  <2> DEFINE said == {chat[i].text : i \in {j \in DOMAIN chat : chat[j].key = "material"}}
             it == box.material.messages[1]
  <2>1. DOMAIN chat = 1..Len(chat) /\ box.material.messages \in Seq(Text)
    BY DEF IngestInv, Shape, BoxType
  <2>2. said \in SUBSET {it} /\ (said # {} => Len(box.material.messages) = 1)
    BY <2>1 DEF IngestInv, OneMessage
  <2>3. Cardinality(said) <= 1
    <3>1. IsFiniteSet({it}) /\ Cardinality({it}) = 1
      BY FS_Singleton
    <3> HIDE DEF said, it
    <3> QED
      BY <2>2, <3>1, FS_Subset
  <2>4. "material_ready" \in said => Active
    <3> SUFFICES ASSUME "material_ready" \in said PROVE Active
      OBVIOUS
    <3>1. it = "material_ready" /\ Len(box.material.messages) = 1
      BY <2>2
    <3>2. box.material.messages = <<"material_ready">>
      BY <2>1, <3>1
    <3> QED
      BY <3>2 DEF IngestInv, ReadyIsActive
  <2> QED
    BY <2>3, <2>4 DEF OneAccount, Active
<1> QED
  BY <1>1, IngestInvariant, PTL
=============================================================================
