--------------------------- MODULE MaterialIngest ---------------------------
(***************************************************************************)
(* School material a family sends: its page is fetched and kept, parsed,   *)
(* screened, mapped to the curriculum, turned into exercises, and each     *)
(* exercise is judged before it becomes part of the bank a child practises *)
(* from; then the family is told what came of it.                          *)
(*                                                                         *)
(* The handler may die or fail between any two writes, and runs again from *)
(* the start.  Screening, mapping, generating and judging ask models, that *)
(* answer differently each time, so a record of the material (memo) keeps  *)
(* what was answered.  What a model could not answer is not kept.          *)
(***************************************************************************)
EXTENDS Listing, Outbox, Integers, FiniteSets, SequencesExt

CONSTANTS Page,             \* pages a family may send
          Draft,            \* exercises the generator may draft
          Batch,            \* batches of drafts it may answer with
          Competency,
          Curriculum,       \* the competencies, in the order of their ids
          GradeOf, Grade,   \* the grade of each, and the child's
          Ranking,          \* rankings of competencies a search may answer with
          Choice,           \* lists of competencies the mapper may answer with
          BlurFloor, MinConfidence,     \* legibility_blur_floor, and the least
                                        \* confidence, in hundredths
          CandidateLimit, MappingLimit, ItemsPerMaterial,
          RegenRounds,      \* item_regen_max_rounds
          MaxFaults         \* bound on crashes, failed and lost sends

ASSUME IngestAssumption ==
    /\ Curriculum \in Seq(Competency)
    /\ Competency \subseteq DOMAIN GradeOf
    /\ Ranking \subseteq Seq(Competency) /\ Choice \subseteq Seq(Competency)
    /\ Batch \subseteq Seq(Draft)
    /\ \A d \in Draft : d.kind \in {"mcq", "open"}
    /\ \A p \in Page : p.marked \in {"safe", "injection", "unsafe"}
    /\ {CandidateLimit, MappingLimit, ItemsPerMaterial, RegenRounds} \subseteq Nat
    /\ BlurFloor \in Nat \ {0}
    /\ MaxFaults \in Nat

VARIABLES page,             \* what the family sent
          student,          \* the family's student is stored
          cached,           \* the page is in the media store
          memo,             \* the record ingest#<material>
          material,         \* the material's row
          bank,             \* the exercises of this material, by id
          quarantine,       \* the material waits for an adult, and why
          prepared,         \* the record channel#<message>, with what the
                            \* channel itself replies
          box,              \* the outbox records: what the ingest says of the
                            \* material, and what the channel replies
          chat,             \* what the family received
          pc, run,          \* where the handler is, and what it holds in memory
          acked,            \* the message was handled and is not delivered again
          approved,         \* what the critic accepted, as it was shown to it:
                            \* pairs of an id and a draft (history)
          faults

given == <<page, student>>
stored == <<cached, memo, material, bank, quarantine, approved>>
told == <<prepared, box, chat, acked>>
vars == <<given, stored, told, pc, run, faults>>

None == "none"

-----------------------------------------------------------------------------
(***************************************************************************)
(* Reading a page.                                                         *)
(***************************************************************************)
MaxBytes == "fits"

ContentType == [photo |-> {"jpeg", "png", "webp"}, pdf |-> {"pdf"}]

\* A page is fetched when the channel answers one of two tries, holds no more
\* than the cap, and is of a type allowed for what it was sent as.
Fetchable(p, reached) ==
    /\ reached
    /\ p.kind \in DOMAIN ContentType
    /\ p.size = MaxBytes
    /\ p.content \in ContentType[p.kind]

Illegible(reason) == [status |-> "illegible", reason |-> reason]

Parsed == [status |-> "parsed", reason |-> None]

\* What parse raises for a page nobody can process.
Unsupported == [status |-> "unsupported", reason |-> None]

\* In hundredths: the confidence of the text, less the blurrier its photo is.
EffectiveConfidence(confidence, score) ==
    IF score >= BlurFloor THEN confidence ELSE (confidence * score) \div BlurFloor

NeedsRephoto(p) == EffectiveConfidence(p.confidence, p.score) < MinConfidence

\* The extractor takes one plain page, printed.
Extractable(p) == p.pages = 1 /\ ~p.handwritten

ParsePhoto(p) ==
    CASE p.score < 0 -> Illegible("unreadable_image")
      [] p.score \in 0..(BlurFloor - 1) -> Illegible("blurry_photo")
      [] p.score >= BlurFloor /\ ~Extractable(p) -> Unsupported
      [] OTHER -> IF NeedsRephoto(p) THEN Illegible("blurry_photo") ELSE Parsed

ParseDocument(p) ==
    CASE ~Extractable(p) -> Unsupported
      [] Extractable(p) /\ p.confidence = 0 -> Illegible("empty_text")
      [] Extractable(p) /\ p.confidence \in 1..(MinConfidence - 1) ->
             Illegible("low_confidence")
      [] OTHER -> Parsed

ParseMaterial(p) ==
    CASE p.size # MaxBytes -> Unsupported
      [] p.size = MaxBytes /\ p.kind = "photo" -> ParsePhoto(p)
      [] OTHER -> ParseDocument(p)

-----------------------------------------------------------------------------
(***************************************************************************)
(* Screening.  A verdict is safe or the reason it is not.                  *)
(***************************************************************************)
Screened == {"safe", "injection", "unsafe", "screener_error"}

\* The deterministic screener, or the guardrail, which may be out of reach.
Guarded(p) == IF p.marked = "safe" THEN {"safe", "screener_error"} ELSE {p.marked}

\* The model is only asked about what the first screener let pass, and may
\* fail; what it says is not predictable.
ScreenText(p) ==
    {v \in Guarded(p) : v # "safe"} \cup (IF "safe" \in Guarded(p) THEN Screened ELSE {})

HeldKind(verdict) ==
    IF verdict = "injection" THEN "injection_attempt" ELSE "unsafe_content"

-----------------------------------------------------------------------------
(***************************************************************************)
(* Mapping to the curriculum.                                              *)
(***************************************************************************)
Firsts(seq, n) == SubSeq(seq, 1, IF Len(seq) < n THEN Len(seq) ELSE n)

\* What a sequence has at some of its places, in order.
Where(seq, places) ==
    LET at == Listed(places, {p \in places \X places : p[1] < p[2]})
    IN  [n \in DOMAIN at |-> seq[at[n]]]

Among(seq, S) == Where(seq, {i \in DOMAIN seq : seq[i] \in S})

Distinct(seq) == Where(seq, {i \in DOMAIN seq : \A j \in 1..(i - 1) : seq[j] # seq[i]})

OfGrade(seq) == Among(seq, {c \in Competency : GradeOf[c] = Grade})

\* list_competencies and retrieve, both of which look at one grade only.
Slate == OfGrade(Curriculum)

Retrieved(ranking) == Firsts(OfGrade(ranking), CandidateLimit)

\* What the search found of the slate comes first, and then the others.
OrderedCandidates(hints) ==
    LET known == Distinct(Among(hints, ToSet(Slate)))
        others == Among(Slate, Competency \ ToSet(known))
    IN  Firsts(known \o others, CandidateLimit)

\* Of what the model chose, each competency that was offered, once.
KeepKnown(chosen, candidates) ==
    Firsts(Distinct(Among(chosen, ToSet(candidates))), MappingLimit)

Undetermined == [outcome |-> "undetermined", ids |-> <<>>]

Mapping(ids) == [outcome |-> IF ids = <<>> THEN "unmatched" ELSE "mapped", ids |-> ids]

\* The mapper is not asked when there is nothing to offer.
MapMaterial ==
    UNION {LET candidates == OrderedCandidates(Retrieved(ranking))
           IN  IF candidates = <<>>
               THEN {Mapping(<<>>)}
               ELSE {Undetermined} \cup {Mapping(KeepKnown(c, candidates)) : c \in Choice} :
           ranking \in Ranking}

-----------------------------------------------------------------------------
(***************************************************************************)
(* Generating and judging exercises.                                       *)
(***************************************************************************)
ValidOptions(d) ==
    /\ Len(d.options) \in 3..5
    /\ IsInjective(d.options)
    /\ Contains(d.options, d.answer)

ValidDraft(d) ==
    /\ d.difficulty \in 1..5
    /\ d.filled
    /\ IF d.kind = "mcq" THEN ValidOptions(d) ELSE d.options = <<>> /\ d.rubric

\* An exercise is identified by its competency, kind and question; its options
\* and its answer do not tell it from another.
ItemId(competency, d) == <<competency, d.kind, d.stem>>

Item(id, d, status) == [id |-> id, draft |-> d, status |-> status]

ToItem(competency, d) == Item(ItemId(competency, d), d, "candidate")

MaxOverproduction == 2

\* The drafts of a batch that are kept.
Kept(batch) ==
    Firsts(Among(batch, {d \in Draft : ValidDraft(d)}), ItemsPerMaterial * MaxOverproduction)

Unavailable == [answered |-> FALSE, drafts |-> <<>>]

Drafted(batch) == [answered |-> TRUE, drafts |-> Kept(batch)]

Reply == {Unavailable} \cup {Drafted(b) : b \in Batch}

\* What comes of asking in rounds: the first batch that keeps something.
Generation(replies) ==
    LET useful == {r \in DOMAIN replies : replies[r].drafts # <<>>}
    IN  IF useful # {}
        THEN replies[CHOOSE r \in useful : \A q \in useful : r <= q]
        ELSE [answered |-> \E r \in DOMAIN replies : replies[r].answered, drafts |-> <<>>]

ItemsForMaterial == {Generation(r) : r \in [1..(RegenRounds + 1) -> Reply]}

\* The critic accepts or not; one that fails does not.  The probe that answers
\* without the question is kept beside the verdict and does not decide.
Critique == {"accepted", "rejected"}

\* It answers with the number of an option or with words, or fails.
AnswersBlind(d, reply) ==
    \/ reply \in DOMAIN d.options /\ d.options[reply] = d.answer
    \/ reply = 0 /\ Contains(d.options, d.answer)

Probed(d) ==
    IF d.kind = "mcq"
    THEN {"unasked"} \cup {IF AnswersBlind(d, n) THEN "hit" ELSE "missed" : n \in 0..6}
    ELSE {"unasked"}

Combine(verdict, blind) == [accepted |-> verdict = "accepted", blind |-> blind]

StatusFor(verdict) == IF verdict.accepted THEN "active" ELSE "rejected"

NoVerdict == [accepted |-> FALSE, blind |-> None]

-----------------------------------------------------------------------------
ItemIds == Competency \X {"mcq", "open"} \X {d.stem : d \in Draft}

NoItem == [status |-> None]

NoMemo ==
    [parsed |-> Unsupported, screen |-> None, mapping |-> Undetermined,
     generated |-> Unavailable, verdict |-> [i \in ItemIds |-> NoVerdict]]

NoRun == [key |-> "channel", say |-> <<>>, next |-> 1, kept |-> 0, screen |-> None]

Unprepared == <<None>>

Init ==
    /\ page \in Page
    /\ student \in BOOLEAN
    /\ cached = FALSE
    /\ memo = NoMemo
    /\ material = [status |-> None, reason |-> None]
    /\ bank = [i \in ItemIds |-> NoItem]
    /\ quarantine = None
    /\ prepared = Unprepared
    /\ box = [material |-> NoBox, channel |-> NoBox]
    /\ chat = <<>>
    /\ pc = "idle"
    /\ run = NoRun
    /\ acked = FALSE
    /\ approved = {}
    /\ faults = 0

At(where) == pc = where

Goto(where) == pc' = where /\ UNCHANGED run

\* The graph ends here: what is left is to tell the family.
Say(what) ==
    pc' = "deliver" /\ run' = [run EXCEPT !.say = <<what>>, !.key = "material"]

\* The channel replies, without a material.
Decline(what) == pc' = "prepare" /\ run' = [run EXCEPT !.say = <<what>>]

Outside == UNCHANGED <<given, told, approved, faults>>

Competence == memo.mapping.ids[1]

Generated ==
    [i \in DOMAIN memo.generated.drafts |->
        ToItem(Competence, memo.generated.drafts[i])]

-----------------------------------------------------------------------------
\* Mutant of Receive: a message whose page is stored is taken for handled.
ReceiveOnce ==
    /\ At("idle") /\ ~acked /\ ~cached
    /\ Goto("fetch")
    /\ UNCHANGED stored /\ Outside

\* The enrollment that stored the family, and died before it stored its student,
\* is taken up again.
Enroll ==
    /\ ~student
    /\ student' = TRUE
    /\ UNCHANGED <<page, stored, told, pc, run, faults>>

\* The message is handled.  A reply that was prepared is only delivered.  A family
\* without a student is told nothing, and a recording is refused without a look
\* at it.
Receive ==
    /\ At("idle") /\ ~acked
    /\ CASE prepared # Unprepared -> Goto("deliver")
         [] prepared = Unprepared /\ ~student -> Goto("prepare")
         [] prepared = Unprepared /\ student /\ page.kind = "voice" ->
              Decline("supported_material")
         [] OTHER -> Goto("fetch")
    /\ UNCHANGED stored /\ Outside

\* The page comes from the media store when an earlier try left it there.
FetchMedia ==
    /\ At("fetch")
    /\ \E reached \in BOOLEAN :
         \/ /\ cached \/ Fetchable(page, reached)
            /\ cached' = TRUE
            /\ Goto("parse")
         \/ /\ ~cached /\ ~Fetchable(page, reached)
            /\ Decline("media_unreadable")
            /\ UNCHANGED cached
    /\ UNCHANGED <<memo, material, bank, quarantine>> /\ Outside

\* An error of the media store is answered like a page nobody can fetch.
MediaFails ==
    /\ At("fetch") /\ faults < MaxFaults
    /\ faults' = faults + 1
    /\ Decline("media_unreadable")
    /\ UNCHANGED <<given, stored, told>>

\* What cannot be processed is raised before it is remembered.
Parse ==
    /\ At("parse")
    /\ LET result == IF memo.parsed # Unsupported THEN memo.parsed ELSE ParseMaterial(page)
       IN  memo' = [memo EXCEPT !.parsed = result]
    /\ Goto("put_parsed")
    /\ UNCHANGED <<cached, material, bank, quarantine>> /\ Outside

PutParsed ==
    /\ At("put_parsed")
    /\ material' = IF memo.parsed = Unsupported
                   THEN Illegible("unsupported_material") ELSE memo.parsed
    /\ CASE memo.parsed = Unsupported -> Say("supported_material")
         [] memo.parsed.reason = "blurry_photo" -> Say("rephoto_request")
         [] memo.parsed = Parsed -> Goto("screen")
         [] OTHER -> Say("material_unreadable")
    /\ UNCHANGED <<cached, memo, bank, quarantine>> /\ Outside

\* Mutant of RememberScreen: the verdict of the screeners is not kept.
ForgetScreen(v) == memo

\* Only an answer is kept: the screeners are asked again after an error.
RememberScreen(v) ==
    IF v = "screener_error" THEN memo ELSE [memo EXCEPT !.screen = v]

Screen ==
    /\ At("screen")
    /\ \E v \in IF memo.screen # None THEN {memo.screen} ELSE ScreenText(page) :
         /\ memo' = RememberScreen(v)
         /\ run' = [run EXCEPT !.screen = v]
    /\ pc' = "put_screened"
    /\ UNCHANGED <<cached, material, bank, quarantine>> /\ Outside

PutScreened ==
    /\ At("put_screened")
    /\ material' = CASE run.screen = "safe" -> [status |-> "screened", reason |-> None]
                     [] run.screen = "screener_error" ->
                          [status |-> "quarantined", reason |-> "screen_unavailable"]
                     [] OTHER -> [status |-> "quarantined", reason |-> "screened_unsafe"]
    /\ CASE run.screen = "safe" -> Goto("map")
         [] run.screen = "screener_error" -> Say("material_interrupted")
         [] OTHER -> Goto("hold")
    /\ UNCHANGED <<cached, memo, bank, quarantine>> /\ Outside

Hold ==
    /\ At("hold")
    /\ quarantine' = HeldKind(run.screen)
    /\ Say("material_held")
    /\ UNCHANGED <<cached, memo, material, bank>> /\ Outside

MapToCurriculum ==
    /\ At("map")
    /\ \E m \in IF memo.mapping # Undetermined THEN {memo.mapping} ELSE MapMaterial :
         /\ memo' = [memo EXCEPT !.mapping = m]
         /\ CASE m.outcome = "undetermined" -> Say("material_interrupted")
              [] m.outcome = "unmatched" -> Say("material_unmatched")
              [] OTHER -> Goto("put_mapped")
    /\ UNCHANGED <<cached, material, bank, quarantine>> /\ Outside

PutMapped ==
    /\ At("put_mapped")
    /\ material' = [status |-> "mapped", reason |-> None]
    /\ Goto("generate")
    /\ UNCHANGED <<cached, memo, bank, quarantine>> /\ Outside

Generate ==
    /\ At("generate")
    /\ \E g \in IF memo.generated # Unavailable THEN {memo.generated} ELSE ItemsForMaterial :
         /\ memo' = [memo EXCEPT !.generated = g]
         /\ IF g = Unavailable THEN Say("material_interrupted") ELSE Goto("put_items")
    /\ UNCHANGED <<cached, material, bank, quarantine>> /\ Outside

\* Exercises that are in the bank already keep the state they are in.
PutItem ==
    /\ At("put_items")
    /\ \/ /\ run.next <= Len(Generated)
          /\ LET item == Generated[run.next]
             IN  bank' = IF bank[item.id] = NoItem
                         THEN [bank EXCEPT ![item.id] = item] ELSE bank
          /\ run' = [run EXCEPT !.next = @ + 1]
          /\ UNCHANGED pc
       \/ /\ run.next > Len(Generated)
          /\ IF Generated = <<>>
             THEN Say("material_thin")
             ELSE pc' = "judge" /\ run' = [run EXCEPT !.next = 1]
          /\ UNCHANGED bank
    /\ UNCHANGED <<cached, memo, material, quarantine>> /\ Outside

Judge ==
    /\ At("judge") /\ run.next <= Len(Generated)
    /\ LET item == Generated[run.next]
       IN  /\ memo.verdict[item.id] = NoVerdict
           /\ \E verdict \in Critique, blind \in Probed(item.draft) :
                /\ memo' = [memo EXCEPT !.verdict[item.id] = Combine(verdict, blind)]
                /\ approved' = IF verdict = "accepted"
                               THEN approved \cup {<<item.id, item.draft>>} ELSE approved
    /\ UNCHANGED <<given, cached, material, bank, quarantine, told, pc, run, faults>>

PutJudged ==
    /\ At("judge") /\ run.next <= Len(Generated)
    /\ LET item == Generated[run.next]
           verdict == memo.verdict[item.id]
       IN  /\ verdict # NoVerdict
           /\ bank' = [bank EXCEPT ![item.id] = [item EXCEPT !.status = StatusFor(verdict)]]
           /\ run' = [run EXCEPT !.next = @ + 1,
                                 !.kept = IF verdict.accepted THEN @ + 1 ELSE @]
    /\ UNCHANGED <<cached, memo, material, quarantine, pc>> /\ Outside

Conclude ==
    /\ At("judge") /\ run.next > Len(Generated)
    /\ IF run.kept = 0
       THEN material' = [status |-> "rejected", reason |-> "none_passed"] /\ Say("material_unusable")
       ELSE UNCHANGED material /\ Say("material_ready")
    /\ UNCHANGED <<cached, memo, bank, quarantine>> /\ Outside

-----------------------------------------------------------------------------
Messages == IF run.key = "material" THEN run.say ELSE prepared

OpenBox ==
    /\ At("deliver")
    /\ box' = IF Messages = <<>> THEN box
              ELSE [box EXCEPT ![run.key] = Opened(@, Messages)]
    /\ Goto("send")
    /\ UNCHANGED <<given, stored, prepared, chat, acked, faults>>

\* A send that the channel took may still look failed, and is then sent again.
Send ==
    /\ At("send") /\ ~NothingLeft(box[run.key])
    /\ \E taken, receipted \in BOOLEAN :
         /\ receipted => taken
         /\ ~receipted => faults < MaxFaults
         /\ chat' = IF taken
                    THEN Append(chat, [key |-> run.key, text |-> NextMessage(box[run.key])])
                    ELSE chat
         /\ IF receipted
            THEN box' = [box EXCEPT ![run.key] = Receipted(@)] /\ UNCHANGED <<pc, run, faults>>
            ELSE pc' = "idle" /\ run' = NoRun /\ faults' = faults + 1 /\ UNCHANGED box
    /\ UNCHANGED <<given, stored, prepared, acked>>

\* The ingest has been told of: nothing is left for the channel to say.
Delivered ==
    /\ At("send") /\ NothingLeft(box[run.key]) /\ run.key = "material"
    /\ pc' = "prepare" /\ run' = NoRun
    /\ UNCHANGED <<given, stored, told, faults>>

Prepare ==
    /\ At("prepare")
    /\ prepared' = run.say
    /\ Goto("deliver")
    /\ UNCHANGED <<given, stored, box, chat, acked, faults>>

Finish ==
    /\ At("send") /\ NothingLeft(box[run.key]) /\ run.key = "channel"
    /\ acked' = TRUE
    /\ pc' = "idle" /\ run' = NoRun
    /\ UNCHANGED <<given, stored, prepared, box, chat, faults>>

\* The worker dies, or a store or the extractor fails: the message comes back.
Crash ==
    /\ ~At("idle") /\ faults < MaxFaults
    /\ faults' = faults + 1
    /\ pc' = "idle" /\ run' = NoRun
    /\ UNCHANGED <<given, stored, told>>

Handler ==
    \/ FetchMedia \/ Parse \/ PutParsed \/ Screen \/ PutScreened \/ Hold
    \/ MapToCurriculum \/ PutMapped \/ Generate \/ PutItem \/ Judge \/ PutJudged
    \/ Conclude \/ OpenBox \/ Send \/ Delivered \/ Prepare \/ Finish

Next == Enroll \/ Receive \/ Handler \/ MediaFails \/ Crash

Spec == Init /\ [][Next]_vars /\ WF_vars(Handler) /\ WF_vars(Receive)

-----------------------------------------------------------------------------
\* The critic was shown this exercise and accepted it; or it was shown one that
\* comes before it in the batch, with the same competency, kind and question, and
\* the verdict of that one is in the record under the id of both.
Critiqued(i) ==
    \E n \in DOMAIN Generated : \E m \in 1..n :
        /\ Generated[n].id = i /\ Generated[n].draft = bank[i].draft
        /\ Generated[m].id = i /\ <<i, Generated[m].draft>> \in approved

\* An exercise of the bank practises the child's own grade and is well formed; it
\* is active only when the critic accepted it, or accepted an earlier one of its
\* batch that shares its id; and none was made of material that is held, however
\* often screening and judging were interrupted.
BankIsSound ==
    \A i \in ItemIds : bank[i] # NoItem =>
        /\ Contains(Slate, i[1])
        /\ ValidDraft(bank[i].draft)
        /\ bank[i].status = "active" => Critiqued(i)
        /\ quarantine = None

\* Whatever the models answer when the material is handled again, a family gets
\* one account of it, and is told to practise only what can be practised.
OneAccount ==
    LET said == {chat[i].text : i \in {j \in DOMAIN chat : chat[j].key = "material"}}
    IN  /\ Cardinality(said) <= 1
        /\ "material_ready" \in said => \E id \in ItemIds : bank[id].status = "active"

\* A page whose family has its student by the time it is taken up, or taken up
\* again, is answered in the end, when faults stop.
EveryPageIsAnswered ==
    (student /\ At("idle") /\ prepared = Unprepared) ~> (acked /\ chat # <<>>)
=============================================================================
