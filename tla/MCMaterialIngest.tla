-------------------------- MODULE MCMaterialIngest --------------------------
(***************************************************************************)
(* A page of each kind the code tells apart, two competencies of the       *)
(* child's grade and one of another, and batches with a good draft of each *)
(* kind, a bad one, and two drafts that share a question.                  *)
(***************************************************************************)
EXTENDS MaterialIngest

Plain ==
    [kind |-> "photo", size |-> "fits", content |-> "jpeg", score |-> 200,
     confidence |-> 90, pages |-> 1, handwritten |-> FALSE, marked |-> "safe"]

MCPage ==
    {Plain,
     [Plain EXCEPT !.kind = "voice"], [Plain EXCEPT !.size = "over"],
     [Plain EXCEPT !.content = "pdf"], [Plain EXCEPT !.score = -1],
     [Plain EXCEPT !.score = 50], [Plain EXCEPT !.confidence = 30],
     [Plain EXCEPT !.handwritten = TRUE],
     [Plain EXCEPT !.marked = "injection"],
     [Plain EXCEPT !.kind = "pdf", !.content = "pdf"],
     [Plain EXCEPT !.kind = "pdf", !.content = "pdf", !.pages = 2],
     [Plain EXCEPT !.kind = "pdf", !.content = "pdf", !.confidence = 0],
     [Plain EXCEPT !.kind = "pdf", !.content = "pdf", !.confidence = 40]}

CONSTANTS fractions, decimals, algebra

MCCompetency == {fractions, decimals, algebra}
MCCurriculum == <<algebra, decimals, fractions>>
MCGradeOf == [c \in MCCompetency |-> IF c = algebra THEN 5 ELSE 4]
MCRanking == {<<decimals, algebra>>}
MCChoice == {<<>>, <<algebra>>, <<algebra, fractions, decimals>>}

Choosing ==
    [kind |-> "mcq", stem |-> "half", options |-> <<"1/2", "1/3", "1/4">>, answer |-> "1/2",
     difficulty |-> 2, filled |-> TRUE, rubric |-> FALSE]
Opening ==
    [Choosing EXCEPT !.kind = "open", !.stem = "why", !.options = <<>>, !.rubric = TRUE]
Keyless == [Choosing EXCEPT !.answer = "2"]
SameStem == [Choosing EXCEPT !.answer = "1/3"]

MCDraft == {Choosing, Opening, Keyless, SameStem}
MCBatch == {<<>>, <<Keyless>>, <<Keyless, Opening>>, <<Choosing, SameStem>>}
=============================================================================
