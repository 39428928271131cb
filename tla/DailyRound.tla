----------------------------- MODULE DailyRound -----------------------------
(***************************************************************************)
(* A few days of every family: sessions, decisions and closes together.    *)
(***************************************************************************)
EXTENDS DailySession, AdultDecisions, DailyClose

Tick(t) ==
    (\E f \in Family : TickLooks(t, f)) \/ TickPublishes(t) \/ TickRecords(t) \/ TickDies(t)

Handler ==
    \/ Plan \/ ComposeCapsule \/ DeliverCapsule \/ MarkDelivered \/ RecordExam
    \/ Decide \/ Release \/ CountOutcome \/ Resolve \/ Carry
    \/ Complete

Closing ==
    \/ Engagement \/ EngagementDone \/ Cohort \/ PutNotice \/ PutAlert \/ FlagDelivered
    \/ CohortDone \/ Retire \/ CloseCompletes

Next ==
    \/ NextDay
    \/ \E t \in 1..2 : Tick(t)
    \/ \E f \in Family : PauseOrResume(f) \/ Practise(f)
    \/ \E exam \in agenda.exams : AnnounceExam(exam[1], exam[2])
    \/ \E e \in Held, option \in 1..2 : Press(e, option)
    \/ \E e \in queue : Handle(e)
    \/ \E d \in Day : CloseBegins(d)
    \/ Handler \/ Closing
    \/ \E p \in Process : Deliver(p) \/ Crash(p)

Spec == Init /\ [][Next]_vars

-----------------------------------------------------------------------------
\* However often a tick fires and a delivery is cut short, a child gets the
\* capsule of one session a day.
OneCapsuleADay ==
    \A m, n \in {t \in told : t.key[1] = "session"} :
        m.key[2] = n.key[2] /\ m.key[3] = n.key[3] => m = n

Told(e) == {m.text : m \in {n \in told : n.key = Ack(e)}} \ {Note}

\* Whatever is pressed afterwards, by whom and when, and wherever the handling
\* died: the first decision is the one that is recorded, graded, counted, acted
\* upon and acknowledged.
FirstDecisionStands ==
    \A e \in Held :
        /\ decided[e] \in {Undecided, choice[e]}
        /\ Told(e) \subseteq {choice[e]}
        /\ \A c \in counted : c[1] = e => c[2] = choice[e]
        /\ \A g \in log : g.id = <<"human", e, 0>> => g = HumanGrade(e, choice[e])
        /\ \A f \in Family : light[f].source = e => choice[e] = ReduceLoad

\* A family has one alert of a kind in a week, which is the one it was told of,
\* although the close died at any point and ran again on another day.
OneNoticeAWeek ==
    /\ \A a, b \in alerts : a[1] = b[1] => a = b
    /\ \A m \in told : m.key[1] \in {"engagement", "cohort"} => <<m.key, m.text>> \in alerts

\* What a capsule may hold of a question: itself, or a variant of it that explains.
AskedOf(i) == {i, Variant(i)}

SoundCapsule(f, items) ==
    LET unseen == Unseen(Spaced[f], Available(f))
    IN  /\ Len(items) <= ExamItemCap /\ IsInjective(items)
        /\ ToSet(items) \subseteq UNION {AskedOf(i) : i \in Available(f)}
        /\ Len(items) >= 2 /\ unseen # {} => \E i \in unseen : ToSet(items) \cap AskedOf(i) # {}

\* The capsule of a day is planned once, and nothing changes it: it keeps within
\* its limits, repeats nothing, asks only what is in the bank of the family and
\* of the difficulty adapted for the child, and has room for a question the child
\* has not seen whenever there is one and room for two.
CapsuleIsSound ==
    [][\A f \in Family, d \in Day :
          sessions'[f][d].items # sessions[f][d].items =>
              sessions[f][d] = NoSession /\ SoundCapsule(f, sessions'[f][d].items)]_vars
=============================================================================
