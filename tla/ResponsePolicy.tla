--------------------------- MODULE ResponsePolicy ---------------------------
(***************************************************************************)
(* What follows from a graded answer: the moving accuracy of a competency  *)
(* and its level, the triggers computed from them, and the action, which a *)
(* model may propose but not for a child whose triggers fired.             *)
(*                                                                         *)
(* Accuracies are in millionths, which is exact for the first six attempts *)
(* of the code's 0.3 and 0.7.                                              *)
(***************************************************************************)
EXTENDS Integers

CONSTANTS MinSamples,       \* escalation_min_samples
          Cooldown          \* DEFAULT_COOLDOWN_DAYS

ASSUME PolicyAssumption == MinSamples \in Nat /\ Cooldown \in Nat

One == 1000000

Mastery == [ema : 0..One, attempts : Nat, streak : Int]

NoMastery == [ema |-> 0, attempts |-> 0, streak |-> 0]

UpdateMastery(m, correct) ==
    LET outcome == IF correct THEN One ELSE 0
        prior == IF m.attempts = 0 THEN outcome ELSE m.ema
    IN  [ema |-> (3 * outcome + 7 * prior) \div 10,
         attempts |-> m.attempts + 1,
         streak |-> IF correct THEN m.streak + 1
                    ELSE IF m.streak < 0 THEN m.streak - 1 ELSE -1]

\* classify, of whose levels only the lowest is asked for here.
IsStruggling(m) == m.attempts >= 3 /\ m.ema < 400000

Never == -1

\* Days since the last escalation count only once nobody is to decide on it.
StruggleTrigger(m, since) ==
    /\ IsStruggling(m)
    /\ m.attempts >= MinSamples
    /\ since = Never \/ since >= Cooldown

Adaptations == {"raise_difficulty", "lower_difficulty", "switch_to_open", "reduce_load"}

Escalating == {"escalate_struggle", "escalate_engagement"}

Actions == Adaptations \cup Escalating \cup {"continue"}

\* What a model may reply: an action, something else, or nothing in time.
Replies == Actions \cup {"unlisted", "failed"}

Signals(m, since, disengaged, guessing) ==
    [struggle |-> StruggleTrigger(m, since), disengaged |-> disengaged,
     guessing |-> guessing, ema |-> m.ema, streak |-> m.streak]

Fallback(s) ==
    CASE s.struggle -> "escalate_struggle"
      [] ~s.struggle /\ s.disengaged -> "escalate_engagement"
      [] ~s.struggle /\ ~s.disengaged /\ s.guessing -> "switch_to_open"
      [] OTHER ->
           IF s.ema >= 850000 /\ s.streak >= 3 THEN "raise_difficulty"
           ELSE IF s.ema < 400000 THEN "lower_difficulty"
           ELSE "continue"

\* A reply counts only where no trigger asks for an adult.
Decided(s, reply) ==
    IF \/ reply \notin Actions
       \/ s.struggle \/ s.disengaged
       \/ s.guessing /\ reply = "continue"
    THEN Fallback(s)
    ELSE reply
=============================================================================
