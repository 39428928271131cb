----------------------------- MODULE CapsuleLog -----------------------------
(***************************************************************************)
(* What the daily capsule promises the learning record: its questions get  *)
(* one verdict each, in the order they were planned, and a verdict that    *)
(* was given is never given again or changed by the handling of a message. *)
(***************************************************************************)
EXTENDS Integers, Sequences

CONSTANTS Day,              \* one capsule a day
          Length            \* how many questions each day's capsule has

\* "held": the grade waits for an adult in the quarantine and moves nothing.
Verdict == {"right", "wrong", "held"}

VARIABLE log                \* of each day, the verdicts given so far

LogInit == log = [d \in Day |-> <<>>]

Settle(d, verdict) ==
    /\ Len(log[d]) < Length[d]
    /\ log' = [log EXCEPT ![d] = Append(@, verdict)]

LogNext == \E d \in Day, verdict \in Verdict : Settle(d, verdict)

LogSpec == LogInit /\ [][LogNext]_log
=============================================================================
