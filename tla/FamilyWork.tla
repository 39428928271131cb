----------------------------- MODULE FamilyWork -----------------------------
(***************************************************************************)
(* The invocations that may work for families at one time, and what they   *)
(* owe one another: one handler of a family at a time, and none for an     *)
(* event that has a result.  Invocation says how they keep to it.          *)
(***************************************************************************)
EXTENDS Integers

CONSTANTS Families,         \* how many: families 1..Families, as list_families
          Event,
          FamilyOf,         \* the family an event is about
          Channel,          \* events that are channel messages
          Worker            \* worker executions that may run at once

VARIABLES result,           \* events with a cached result
          at, event, scope  \* where each invocation is, its event, its scope

Family == 1..Families

\* The invocation that the daily close nests in itself.
Closer == "closer"
Invoker == Worker \cup {Closer}

FamilyAt(k) == FamilyOf[event[k]]

\* Invocations between their leases and their release.
Serving(k) == at[k] \in {"cached", "handle", "save", "complete"}

(***************************************************************************)
(* acquire_lease: whatever dies with a lease in hand, two handlers of one  *)
(* family never run at once, unless one of them is a message that found no *)
(* family when it was looked up, and the other is not a message.           *)
(***************************************************************************)
FamilyWorkIsSerial ==
    \A j, k \in Invoker :
        /\ j # k /\ Serving(j) /\ Serving(k)
        /\ FamilyAt(j) = FamilyAt(k)
        => {scope[j][1], scope[k][1]} = {"chat", "family"}
           /\ ~(event[j] \in Channel /\ event[k] \in Channel)

(***************************************************************************)
(* The cached result is looked for under the lease its writer held, so a   *)
(* handler never runs for an event that has a result: by the queue, or by  *)
(* the recovery of an event the queue delivers at the same time.           *)
(***************************************************************************)
ResultEndsHandling ==
    \A k \in Invoker : at[k] \in {"handle", "save"} => event[k] \notin result
=============================================================================
