----------------------------- MODULE AtomicStore -----------------------------
(***************************************************************************)
(* What the orchestration takes a store for: every operation changes the   *)
(* tables at one moment and as a whole, and what a call that returned has  *)
(* written is there.                                                       *)
(***************************************************************************)
EXTENDS StoreTables

CONSTANTS Caller

VARIABLES tables,           \* the tables that erasures and outcomes share
          asked,            \* what each caller asks for, with what it has read
          done              \* callers whose operation was performed

storeVars == <<tables, asked, done>>

StoreInit == DOMAIN tables = Guarded /\ done = {}

\* What is asked for is up to the caller.
Ask(p) ==
    /\ p \notin done
    /\ asked' = [asked EXCEPT ![p] = asked'[p]]
    /\ UNCHANGED <<tables, done>>

Perform(p) ==
    /\ p \notin done /\ done' = done \cup {p}
    /\ asked[p].kind = "outcome" =>
         /\ OutcomeIsNew(asked[p], tables["outcomes"])
         /\ Unchanged(asked[p], tables["mastery"])
    /\ tables' = [t \in Guarded |->
                    IF t \in Written(asked[p])
                    THEN RowsAfter(asked[p], t, tables[t]) ELSE tables[t]]
    /\ UNCHANGED asked

\* The call returns, or its caller dies without hearing of it.
Leave(p) ==
    /\ p \in done /\ done' = done \ {p}
    /\ asked' = [asked EXCEPT ![p] = asked'[p]]
    /\ UNCHANGED tables

StoreNext == \E p \in Caller : Ask(p) \/ Perform(p) \/ Leave(p)

StoreSpec == StoreInit /\ [][StoreNext]_storeVars
=============================================================================
