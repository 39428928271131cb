----------------------------- MODULE StoreTables -----------------------------
(***************************************************************************)
(* The tables of a store and what each operation of StateStore writes in   *)
(* them.  A table is a set of rows, each with a key of its own and with    *)
(* the family and the child it belongs to, if any.  Tables that are only   *)
(* put, read and erased (exams, sessions, materials, items, escalations,   *)
(* quarantine, enrollment) are all as "operations" is.                     *)
(***************************************************************************)
EXTENDS Naturals, FiniteSets

Table == {"families", "students", "operations", "mastery", "spaced", "outcomes",
          "claims", "budgets", "leases"}

\* The tables that an erasure goes through, and those that nobody writes
\* without having finished an interrupted transaction first.
Erased == Table \ {"leases"}
Guarded == Table \ {"claims", "budgets", "leases"}

Nobody == "nobody"
Everyone == "GLOBAL"

Row(key, family, student, value) ==
    [key |-> key, family |-> family, student |-> student, value |-> value]

PutRow(rows, row) == {r \in rows : r.key # row.key} \cup {row}

\* The value of a row, or that of a row that is not there.
ValueOf(rows, key, none) ==
    IF \E r \in rows : r.key = key THEN (CHOOSE r \in rows : r.key = key).value ELSE none

Has(rows, key) == \E r \in rows : r.key = key

-----------------------------------------------------------------------------
(* An operation is its kind, the row it is about, and what its caller has   *)
(* read before: the mastery and the spacing of the child, or the children   *)
(* of the family.                                                           *)
NothingRead == [mastery |-> 0, spaced |-> 0, students |-> {}]

Operation(kind, table, row) ==
    [kind |-> kind, table |-> table, row |-> row, read |-> NothingRead]

Kinds == {"put", "delete", "delete_where", "claim", "release_claim", "reserve",
          "acquire", "release", "outcome", "forget", "open"}

\* Those that are written as one transaction.
Journaled == {"outcome", "forget"}

\* Mutant of Recovering: a claim is made in the table as it stands.
RecoveringClaimless ==
    {"put", "delete", "delete_where", "outcome", "forget", "open"}

\* Mutant of Recovering: a put writes in the table as it stands.
RecoveringToDecide == {"claim", "outcome", "forget", "open"}

\* Those that finish an interrupted transaction before they read.
Recovering == {"put", "delete", "delete_where", "claim", "outcome", "forget", "open"}

Written(op) ==
    CASE op.kind \in {"put", "delete"} -> {op.table}
      [] op.kind = "delete_where" -> {"operations"}
      [] op.kind \in {"claim", "release_claim"} -> {"claims"}
      [] op.kind = "reserve" -> {"budgets"}
      [] op.kind \in {"acquire", "release"} -> {"leases"}
      [] op.kind = "outcome" -> {"mastery", "spaced", "outcomes"}
      [] op.kind = "forget" -> Erased
      [] OTHER -> {}

\* The mastery of the child is what the caller read.
Unchanged(op, mastery) == ValueOf(mastery, op.row.student, 0) = op.read.mastery

OutcomeIsNew(op, outcomes) == ~Has(outcomes, op.row.key)

\* Whether the operation changes anything, by the tables it looks at.
Accepts(op, tables, limit, globalLimit) ==
    CASE op.kind = "claim" -> ~Has(tables["claims"], op.row.key)
      [] op.kind = "acquire" -> ~Has(tables["leases"], op.row.key)
      [] op.kind = "reserve" ->
           /\ ValueOf(tables["budgets"], op.row.family, 0) < limit
           /\ ValueOf(tables["budgets"], Everyone, 0) < globalLimit
      [] op.kind = "outcome" ->
           /\ OutcomeIsNew(op, tables["outcomes"])
           /\ Unchanged(op, tables["mastery"])
      [] OTHER -> TRUE

\* Rows of the family, or of the children of it that the caller knew of.
IsOwned(r, op) == r.family = op.row.family \/ r.student \in op.read.students

\* The rows of a table that the operation leaves.
RowsAfter(op, t, rows) ==
    CASE op.kind \in {"put", "claim", "acquire"} -> PutRow(rows, op.row)
      [] op.kind = "delete" -> {r \in rows : r.key # op.row.key}
      [] op.kind = "delete_where" -> {r \in rows : r.family # op.row.family}
      [] op.kind \in {"release_claim", "release"} ->
           {r \in rows : r.key # op.row.key \/ r.value # op.row.value}
      [] op.kind = "reserve" ->
           PutRow(PutRow(rows, Row(op.row.family, op.row.family, Nobody,
                                   ValueOf(rows, op.row.family, 0) + 1)),
                  Row(Everyone, Nobody, Nobody, ValueOf(rows, Everyone, 0) + 1))
      [] op.kind = "outcome" /\ t = "mastery" ->
           PutRow(rows, Row(op.row.student, Nobody, op.row.student, op.read.mastery + 1))
      [] op.kind = "outcome" /\ t = "spaced" ->
           PutRow(rows, Row(op.row.student, Nobody, op.row.student, op.read.spaced + 1))
      [] op.kind = "outcome" /\ t = "outcomes" -> PutRow(rows, op.row)
      [] op.kind = "forget" -> {r \in rows : ~IsOwned(r, op)}
      [] OTHER -> rows
=============================================================================
