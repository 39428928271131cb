---------------------------- MODULE MCLocalStore ----------------------------
(***************************************************************************)
(* Two processes of a local installation.  One of them answers for a child *)
(* of a family, and the other for the same child, or erases the family, or *)
(* writes beside it.                                                       *)
(***************************************************************************)
EXTENDS LocalStore, TLC

CONSTANTS p1, p2

Pair(one, two) == (p1 :> one) @@ (p2 :> two)

Fam(f) == Row(f, f, Nobody, 1)
Child(s, f) == Row(s, f, s, 1)

\* Every call of the webhook is the same owner.
Webhook == "telegram-webhook"

MCStart ==
    [t \in Table |->
       CASE t = "families" -> {Fam("f"), Fam("g")}
         [] t = "students" -> {Child("s", "f"), Child("u", "g")}
         [] t = "operations" -> {Row("f#o", "f", Nobody, 1)}
         [] t = "mastery" -> {Row("u", Nobody, "u", 1)}
         [] t = "spaced" -> {Row("u", Nobody, "u", 1)}
         [] t = "outcomes" -> {Row("u#0", Nobody, "u", 1)}
         [] t = "claims" -> {Row("f-chat", "f", Nobody, Webhook)}
         [] t = "budgets" -> {Row("f", "f", Nobody, 1), Row(Everyone, Nobody, Nobody, 1)}
         [] OTHER -> {}]

Answer(s, k) == Operation("outcome", "outcomes", Row(k, Nobody, s, 1))
Forget(f) == Operation("forget", "families", Fam(f))
Put(t, row) == Operation("put", t, row)
Delete(t, row) == Operation("delete", t, row)
Clear(f) == Operation("delete_where", "operations", Row("", f, Nobody, 0))
Claiming(k, f) == Operation("claim", "claims", Row(k, f, Nobody, Webhook))
Releasing(k, f) == Operation("release_claim", "claims", Row(k, f, Nobody, Webhook))
Lease(f, owner) == Operation("acquire", "leases", Row(f, Nobody, Nobody, owner))
Unlease(f, owner) == Operation("release", "leases", Row(f, Nobody, Nobody, owner))
Reserve(f) == Operation("reserve", "budgets", Row(f, f, Nobody, 0))

\* What each does: the pairs of an erasure or an outcome with everything else.
MCAgendas ==
    { Pair(<<Answer("s", "s#1"), Answer("s", "s#2")>>,
           <<Answer("s", "s#2"), Answer("s", "s#3")>>),
      Pair(<<Answer("s", "s#1"), Reserve("f")>>,
           <<Forget("f"), Reserve("f")>>),
      Pair(<<Forget("f"), Claiming("k", "g")>>,
           <<Claiming("k", "g"), Releasing("k", "g")>>),
      Pair(<<Forget("f"), Claiming("k", "f"), Claiming("k", "f")>>,
           <<Claiming("k", "f"), Releasing("k", "f")>>),
      Pair(<<Forget("f"), Put("families", Fam("h"))>>,
           <<Answer("u", "u#1"), Put("students", Child("v", "f"))>>),
      Pair(<<Lease("f", 1), Clear("f"), Unlease("f", 1)>>,
           <<Lease("f", 2), Forget("f"), Unlease("f", 2)>>),
      Pair(<<Put("operations", Row("f#p", "f", Nobody, 1)), Delete("operations", Row("f#o", "f", Nobody, 1))>>,
           <<Forget("g"), Answer("s", "s#1")>>),
      Pair(<<Answer("s", "s#1"), Answer("s", "s#2"), Forget("f")>>,
           <<Put("students", Child("s", "f")), Answer("s", "s#3"), Answer("s", "s#1")>>),
      Pair(<<Claiming("k", Nobody), Forget("f"), Releasing("k", Nobody)>>,
           <<Forget("g"), Claiming("k", Nobody), Releasing("k", Nobody), Claiming("k", Nobody)>>),
      Pair(<<Forget("f"), Put("families", Fam("f")), Reserve("f")>>,
           <<Forget("g"), Put("operations", Row("f#q", "f", Nobody, 1)), Clear("f")>>) }
=============================================================================
