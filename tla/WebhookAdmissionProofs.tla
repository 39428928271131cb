----------------------- MODULE WebhookAdmissionProofs -----------------------
(***************************************************************************)
(* For any chats, updates, calls, limits and faults: an update is          *)
(* published once, and lost only by a fault; and what a chat has published *)
(* stays within its minutes, and within its day if nobody knows it.        *)
(*                                                                         *)
(* The first two come from the claim.  The call that claimed an update is  *)
(* alone between its claim and its publication or release; a claim that    *)
(* nobody holds any more was published, or its holder met a fault.  The    *)
(* limits come from the counters: what is published took a unit of each.   *)
(* The second half follows an event to its worker.                         *)
(***************************************************************************)
EXTENDS WebhookAdmission, FamilyWork, SequencesExt, FiniteSetTheorems, SequenceTheorems, TLAPS

Place == {"idle", "rate", "stranger", "known", "claim", "publish", "release", "respond"}

Shape ==
    /\ pc \in [Call -> Place]
    /\ update \in [Call -> Update]
    /\ published \in [Update -> Nat]

\* Calls that claimed their update, until they publish or release it.
Holds(k) == pc[k] \in {"publish", "release"}

HoldersClaim == \A k \in Call : Holds(k) => ClaimKey(update[k]) \in claims

OneHolder ==
    \A j, k \in Call : Holds(j) /\ Holds(k) /\ update[j] = update[k] => j = k

\* What is not doubted is published by its holder or not at all, and is
\* claimed ever after.
HeldIsUnpublished ==
    \A k \in Call : Holds(k) /\ update[k] \notin doubted => published[update[k]] = 0

PublishedIsClaimed ==
    \A u \in Update \ doubted : published[u] > 0 => ClaimKey(u) \in claims

OnceInv ==
    /\ Shape /\ HoldersClaim /\ OneHolder /\ HeldIsUnpublished /\ PublishedIsClaimed
    /\ PublishedOnce

\* A claim is released only after a fault.
ReleaseIsTroubled == \A k \in Call : pc[k] = "release" => update[k] \in troubled

Clean == Update \ (refused \cup troubled)

\* The claim of an update that met no fault is on its way to the bus, or there.
ClaimsAreKept ==
    \A u \in Clean : ClaimKey(u) \in claims =>
        published[u] > 0 \/ \E k \in Call : pc[k] = "publish" /\ update[k] = u

AnsweredIsClaimed ==
    \A k \in Call :
        pc[k] = "respond" /\ update[k] \in Clean => ClaimKey(update[k]) \in claims

ForgottenIsClaimed == \A u \in Clean \ held : ClaimKey(u) \in claims

LostInv ==
    /\ Shape /\ HoldersClaim
    /\ ReleaseIsTroubled /\ ClaimsAreKept /\ AnsweredIsClaimed /\ ForgottenIsClaimed

IInv == OnceInv /\ LostInv

-----------------------------------------------------------------------------
LEMMA KeysDiffer ==
    ASSUME NEW u \in Update, NEW v \in Update, ClaimKey(u) = ClaimKey(v) PROVE u = v
BY DEF ClaimKey

LEMMA NoUpdateType == NoUpdate \in Update
BY WebhookAssumption DEF NoUpdate

LEMMA InitInv == Init => OnceInv /\ LostInv
<1> SUFFICES ASSUME Init PROVE OnceInv /\ LostInv
  OBVIOUS
<1>1. Shape
  BY NoUpdateType DEF Init, Shape, Place
<1>2. HoldersClaim /\ OneHolder /\ HeldIsUnpublished /\ PublishedIsClaimed /\ PublishedOnce
  BY DEF Init, HoldersClaim, OneHolder, HeldIsUnpublished, PublishedIsClaimed, PublishedOnce,
         Holds
<1>3. ReleaseIsTroubled /\ ClaimsAreKept /\ AnsweredIsClaimed /\ ForgottenIsClaimed
  BY DEF Init, ReleaseIsTroubled, ClaimsAreKept, AnsweredIsClaimed, ForgottenIsClaimed, Clean
<1> QED
  BY <1>1, <1>2, <1>3 DEF OnceInv, LostInv

LEMMA ShapeStep == Shape /\ [Next]_vars => Shape'
<1> SUFFICES ASSUME Shape, [Next]_vars PROVE Shape'
  OBVIOUS
<1> USE NoUpdateType DEF Shape, Place, callVars, storeVars, history
<1>1. ASSUME NEW k \in Call, NEW u \in Update, Post(k, u) PROVE Shape'
  BY <1>1 DEF Post, Goto
<1>2. ASSUME NEW k \in Call, ReserveRate(k) PROVE Shape'
  BY <1>2 DEF ReserveRate, Goto, Refuse
<1>3. ASSUME NEW k \in Call, CheckKnown(k) PROVE Shape'
  BY <1>3 DEF CheckKnown, Goto
<1>4. ASSUME NEW k \in Call, ReserveStranger(k) PROVE Shape'
  BY <1>4 DEF ReserveStranger, Goto, Refuse
<1>5. ASSUME NEW k \in Call, Claim(k) PROVE Shape'
  BY <1>5 DEF Claim, Goto
<1>6. ASSUME NEW k \in Call, Publish(k) PROVE Shape'
  BY <1>6 DEF Publish, Goto
<1>7. ASSUME NEW k \in Call, ReleaseClaim(k) PROVE Shape'
  BY <1>7 DEF ReleaseClaim, Goto
<1>8. ASSUME NEW k \in Call, Respond(k) PROVE Shape'
  BY <1>8 DEF Respond, Finish, Goto
<1>9. ASSUME NEW k \in Call, PublishFails(k) PROVE Shape'
  BY <1>9 DEF PublishFails, Fault, Goto
<1>10. ASSUME NEW k \in Call, StoreFails(k) PROVE Shape'
  BY <1>10 DEF StoreFails, Fault, Goto
<1>11. ASSUME NEW k \in Call, Crash(k) PROVE Shape'
  BY <1>11 DEF Crash, Fault, Finish, Goto
<1>12. ASSUME NEW c \in Chat, BecomeKnown(c) PROVE Shape'
  BY <1>12 DEF BecomeKnown
<1>13. ASSUME NextMinute PROVE Shape'
  BY <1>13 DEF NextMinute
<1>14. CASE UNCHANGED vars
  BY <1>14 DEF vars
<1> QED
  BY <1>1, <1>2, <1>3, <1>4, <1>5, <1>6, <1>7, <1>8, <1>9, <1>10,
     <1>11, <1>12, <1>13, <1>14 DEF Next, Work

LEMMA ClaimStep == Shape /\ OneHolder /\ HoldersClaim /\ [Next]_vars => HoldersClaim'
<1> SUFFICES ASSUME Shape /\ OneHolder /\ HoldersClaim, [Next]_vars PROVE HoldersClaim'
  OBVIOUS
<1> USE NoUpdateType, KeysDiffer DEF HoldersClaim, Holds, Shape, Place, OneHolder,
                                     callVars, storeVars, history
<1>1. ASSUME NEW k \in Call, NEW u \in Update, Post(k, u) PROVE HoldersClaim'
  BY <1>1 DEF Post, Goto
<1>2. ASSUME NEW k \in Call, ReserveRate(k) PROVE HoldersClaim'
  BY <1>2 DEF ReserveRate, Goto, Refuse
<1>3. ASSUME NEW k \in Call, CheckKnown(k) PROVE HoldersClaim'
  BY <1>3 DEF CheckKnown, Goto
<1>4. ASSUME NEW k \in Call, ReserveStranger(k) PROVE HoldersClaim'
  BY <1>4 DEF ReserveStranger, Goto, Refuse
<1>5. ASSUME NEW k \in Call, Claim(k) PROVE HoldersClaim'
  BY <1>5 DEF Claim, Goto
<1>6. ASSUME NEW k \in Call, Publish(k) PROVE HoldersClaim'
  BY <1>6 DEF Publish, Goto
<1>7. ASSUME NEW k \in Call, ReleaseClaim(k) PROVE HoldersClaim'
  BY <1>7 DEF ReleaseClaim, Goto
<1>8. ASSUME NEW k \in Call, Respond(k) PROVE HoldersClaim'
  BY <1>8 DEF Respond, Finish, Goto
<1>9. ASSUME NEW k \in Call, PublishFails(k) PROVE HoldersClaim'
  BY <1>9 DEF PublishFails, Fault, Goto
<1>10. ASSUME NEW k \in Call, StoreFails(k) PROVE HoldersClaim'
  BY <1>10 DEF StoreFails, Fault, Goto
<1>11. ASSUME NEW k \in Call, Crash(k) PROVE HoldersClaim'
  BY <1>11 DEF Crash, Fault, Finish, Goto
<1>12. ASSUME NEW c \in Chat, BecomeKnown(c) PROVE HoldersClaim'
  BY <1>12 DEF BecomeKnown
<1>13. ASSUME NextMinute PROVE HoldersClaim'
  BY <1>13 DEF NextMinute
<1>14. CASE UNCHANGED vars
  BY <1>14 DEF vars
<1> QED
  BY <1>1, <1>2, <1>3, <1>4, <1>5, <1>6, <1>7, <1>8, <1>9, <1>10,
     <1>11, <1>12, <1>13, <1>14 DEF Next, Work

LEMMA HolderStep == Shape /\ OneHolder /\ HoldersClaim /\ [Next]_vars => OneHolder'
<1> SUFFICES ASSUME Shape /\ OneHolder /\ HoldersClaim, [Next]_vars PROVE OneHolder'
  OBVIOUS
<1> USE NoUpdateType DEF OneHolder, Holds, Shape, Place, HoldersClaim, callVars,
                         storeVars, history
<1>1. ASSUME NEW k \in Call, NEW u \in Update, Post(k, u) PROVE OneHolder'
  BY <1>1 DEF Post, Goto
<1>2. ASSUME NEW k \in Call, ReserveRate(k) PROVE OneHolder'
  BY <1>2 DEF ReserveRate, Goto, Refuse
<1>3. ASSUME NEW k \in Call, CheckKnown(k) PROVE OneHolder'
  BY <1>3 DEF CheckKnown, Goto
<1>4. ASSUME NEW k \in Call, ReserveStranger(k) PROVE OneHolder'
  BY <1>4 DEF ReserveStranger, Goto, Refuse
<1>5. ASSUME NEW k \in Call, Claim(k) PROVE OneHolder'
  BY <1>5 DEF Claim, Goto
<1>6. ASSUME NEW k \in Call, Publish(k) PROVE OneHolder'
  BY <1>6 DEF Publish, Goto
<1>7. ASSUME NEW k \in Call, ReleaseClaim(k) PROVE OneHolder'
  BY <1>7 DEF ReleaseClaim, Goto
<1>8. ASSUME NEW k \in Call, Respond(k) PROVE OneHolder'
  BY <1>8 DEF Respond, Finish, Goto
<1>9. ASSUME NEW k \in Call, PublishFails(k) PROVE OneHolder'
  BY <1>9 DEF PublishFails, Fault, Goto
<1>10. ASSUME NEW k \in Call, StoreFails(k) PROVE OneHolder'
  BY <1>10 DEF StoreFails, Fault, Goto
<1>11. ASSUME NEW k \in Call, Crash(k) PROVE OneHolder'
  BY <1>11 DEF Crash, Fault, Finish, Goto
<1>12. ASSUME NEW c \in Chat, BecomeKnown(c) PROVE OneHolder'
  BY <1>12 DEF BecomeKnown
<1>13. ASSUME NextMinute PROVE OneHolder'
  BY <1>13 DEF NextMinute
<1>14. CASE UNCHANGED vars
  BY <1>14 DEF vars
<1> QED
  BY <1>1, <1>2, <1>3, <1>4, <1>5, <1>6, <1>7, <1>8, <1>9, <1>10,
     <1>11, <1>12, <1>13, <1>14 DEF Next, Work

LEMMA UnpublishedStep == OnceInv /\ [Next]_vars => HeldIsUnpublished'
<1> SUFFICES ASSUME OnceInv, [Next]_vars PROVE HeldIsUnpublished'
  OBVIOUS
<1> USE NoUpdateType DEF HeldIsUnpublished, Holds, OnceInv, Shape, Place,
                         HoldersClaim, OneHolder, PublishedIsClaimed, callVars,
                         storeVars, history
<1>1. ASSUME NEW k \in Call, NEW u \in Update, Post(k, u) PROVE HeldIsUnpublished'
  BY <1>1 DEF Post, Goto
<1>2. ASSUME NEW k \in Call, ReserveRate(k) PROVE HeldIsUnpublished'
  BY <1>2 DEF ReserveRate, Goto, Refuse
<1>3. ASSUME NEW k \in Call, CheckKnown(k) PROVE HeldIsUnpublished'
  BY <1>3 DEF CheckKnown, Goto
<1>4. ASSUME NEW k \in Call, ReserveStranger(k) PROVE HeldIsUnpublished'
  BY <1>4 DEF ReserveStranger, Goto, Refuse
<1>5. ASSUME NEW k \in Call, Claim(k) PROVE HeldIsUnpublished'
  BY <1>5 DEF Claim, Goto
<1>6. ASSUME NEW k \in Call, Publish(k) PROVE HeldIsUnpublished'
  BY <1>6 DEF Publish, Goto
<1>7. ASSUME NEW k \in Call, ReleaseClaim(k) PROVE HeldIsUnpublished'
  BY <1>7 DEF ReleaseClaim, Goto
<1>8. ASSUME NEW k \in Call, Respond(k) PROVE HeldIsUnpublished'
  BY <1>8 DEF Respond, Finish, Goto
<1>9. ASSUME NEW k \in Call, PublishFails(k) PROVE HeldIsUnpublished'
  BY <1>9 DEF PublishFails, Fault, Goto
<1>10. ASSUME NEW k \in Call, StoreFails(k) PROVE HeldIsUnpublished'
  BY <1>10 DEF StoreFails, Fault, Goto
<1>11. ASSUME NEW k \in Call, Crash(k) PROVE HeldIsUnpublished'
  BY <1>11 DEF Crash, Fault, Finish, Goto
<1>12. ASSUME NEW c \in Chat, BecomeKnown(c) PROVE HeldIsUnpublished'
  BY <1>12 DEF BecomeKnown
<1>13. ASSUME NextMinute PROVE HeldIsUnpublished'
  BY <1>13 DEF NextMinute
<1>14. CASE UNCHANGED vars
  BY <1>14 DEF vars
<1> QED
  BY <1>1, <1>2, <1>3, <1>4, <1>5, <1>6, <1>7, <1>8, <1>9, <1>10,
     <1>11, <1>12, <1>13, <1>14 DEF Next, Work

LEMMA PublishedStep == OnceInv /\ [Next]_vars => PublishedIsClaimed'
<1> SUFFICES ASSUME OnceInv, [Next]_vars PROVE PublishedIsClaimed'
  OBVIOUS
<1> USE KeysDiffer DEF PublishedIsClaimed, Holds, OnceInv, Shape, Place,
                       HoldersClaim, HeldIsUnpublished, callVars, storeVars, history
<1>1. ASSUME NEW k \in Call, NEW u \in Update, Post(k, u) PROVE PublishedIsClaimed'
  BY <1>1 DEF Post, Goto
<1>2. ASSUME NEW k \in Call, ReserveRate(k) PROVE PublishedIsClaimed'
  BY <1>2 DEF ReserveRate, Goto, Refuse
<1>3. ASSUME NEW k \in Call, CheckKnown(k) PROVE PublishedIsClaimed'
  BY <1>3 DEF CheckKnown, Goto
<1>4. ASSUME NEW k \in Call, ReserveStranger(k) PROVE PublishedIsClaimed'
  BY <1>4 DEF ReserveStranger, Goto, Refuse
<1>5. ASSUME NEW k \in Call, Claim(k) PROVE PublishedIsClaimed'
  BY <1>5 DEF Claim, Goto
<1>6. ASSUME NEW k \in Call, Publish(k) PROVE PublishedIsClaimed'
  BY <1>6 DEF Publish, Goto
<1>7. ASSUME NEW k \in Call, ReleaseClaim(k) PROVE PublishedIsClaimed'
  BY <1>7 DEF ReleaseClaim, Goto
<1>8. ASSUME NEW k \in Call, Respond(k) PROVE PublishedIsClaimed'
  BY <1>8 DEF Respond, Finish, Goto
<1>9. ASSUME NEW k \in Call, PublishFails(k) PROVE PublishedIsClaimed'
  BY <1>9 DEF PublishFails, Fault, Goto
<1>10. ASSUME NEW k \in Call, StoreFails(k) PROVE PublishedIsClaimed'
  BY <1>10 DEF StoreFails, Fault, Goto
<1>11. ASSUME NEW k \in Call, Crash(k) PROVE PublishedIsClaimed'
  BY <1>11 DEF Crash, Fault, Finish, Goto
<1>12. ASSUME NEW c \in Chat, BecomeKnown(c) PROVE PublishedIsClaimed'
  BY <1>12 DEF BecomeKnown
<1>13. ASSUME NextMinute PROVE PublishedIsClaimed'
  BY <1>13 DEF NextMinute
<1>14. CASE UNCHANGED vars
  BY <1>14 DEF vars
<1> QED
  BY <1>1, <1>2, <1>3, <1>4, <1>5, <1>6, <1>7, <1>8, <1>9, <1>10,
     <1>11, <1>12, <1>13, <1>14 DEF Next, Work

LEMMA OnceStep == OnceInv /\ [Next]_vars => PublishedOnce'
<1> SUFFICES ASSUME OnceInv, [Next]_vars PROVE PublishedOnce'
  OBVIOUS
<1> USE DEF PublishedOnce, Holds, OnceInv, Shape, HeldIsUnpublished, callVars,
            storeVars, history
<1>1. ASSUME NEW k \in Call, NEW u \in Update, Post(k, u) PROVE PublishedOnce'
  BY <1>1 DEF Post, Goto
<1>2. ASSUME NEW k \in Call, ReserveRate(k) PROVE PublishedOnce'
  BY <1>2 DEF ReserveRate, Goto, Refuse
<1>3. ASSUME NEW k \in Call, CheckKnown(k) PROVE PublishedOnce'
  BY <1>3 DEF CheckKnown, Goto
<1>4. ASSUME NEW k \in Call, ReserveStranger(k) PROVE PublishedOnce'
  BY <1>4 DEF ReserveStranger, Goto, Refuse
<1>5. ASSUME NEW k \in Call, Claim(k) PROVE PublishedOnce'
  BY <1>5 DEF Claim, Goto
<1>6. ASSUME NEW k \in Call, Publish(k) PROVE PublishedOnce'
  BY <1>6 DEF Publish, Goto
<1>7. ASSUME NEW k \in Call, ReleaseClaim(k) PROVE PublishedOnce'
  BY <1>7 DEF ReleaseClaim, Goto
<1>8. ASSUME NEW k \in Call, Respond(k) PROVE PublishedOnce'
  BY <1>8 DEF Respond, Finish, Goto
<1>9. ASSUME NEW k \in Call, PublishFails(k) PROVE PublishedOnce'
  BY <1>9 DEF PublishFails, Fault, Goto
<1>10. ASSUME NEW k \in Call, StoreFails(k) PROVE PublishedOnce'
  BY <1>10 DEF StoreFails, Fault, Goto
<1>11. ASSUME NEW k \in Call, Crash(k) PROVE PublishedOnce'
  BY <1>11 DEF Crash, Fault, Finish, Goto
<1>12. ASSUME NEW c \in Chat, BecomeKnown(c) PROVE PublishedOnce'
  BY <1>12 DEF BecomeKnown
<1>13. ASSUME NextMinute PROVE PublishedOnce'
  BY <1>13 DEF NextMinute
<1>14. CASE UNCHANGED vars
  BY <1>14 DEF vars
<1> QED
  BY <1>1, <1>2, <1>3, <1>4, <1>5, <1>6, <1>7, <1>8, <1>9, <1>10,
     <1>11, <1>12, <1>13, <1>14 DEF Next, Work

LEMMA TroubledStep == LostInv /\ [Next]_vars => ReleaseIsTroubled'
<1> SUFFICES ASSUME LostInv, [Next]_vars PROVE ReleaseIsTroubled'
  OBVIOUS
<1> USE NoUpdateType DEF ReleaseIsTroubled, LostInv, Shape, Place, callVars,
                         storeVars, history
<1>1. ASSUME NEW k \in Call, NEW u \in Update, Post(k, u) PROVE ReleaseIsTroubled'
  BY <1>1 DEF Post, Goto
<1>2. ASSUME NEW k \in Call, ReserveRate(k) PROVE ReleaseIsTroubled'
  BY <1>2 DEF ReserveRate, Goto, Refuse
<1>3. ASSUME NEW k \in Call, CheckKnown(k) PROVE ReleaseIsTroubled'
  BY <1>3 DEF CheckKnown, Goto
<1>4. ASSUME NEW k \in Call, ReserveStranger(k) PROVE ReleaseIsTroubled'
  BY <1>4 DEF ReserveStranger, Goto, Refuse
<1>5. ASSUME NEW k \in Call, Claim(k) PROVE ReleaseIsTroubled'
  BY <1>5 DEF Claim, Goto
<1>6. ASSUME NEW k \in Call, Publish(k) PROVE ReleaseIsTroubled'
  BY <1>6 DEF Publish, Goto
<1>7. ASSUME NEW k \in Call, ReleaseClaim(k) PROVE ReleaseIsTroubled'
  BY <1>7 DEF ReleaseClaim, Goto
<1>8. ASSUME NEW k \in Call, Respond(k) PROVE ReleaseIsTroubled'
  BY <1>8 DEF Respond, Finish, Goto
<1>9. ASSUME NEW k \in Call, PublishFails(k) PROVE ReleaseIsTroubled'
  BY <1>9 DEF PublishFails, Fault, Goto
<1>10. ASSUME NEW k \in Call, StoreFails(k) PROVE ReleaseIsTroubled'
  BY <1>10 DEF StoreFails, Fault, Goto
<1>11. ASSUME NEW k \in Call, Crash(k) PROVE ReleaseIsTroubled'
  BY <1>11 DEF Crash, Fault, Finish, Goto
<1>12. ASSUME NEW c \in Chat, BecomeKnown(c) PROVE ReleaseIsTroubled'
  BY <1>12 DEF BecomeKnown
<1>13. ASSUME NextMinute PROVE ReleaseIsTroubled'
  BY <1>13 DEF NextMinute
<1>14. CASE UNCHANGED vars
  BY <1>14 DEF vars
<1> QED
  BY <1>1, <1>2, <1>3, <1>4, <1>5, <1>6, <1>7, <1>8, <1>9, <1>10,
     <1>11, <1>12, <1>13, <1>14 DEF Next, Work

LEMMA KeptStep == LostInv /\ [Next]_vars => ClaimsAreKept'
<1> SUFFICES ASSUME LostInv, [Next]_vars PROVE ClaimsAreKept'
  OBVIOUS
<1> USE NoUpdateType, KeysDiffer DEF ClaimsAreKept, LostInv, Clean, Shape, Place,
                                     callVars, storeVars, history
<1>1. ASSUME NEW k \in Call, NEW u \in Update, Post(k, u) PROVE ClaimsAreKept'
  BY <1>1 DEF Post, Goto
<1>2. ASSUME NEW k \in Call, ReserveRate(k) PROVE ClaimsAreKept'
  BY <1>2 DEF ReserveRate, Goto, Refuse
<1>3. ASSUME NEW k \in Call, CheckKnown(k) PROVE ClaimsAreKept'
  BY <1>3 DEF CheckKnown, Goto
<1>4. ASSUME NEW k \in Call, ReserveStranger(k) PROVE ClaimsAreKept'
  BY <1>4 DEF ReserveStranger, Goto, Refuse
<1>5. ASSUME NEW k \in Call, Claim(k) PROVE ClaimsAreKept'
  BY <1>5 DEF Claim, Goto
<1>6. ASSUME NEW k \in Call, Publish(k) PROVE ClaimsAreKept'
  BY <1>6 DEF Publish, Goto
<1>7. ASSUME NEW k \in Call, ReleaseClaim(k) PROVE ClaimsAreKept'
  BY <1>7 DEF ReleaseClaim, Goto
<1>8. ASSUME NEW k \in Call, Respond(k) PROVE ClaimsAreKept'
  BY <1>8 DEF Respond, Finish, Goto
<1>9. ASSUME NEW k \in Call, PublishFails(k) PROVE ClaimsAreKept'
  BY <1>9 DEF PublishFails, Fault, Goto
<1>10. ASSUME NEW k \in Call, StoreFails(k) PROVE ClaimsAreKept'
  BY <1>10 DEF StoreFails, Fault, Goto
<1>11. ASSUME NEW k \in Call, Crash(k) PROVE ClaimsAreKept'
  BY <1>11 DEF Crash, Fault, Finish, Goto
<1>12. ASSUME NEW c \in Chat, BecomeKnown(c) PROVE ClaimsAreKept'
  BY <1>12 DEF BecomeKnown
<1>13. ASSUME NextMinute PROVE ClaimsAreKept'
  BY <1>13 DEF NextMinute
<1>14. CASE UNCHANGED vars
  BY <1>14 DEF vars
<1> QED
  BY <1>1, <1>2, <1>3, <1>4, <1>5, <1>6, <1>7, <1>8, <1>9, <1>10,
     <1>11, <1>12, <1>13, <1>14 DEF Next, Work

LEMMA AnsweredStep == LostInv /\ [Next]_vars => AnsweredIsClaimed'
<1> SUFFICES ASSUME LostInv, [Next]_vars PROVE AnsweredIsClaimed'
  OBVIOUS
<1> USE NoUpdateType, KeysDiffer DEF AnsweredIsClaimed, LostInv, Clean, Shape,
                                     Place, Holds, HoldersClaim, ReleaseIsTroubled,
                                     callVars, storeVars, history
<1>1. ASSUME NEW k \in Call, NEW u \in Update, Post(k, u) PROVE AnsweredIsClaimed'
  BY <1>1 DEF Post, Goto
<1>2. ASSUME NEW k \in Call, ReserveRate(k) PROVE AnsweredIsClaimed'
  BY <1>2 DEF ReserveRate, Goto, Refuse
<1>3. ASSUME NEW k \in Call, CheckKnown(k) PROVE AnsweredIsClaimed'
  BY <1>3 DEF CheckKnown, Goto
<1>4. ASSUME NEW k \in Call, ReserveStranger(k) PROVE AnsweredIsClaimed'
  BY <1>4 DEF ReserveStranger, Goto, Refuse
<1>5. ASSUME NEW k \in Call, Claim(k) PROVE AnsweredIsClaimed'
  BY <1>5 DEF Claim, Goto
<1>6. ASSUME NEW k \in Call, Publish(k) PROVE AnsweredIsClaimed'
  BY <1>6 DEF Publish, Goto
<1>7. ASSUME NEW k \in Call, ReleaseClaim(k) PROVE AnsweredIsClaimed'
  BY <1>7 DEF ReleaseClaim, Goto
<1>8. ASSUME NEW k \in Call, Respond(k) PROVE AnsweredIsClaimed'
  BY <1>8 DEF Respond, Finish, Goto
<1>9. ASSUME NEW k \in Call, PublishFails(k) PROVE AnsweredIsClaimed'
  BY <1>9 DEF PublishFails, Fault, Goto
<1>10. ASSUME NEW k \in Call, StoreFails(k) PROVE AnsweredIsClaimed'
  BY <1>10 DEF StoreFails, Fault, Goto
<1>11. ASSUME NEW k \in Call, Crash(k) PROVE AnsweredIsClaimed'
  BY <1>11 DEF Crash, Fault, Finish, Goto
<1>12. ASSUME NEW c \in Chat, BecomeKnown(c) PROVE AnsweredIsClaimed'
  BY <1>12 DEF BecomeKnown
<1>13. ASSUME NextMinute PROVE AnsweredIsClaimed'
  BY <1>13 DEF NextMinute
<1>14. CASE UNCHANGED vars
  BY <1>14 DEF vars
<1> QED
  BY <1>1, <1>2, <1>3, <1>4, <1>5, <1>6, <1>7, <1>8, <1>9, <1>10,
     <1>11, <1>12, <1>13, <1>14 DEF Next, Work

LEMMA ForgottenStep == LostInv /\ [Next]_vars => ForgottenIsClaimed'
<1> SUFFICES ASSUME LostInv, [Next]_vars PROVE ForgottenIsClaimed'
  OBVIOUS
<1> USE NoUpdateType, KeysDiffer DEF ForgottenIsClaimed, LostInv, Clean, Shape,
                                     Place, AnsweredIsClaimed, ReleaseIsTroubled,
                                     callVars, storeVars, history
<1>1. ASSUME NEW k \in Call, NEW u \in Update, Post(k, u) PROVE ForgottenIsClaimed'
  BY <1>1 DEF Post, Goto
<1>2. ASSUME NEW k \in Call, ReserveRate(k) PROVE ForgottenIsClaimed'
  BY <1>2 DEF ReserveRate, Goto, Refuse
<1>3. ASSUME NEW k \in Call, CheckKnown(k) PROVE ForgottenIsClaimed'
  BY <1>3 DEF CheckKnown, Goto
<1>4. ASSUME NEW k \in Call, ReserveStranger(k) PROVE ForgottenIsClaimed'
  BY <1>4 DEF ReserveStranger, Goto, Refuse
<1>5. ASSUME NEW k \in Call, Claim(k) PROVE ForgottenIsClaimed'
  BY <1>5 DEF Claim, Goto
<1>6. ASSUME NEW k \in Call, Publish(k) PROVE ForgottenIsClaimed'
  BY <1>6 DEF Publish, Goto
<1>7. ASSUME NEW k \in Call, ReleaseClaim(k) PROVE ForgottenIsClaimed'
  BY <1>7 DEF ReleaseClaim, Goto
<1>8. ASSUME NEW k \in Call, Respond(k) PROVE ForgottenIsClaimed'
  BY <1>8 DEF Respond, Finish, Goto
<1>9. ASSUME NEW k \in Call, PublishFails(k) PROVE ForgottenIsClaimed'
  BY <1>9 DEF PublishFails, Fault, Goto
<1>10. ASSUME NEW k \in Call, StoreFails(k) PROVE ForgottenIsClaimed'
  BY <1>10 DEF StoreFails, Fault, Goto
<1>11. ASSUME NEW k \in Call, Crash(k) PROVE ForgottenIsClaimed'
  BY <1>11 DEF Crash, Fault, Finish, Goto
<1>12. ASSUME NEW c \in Chat, BecomeKnown(c) PROVE ForgottenIsClaimed'
  BY <1>12 DEF BecomeKnown
<1>13. ASSUME NextMinute PROVE ForgottenIsClaimed'
  BY <1>13 DEF NextMinute
<1>14. CASE UNCHANGED vars
  BY <1>14 DEF vars
<1> QED
  BY <1>1, <1>2, <1>3, <1>4, <1>5, <1>6, <1>7, <1>8, <1>9, <1>10,
     <1>11, <1>12, <1>13, <1>14 DEF Next, Work

LEMMA IInvStep == IInv /\ [Next]_vars => IInv'
<1> SUFFICES ASSUME IInv, [Next]_vars PROVE IInv'
  OBVIOUS
<1>1. OnceInv'
  BY ShapeStep, ClaimStep, HolderStep, UnpublishedStep, PublishedStep, OnceStep
     DEF IInv, OnceInv
<1>2. LostInv'
  BY <1>1, TroubledStep, KeptStep, AnsweredStep, ForgottenStep DEF IInv, OnceInv, LostInv
<1> QED
  BY <1>1, <1>2 DEF IInv

LEMMA NothingIsLost == LostInv => LostOnlyByFault
<1> SUFFICES ASSUME LostInv, NEW u \in Update \ (held \cup refused \cup troubled)
             PROVE  Handling(u) \/ published[u] > 0
  BY DEF LostOnlyByFault
<1>1. u \in Clean /\ ClaimKey(u) \in claims
  BY DEF LostInv, ForgottenIsClaimed, Clean
<1> QED
  BY <1>1 DEF LostInv, ClaimsAreKept, Handling

LEMMA IInvHolds == Safety => []IInv
<1>1. Init => IInv
  BY InitInv DEF IInv
<1> QED
  BY <1>1, IInvStep, PTL DEF Safety

-----------------------------------------------------------------------------
(***************************************************************************)
(* claim / release_claim: for any number of calls and posts of an update,  *)
(* one event is published, unless the bus took one and reported it had not.*)
(***************************************************************************)
THEOREM PublishedAtMostOnce == Safety => []PublishedOnce
<1>1. IInv => PublishedOnce
  BY DEF IInv, OnceInv
<1> QED
  BY <1>1, IInvHolds, PTL

(***************************************************************************)
(* telegram_webhook: whatever the duplicates, limits and faults, an update *)
(* nobody will post or handle again was published, refused or met a fault. *)
(***************************************************************************)
THEOREM LostOnlyToFaults == Safety => []LostOnlyByFault
<1>1. IInv => LostOnlyByFault
  BY NothingIsLost DEF IInv
<1> QED
  BY <1>1, IInvHolds, PTL

-----------------------------------------------------------------------------
(***************************************************************************)
(* The limits.  A call that is past a limit has a reservation of its own,  *)
(* in the window it read the clock in; publishing spends it, and no retry  *)
(* gets it back.  So what a chat published and what its calls may still    *)
(* publish is never more than what was granted.                            *)
(***************************************************************************)
Windows ==
    /\ minute \in Minute /\ now \in [Call -> Minute]
    /\ \A k \in Call : now[k] <= minute
    /\ rate \in [Chat -> [Minute -> 0..MinuteLimit]]
    /\ \A c \in Chat, m \in Minute : m > minute => rate[c][m] = 0
    /\ stranger \in [Chat -> 0..DayLimit]

\* The reservations of a chat, window by window.
Granted(c) == {g \in Minute \X (1..MinuteLimit) : g[2] <= rate[c][g[1]]}

\* Calls of a chat that passed the limit of the minute, and those that passed
\* both limits.
Past(c) == {k \in Call : pc[k] \in {"known", "stranger", "claim", "publish"} /\ ChatAt(k) = c}
Clear(c) == {k \in Call : pc[k] \in {"claim", "publish"} /\ ChatAt(k) = c}

WithinGrants ==
    \A c \in Chat :
        /\ IsFiniteSet(EventsOf(c)) /\ IsFiniteSet(Past(c))
        /\ Cardinality(EventsOf(c)) + Cardinality(Past(c)) <= Cardinality(Granted(c))

WithinDay ==
    \A c \in Chat \ known : Cardinality(EventsOf(c)) + Cardinality(Clear(c)) <= stranger[c]

LimitsInv == Shape /\ Windows /\ WithinGrants /\ WithinDay

LEMMA ClearIsPast ==
    ASSUME NEW c PROVE Clear(c) \subseteq Past(c)
  BY DEF Clear, Past

LEMMA GrantsAreFinite ==
    ASSUME NEW c \in Chat
    PROVE  IsFiniteSet(Granted(c)) /\ Cardinality(Granted(c)) \in Nat
<1>1. IsFiniteSet(Minute) /\ IsFiniteSet(1..MinuteLimit)
  BY WebhookAssumption, FS_Interval DEF Minute
<1>2. IsFiniteSet(Minute \X (1..MinuteLimit))
  BY <1>1, FS_Product
<1>3. Granted(c) \subseteq Minute \X (1..MinuteLimit)
  BY DEF Granted
<1>4. IsFiniteSet(Granted(c))
  BY <1>2, <1>3, FS_Subset
<1> QED
  BY <1>4, FS_CardinalityType

LEMMA Counts ==
    ASSUME WithinGrants, NEW c \in Chat
    PROVE  /\ IsFiniteSet(EventsOf(c)) /\ IsFiniteSet(Past(c)) /\ IsFiniteSet(Clear(c))
           /\ Cardinality(EventsOf(c)) \in Nat /\ Cardinality(Past(c)) \in Nat
           /\ Cardinality(Clear(c)) \in Nat
<1>1. IsFiniteSet(EventsOf(c)) /\ IsFiniteSet(Past(c))
  BY DEF WithinGrants
<1>2. IsFiniteSet(Clear(c))
  BY <1>1, ClearIsPast, FS_Subset
<1> QED
  BY <1>1, <1>2, FS_CardinalityType

\* A step that publishes nothing and lets no call past a limit.
LEMMA QuietStep ==
    ASSUME LimitsInv, UNCHANGED <<published, rate, stranger>>, known \subseteq known',
           \A c \in Chat : Past(c)' \subseteq Past(c),
           \A c \in Chat \ known' : Clear(c)' \subseteq Clear(c)
    PROVE  WithinGrants' /\ WithinDay'
<1>1. \A c : EventsOf(c)' = EventsOf(c) /\ Granted(c)' = Granted(c)
  BY DEF EventsOf, Granted
<1>2. ASSUME NEW c \in Chat
      PROVE  /\ IsFiniteSet(EventsOf(c))' /\ IsFiniteSet(Past(c))'
             /\ Cardinality(EventsOf(c))' + Cardinality(Past(c))' <= Cardinality(Granted(c))'
  <2>1. IsFiniteSet(Past(c)') /\ Cardinality(Past(c)') <= Cardinality(Past(c))
    BY Counts, FS_Subset DEF LimitsInv
  <2>2. Cardinality(Past(c)') \in Nat
    BY <2>1, FS_CardinalityType
  <2> QED
    BY <1>1, <2>1, <2>2, Counts, GrantsAreFinite DEF LimitsInv, WithinGrants
<1>3. ASSUME NEW c \in Chat \ known'
      PROVE  Cardinality(EventsOf(c))' + Cardinality(Clear(c))' <= stranger'[c]
  <2>1. IsFiniteSet(Clear(c)') /\ Cardinality(Clear(c)') <= Cardinality(Clear(c))
    BY Counts, FS_Subset DEF LimitsInv
  <2>2. Cardinality(Clear(c)') \in Nat
    BY <2>1, FS_CardinalityType
  <2>3. stranger[c] \in Nat
    BY WebhookAssumption DEF LimitsInv, Windows
  <2> QED
    BY <1>1, <2>1, <2>2, <2>3, Counts DEF LimitsInv, WithinDay
<1> QED
  BY <1>2, <1>3 DEF WithinGrants, WithinDay

\* A call of a chat moves to a place that is past no limit, or past no other.
LEMMA CallMoves ==
    ASSUME Shape, NEW k \in Call, NEW where, pc' = [pc EXCEPT ![k] = where],
           \A j \in Call \ {k} : update'[j] = update[j],
           \/ where \in {"idle", "rate", "release", "respond"}
           \/ /\ update'[k] = update[k]
              /\ \/ pc[k] \in {"known", "stranger"} /\ where = "stranger"
                 \/ pc[k] = "claim" /\ where = "publish"
    PROVE  \A c : Past(c)' \subseteq Past(c) /\ Clear(c)' \subseteq Clear(c)
  BY DEF Past, Clear, ChatAt, Shape

LEMMA RateStep ==
    ASSUME LimitsInv, NEW k \in Call, ReserveRate(k)
    PROVE  WithinGrants' /\ WithinDay'
<1>a. PICK d \in Chat, m \in Minute, n \in Nat :
        d = ChatAt(k) /\ m = now[k] /\ n = rate[d][m]
  BY WebhookAssumption DEF LimitsInv, Shape, Windows, ChatAt
<1> DEFINE g == <<m, n + 1>>
<1>0. pc[k] = "rate" /\ d = ChatAt(k) /\ m = now[k] /\ n = rate[d][m] /\ MinuteLimit \in Nat
  BY <1>a, WebhookAssumption DEF ReserveRate
<1>1. CASE n < MinuteLimit
  <2>1. /\ rate' = [rate EXCEPT ![d][m] = n + 1] /\ pc' = [pc EXCEPT ![k] = "known"]
        /\ UNCHANGED <<published, stranger, update, known>>
    BY <1>0, <1>1 DEF ReserveRate, WithinLimit, Goto
  <2>2. \A c \in Chat : EventsOf(c)' = EventsOf(c) /\ Clear(c)' \subseteq Clear(c)
    BY <2>1 DEF EventsOf, Clear, ChatAt, LimitsInv, Shape
  <2>3. ASSUME NEW c \in Chat \ {d} PROVE Past(c)' = Past(c) /\ Granted(c)' = Granted(c)
    <3>1. rate'[c] = rate[c]
      BY <2>1 DEF LimitsInv, Windows
    <3> QED
      BY <1>0, <2>1, <3>1 DEF Past, Granted, ChatAt, LimitsInv, Shape
  <2>4. Past(d)' = Past(d) \cup {k} /\ k \notin Past(d)
    BY <1>0, <2>1 DEF Past, ChatAt, LimitsInv, Shape
  <2>5. Granted(d)' = Granted(d) \cup {g} /\ g \notin Granted(d)
    <3>1. /\ \A w \in Minute \ {m} : rate'[d][w] = rate[d][w]
          /\ rate'[d][m] = n + 1
          /\ \A w \in Minute : rate[d][w] \in Nat
      BY <1>0, <2>1 DEF LimitsInv, Windows
    <3>2. ASSUME NEW x \in Minute \X (1..MinuteLimit)
          PROVE  x[2] <= rate'[d][x[1]] <=> (x[2] <= rate[d][x[1]] \/ x = g)
      <4>1. x = <<x[1], x[2]>> /\ x[1] \in Minute /\ x[2] \in Nat
        OBVIOUS
      <4>2. CASE x[1] = m
        BY <1>0, <3>1, <4>1, <4>2
      <4>3. CASE x[1] # m
        BY <3>1, <4>1, <4>3
      <4> QED
        BY <4>2, <4>3
    <3>3. g \in Minute \X (1..MinuteLimit) /\ ~(g[2] <= rate[d][g[1]])
      BY <1>0, <1>1
    <3> HIDE DEF g
    <3>4. Granted(d)' = {x \in Minute \X (1..MinuteLimit) : x[2] <= rate'[d][x[1]]}
      BY <2>1 DEF Granted, ChatAt
    <3> QED
      BY <3>2, <3>3, <3>4 DEF Granted
  <2> HIDE DEF g
  <2>6. /\ IsFiniteSet(Past(d)') /\ Cardinality(Past(d)') = Cardinality(Past(d)) + 1
        /\ Cardinality(Granted(d)') = Cardinality(Granted(d)) + 1
    <3>1. IsFiniteSet(Past(d)) /\ IsFiniteSet(Granted(d))
      BY Counts, GrantsAreFinite DEF LimitsInv
    <3>2. /\ IsFiniteSet(Past(d) \cup {k})
          /\ Cardinality(Past(d) \cup {k}) = Cardinality(Past(d)) + 1
      BY <2>4, <3>1, FS_AddElement
    <3>3. Cardinality(Granted(d) \cup {g}) = Cardinality(Granted(d)) + 1
      BY <2>5, <3>1, FS_AddElement
    <3> QED
      BY <2>4, <2>5, <3>2, <3>3
  <2>7. WithinGrants'
    <3> SUFFICES ASSUME NEW c \in Chat
                 PROVE  (/\ IsFiniteSet(EventsOf(c)) /\ IsFiniteSet(Past(c))
                         /\ Cardinality(EventsOf(c)) + Cardinality(Past(c))
                              <= Cardinality(Granted(c)))'
      BY DEF WithinGrants
    <3>1. CASE c = d
      BY <2>2, <2>6, <3>1, Counts, GrantsAreFinite DEF LimitsInv, WithinGrants
    <3>2. CASE c # d
      BY <2>2, <2>3, <3>2 DEF LimitsInv, WithinGrants
    <3> QED
      BY <3>1, <3>2
  <2>8. WithinDay'
    <3> SUFFICES ASSUME NEW c \in Chat \ known'
                 PROVE  (Cardinality(EventsOf(c)) + Cardinality(Clear(c)) <= stranger[c])'
      BY DEF WithinDay
    <3>1. IsFiniteSet(Clear(c)') /\ Cardinality(Clear(c)') <= Cardinality(Clear(c))
      BY <2>2, Counts, FS_Subset DEF LimitsInv
    <3>2. Cardinality(Clear(c)') \in Nat /\ stranger[c] \in Nat
      BY <3>1, FS_CardinalityType, WebhookAssumption DEF LimitsInv, Windows
    <3> QED
      BY <2>1, <2>2, <3>1, <3>2, Counts DEF LimitsInv, WithinDay
  <2> QED
    BY <2>7, <2>8
<1>2. CASE ~(n < MinuteLimit)
  <2>1. /\ pc' = [pc EXCEPT ![k] = "respond"]
        /\ UNCHANGED <<published, rate, stranger, update, known>>
    BY <1>0, <1>2 DEF ReserveRate, WithinLimit, Refuse, Goto
  <2> QED
    BY <2>1, CallMoves, QuietStep DEF LimitsInv
<1> QED
  BY <1>1, <1>2

LEMMA StrangerStep ==
    ASSUME LimitsInv, NEW k \in Call, ReserveStranger(k)
    PROVE  WithinGrants' /\ WithinDay'
<1>a. PICK d \in Chat : d = ChatAt(k)
  BY WebhookAssumption DEF LimitsInv, Shape, ChatAt
<1>0. pc[k] = "stranger" /\ d = ChatAt(k) /\ stranger[d] \in Nat
  BY <1>a, WebhookAssumption DEF ReserveStranger, LimitsInv, Windows
<1>1. CASE stranger[d] < DayLimit
  <2>1. /\ stranger' = [stranger EXCEPT ![d] = stranger[d] + 1]
        /\ pc' = [pc EXCEPT ![k] = "claim"] /\ UNCHANGED <<published, rate, update, known>>
    BY <1>0, <1>1 DEF ReserveStranger, WithinLimit, Goto
  <2>2. \A c \in Chat : /\ EventsOf(c)' = EventsOf(c) /\ Granted(c)' = Granted(c)
                        /\ Past(c)' = Past(c)
    BY <1>0, <2>1 DEF EventsOf, Granted, Past, ChatAt, LimitsInv, Shape
  <2>3. \A c \in Chat \ {d} : Clear(c)' = Clear(c) /\ stranger'[c] = stranger[c]
    BY <1>0, <2>1 DEF Clear, ChatAt, LimitsInv, Shape, Windows
  <2>4. Clear(d)' = Clear(d) \cup {k} /\ k \notin Clear(d)
        /\ stranger'[d] = stranger[d] + 1
    BY <1>0, <2>1 DEF Clear, ChatAt, LimitsInv, Shape, Windows
  <2>5. Cardinality(Clear(d)') = Cardinality(Clear(d)) + 1
    <3>1. IsFiniteSet(Clear(d))
      BY Counts DEF LimitsInv
    <3>2. Cardinality(Clear(d) \cup {k}) = Cardinality(Clear(d)) + 1
      BY <2>4, <3>1, FS_AddElement
    <3> QED
      BY <2>4, <3>2
  <2>6. WithinGrants'
    BY <2>2 DEF LimitsInv, WithinGrants
  <2>7. WithinDay'
    <3> SUFFICES ASSUME NEW c \in Chat \ known'
                 PROVE  (Cardinality(EventsOf(c)) + Cardinality(Clear(c)) <= stranger[c])'
      BY DEF WithinDay
    <3>1. CASE c = d
      <4>1. d \in Chat \ known /\ EventsOf(d)' = EventsOf(d)
        BY <2>1, <2>2, <3>1
      <4>2. /\ Cardinality(EventsOf(d)) + Cardinality(Clear(d)) <= stranger[d]
            /\ Cardinality(EventsOf(d)) \in Nat /\ Cardinality(Clear(d)) \in Nat
        BY <4>1, Counts DEF LimitsInv, WithinDay
      <4>3. Cardinality(EventsOf(d)) + Cardinality(Clear(d)') <= stranger'[d]
        BY <1>0, <2>4, <2>5, <4>2
      <4> QED
        BY <3>1, <4>1, <4>3
    <3>2. CASE c # d
      BY <2>1, <2>2, <2>3, <3>2 DEF LimitsInv, WithinDay
    <3> QED
      BY <3>1, <3>2
  <2> QED
    BY <2>6, <2>7
<1>2. CASE ~(stranger[d] < DayLimit)
  <2>1. /\ pc' = [pc EXCEPT ![k] = "respond"]
        /\ UNCHANGED <<published, rate, stranger, update, known>>
    BY <1>0, <1>2 DEF ReserveStranger, WithinLimit, Refuse, Goto
  <2> QED
    BY <2>1, CallMoves, QuietStep DEF LimitsInv
<1> QED
  BY <1>1, <1>2

\* An event more, and the call that published it spent its reservation.
LEMMA EventStep ==
    ASSUME LimitsInv, NEW k \in Call, pc[k] = "publish", NEW where,
           where \in {"respond", "release"}, pc' = [pc EXCEPT ![k] = where],
           published' = [published EXCEPT ![update[k]] = @ + 1],
           UNCHANGED <<update, rate, stranger, known>>
    PROVE  WithinGrants' /\ WithinDay'
<1>a. PICK d \in Chat, u \in Update, n \in Nat :
        d = ChatAt(k) /\ u = update[k] /\ n = published[u]
  BY WebhookAssumption DEF LimitsInv, Shape, ChatAt
<1> DEFINE e == <<u, n + 1>>
<1>0. d = ChatOf[u] /\ d = ChatAt(k) /\ u = update[k] /\ n = published[u]
  BY <1>a DEF ChatAt
<1>1. /\ published'[u] = n + 1
      /\ \A v \in Update \ {u} : published'[v] = published[v]
  BY <1>0 DEF LimitsInv, Shape
<1>2. \A c : Granted(c)' = Granted(c)
  BY DEF Granted
<1>3. ASSUME NEW c \in Chat \ {d}
      PROVE  EventsOf(c)' = EventsOf(c) /\ Past(c)' = Past(c) /\ Clear(c)' = Clear(c)
  <2>1. EventsOf(c)' = EventsOf(c)
    <3>1. \A v \in Update : ChatOf[v] = c => published'[v] = published[v]
      BY <1>0, <1>1
    <3> QED
      BY <3>1 DEF EventsOf
  <2>2. Past(c)' = Past(c) /\ Clear(c)' = Clear(c)
    BY <1>0 DEF Past, Clear, ChatAt, LimitsInv, Shape
  <2> QED
    BY <2>1, <2>2
<1>4. /\ Past(d)' = Past(d) \ {k} /\ k \in Past(d)
      /\ Clear(d)' = Clear(d) \ {k} /\ k \in Clear(d)
  BY <1>0 DEF Past, Clear, ChatAt, LimitsInv, Shape
<1>5. EventsOf(d)' = EventsOf(d) \cup {e} /\ e \notin EventsOf(d)
  <2>1. 1..(n + 1) = (1..n) \cup {n + 1}
    OBVIOUS
  <2>2. \A x : x \in EventsOf(d)' <=>
                 \E v \in Update : ChatOf[v] = d /\ x \in {v} \X (1..published'[v])
    BY DEF EventsOf
  <2>3. \A x : x \in EventsOf(d) <=>
                 \E v \in Update : ChatOf[v] = d /\ x \in {v} \X (1..published[v])
    BY DEF EventsOf
  <2>4. {u} \X (1..(n + 1)) = ({u} \X (1..n)) \cup {e}
    BY <2>1
  <2>5. ASSUME NEW x PROVE x \in EventsOf(d)' <=> x \in EventsOf(d) \/ x = e
    <3>1. x \in {u} \X (1..published'[u]) <=> x \in {u} \X (1..published[u]) \/ x = e
      BY <1>0, <1>1, <2>4
    <3>2. \A v \in Update \ {u} :
            x \in {v} \X (1..published'[v]) <=> x \in {v} \X (1..published[v])
      BY <1>1
    <3> HIDE DEF e
    <3> QED
      BY <1>0, <2>2, <2>3, <3>1, <3>2
  <2>6. e \notin EventsOf(d)
    BY <1>0, <2>3
  <2> QED
    BY <2>5, <2>6
<1> HIDE DEF e
<1>6. /\ IsFiniteSet(EventsOf(d)') /\ Cardinality(EventsOf(d)') = Cardinality(EventsOf(d)) + 1
      /\ IsFiniteSet(Past(d)') /\ Cardinality(Past(d)') = Cardinality(Past(d)) - 1
      /\ Cardinality(Clear(d)') = Cardinality(Clear(d)) - 1
  <2>1. IsFiniteSet(EventsOf(d)) /\ IsFiniteSet(Past(d)) /\ IsFiniteSet(Clear(d))
    BY Counts DEF LimitsInv
  <2>2. /\ IsFiniteSet(EventsOf(d) \cup {e})
        /\ Cardinality(EventsOf(d) \cup {e}) = Cardinality(EventsOf(d)) + 1
    BY <1>5, <2>1, FS_AddElement
  <2>3. /\ IsFiniteSet(Past(d) \ {k}) /\ Cardinality(Past(d) \ {k}) = Cardinality(Past(d)) - 1
    BY <1>4, <2>1, FS_RemoveElement
  <2>4. Cardinality(Clear(d) \ {k}) = Cardinality(Clear(d)) - 1
    BY <1>4, <2>1, FS_RemoveElement
  <2> QED
    BY <1>4, <1>5, <2>2, <2>3, <2>4
<1>7. WithinGrants'
  <2> SUFFICES ASSUME NEW c \in Chat
               PROVE  (/\ IsFiniteSet(EventsOf(c)) /\ IsFiniteSet(Past(c))
                       /\ Cardinality(EventsOf(c)) + Cardinality(Past(c))
                            <= Cardinality(Granted(c)))'
    BY DEF WithinGrants
  <2>1. CASE c = d
    BY <1>2, <1>6, <2>1, Counts DEF LimitsInv, WithinGrants
  <2>2. CASE c # d
    BY <1>2, <1>3, <2>2 DEF LimitsInv, WithinGrants
  <2> QED
    BY <2>1, <2>2
<1>8. WithinDay'
  <2> SUFFICES ASSUME NEW c \in Chat \ known'
               PROVE  (Cardinality(EventsOf(c)) + Cardinality(Clear(c)) <= stranger[c])'
    BY DEF WithinDay
  <2>1. CASE c = d
    BY <1>6, <2>1, Counts DEF LimitsInv, WithinDay
  <2>2. CASE c # d
    BY <1>3, <2>2 DEF LimitsInv, WithinDay
  <2> QED
    BY <2>1, <2>2
<1> QED
  BY <1>7, <1>8

LEMMA CountsStep ==
    ASSUME LimitsInv, [Next]_vars
    PROVE  WithinGrants' /\ WithinDay'
<1> DEFINE Kept == UNCHANGED <<published, rate, stranger>>
           Same == WithinGrants' /\ WithinDay'
<1>0. Shape
  BY DEF LimitsInv
<1>1. ASSUME NEW k \in Call, NEW u \in Update, Post(k, u) PROVE Same
  <2>1. /\ pc' = [pc EXCEPT ![k] = "rate"] /\ Kept /\ known' = known
        /\ \A j \in Call \ {k} : update'[j] = update[j]
    BY <1>1 DEF Post, Goto, storeVars, LimitsInv, Shape
  <2> QED
    BY <1>0, <2>1, CallMoves, QuietStep
<1>2. ASSUME NEW k \in Call, CheckKnown(k) PROVE Same
  <2>1. pc[k] = "known" /\ Kept /\ UNCHANGED <<known, update>>
    BY <1>2 DEF CheckKnown, storeVars
  <2>2. CASE ChatAt(k) \in known
    <3>1. pc' = [pc EXCEPT ![k] = "claim"]
      BY <1>2, <2>2 DEF CheckKnown, Goto
    <3>2. \A c : Past(c)' \subseteq Past(c)
      BY <1>0, <2>1, <3>1 DEF Past, ChatAt, Shape
    <3>3. \A c \in Chat \ known' : Clear(c)' \subseteq Clear(c)
      BY <1>0, <2>1, <2>2, <3>1 DEF Clear, ChatAt, Shape
    <3> QED
      BY <2>1, <3>2, <3>3, QuietStep
  <2>3. CASE ChatAt(k) \notin known
    <3>1. pc' = [pc EXCEPT ![k] = "stranger"]
      BY <1>2, <2>3 DEF CheckKnown, Goto
    <3> QED
      BY <1>0, <2>1, <3>1, CallMoves, QuietStep
  <2> QED
    BY <2>2, <2>3
<1>3. ASSUME NEW k \in Call, Claim(k) PROVE Same
  <2>1. /\ pc[k] = "claim" /\ Kept /\ UNCHANGED <<known, update>>
        /\ \E where \in {"respond", "publish"} : pc' = [pc EXCEPT ![k] = where]
    BY <1>3 DEF Claim, Goto, history
  <2> QED
    BY <1>0, <2>1, CallMoves, QuietStep
<1>4. ASSUME NEW k \in Call, Publish(k) PROVE Same
  BY <1>4, EventStep DEF Publish, Goto, storeVars
<1>5. ASSUME NEW k \in Call, PublishFails(k) PROVE Same
  <2>1. CASE UNCHANGED published
    <3>1. pc' = [pc EXCEPT ![k] = "release"] /\ Kept /\ UNCHANGED <<known, update>>
      BY <1>5, <2>1 DEF PublishFails, Goto, storeVars
    <3> QED
      BY <1>0, <3>1, CallMoves, QuietStep
  <2>2. CASE published' = [published EXCEPT ![update[k]] = @ + 1]
    BY <1>5, <2>2, EventStep DEF PublishFails, Goto, storeVars
  <2> QED
    BY <1>5, <2>1, <2>2 DEF PublishFails
<1>6. ASSUME NEW k \in Call, ReleaseClaim(k) \/ Respond(k) \/ StoreFails(k) \/ Crash(k)
      PROVE  Same
  <2>1. /\ Kept /\ known' = known /\ \A j \in Call \ {k} : update'[j] = update[j]
        /\ \E where \in {"respond", "idle"} : pc' = [pc EXCEPT ![k] = where]
    BY <1>0, <1>6 DEF ReleaseClaim, Respond, StoreFails, Crash, Finish, Goto, storeVars, history,
                      Shape
  <2> QED
    BY <1>0, <2>1, CallMoves, QuietStep
<1>7. ASSUME Kept, UNCHANGED <<pc, update>>, known \subseteq known' PROVE Same
  BY <1>7, QuietStep DEF Past, Clear, ChatAt
<1>8. ASSUME \/ \E c \in Chat : BecomeKnown(c)
             \/ NextMinute
             \/ UNCHANGED vars
      PROVE  Same
  BY <1>7, <1>8 DEF BecomeKnown, NextMinute, vars, callVars, storeVars
<1> QED
  BY <1>1, <1>2, <1>3, <1>4, <1>5, <1>6, <1>8, RateStep, StrangerStep DEF Next, Work

LEMMA WindowsStep ==
    ASSUME LimitsInv, [Next]_vars
    PROVE  Windows'
<1> USE DEF Windows
<1>0. Shape /\ Windows /\ 0 \in Minute /\ minute \in Nat /\ MinuteLimit \in Nat /\ DayLimit \in Nat
  BY WebhookAssumption DEF LimitsInv, Minute
<1>1. ASSUME UNCHANGED <<rate, stranger, minute>>,
             \/ UNCHANGED now
             \/ \E k \in Call, m \in {0, minute} : now' = [now EXCEPT ![k] = m]
      PROVE  Windows'
  <2>1. now' \in [Call -> Minute] /\ \A k \in Call : now'[k] <= minute
    <3>1. CASE UNCHANGED now
      BY <1>0, <3>1
    <3>2. CASE \E k \in Call, m \in {0, minute} : now' = [now EXCEPT ![k] = m]
      <4>1. PICK k \in Call, m \in {0, minute} : now' = [now EXCEPT ![k] = m]
        BY <3>2
      <4>2. m \in Minute /\ m <= minute
        BY <1>0
      <4> QED
        BY <1>0, <4>1, <4>2
    <3> QED
      BY <1>1, <3>1, <3>2
  <2> QED
    BY <1>0, <1>1, <2>1
<1>2. ASSUME NEW k \in Call, ReserveRate(k) PROVE Windows'
  <2>1. PICK d \in Chat, m \in Minute : d = ChatAt(k) /\ m = now[k] /\ m <= minute
    BY <1>0, WebhookAssumption DEF Shape, ChatAt
  <2>2. UNCHANGED <<now, minute, stranger>>
    BY <1>2 DEF ReserveRate, Refuse
  <2>3. rate' = rate \/ (rate[d][m] < MinuteLimit /\ rate' = [rate EXCEPT ![d][m] = @ + 1])
    BY <1>2, <2>1 DEF ReserveRate, Refuse, WithinLimit
  <2>4. rate' \in [Chat -> [Minute -> 0..MinuteLimit]]
    BY <1>0, <2>1, <2>3
  <2>5. \A c \in Chat, n \in Minute : n > minute => rate'[c][n] = 0
    <3> SUFFICES ASSUME NEW c \in Chat, NEW n \in Minute, n > minute PROVE rate'[c][n] = 0
      OBVIOUS
    <3>1. n # m
      BY <1>0, <2>1 DEF Minute
    <3>2. rate'[c][n] = rate[c][n]
      BY <1>0, <2>1, <2>3, <3>1
    <3> QED
      BY <1>0, <3>2
  <2> QED
    BY <1>0, <2>2, <2>4, <2>5
<1>3. ASSUME NEW k \in Call, ReserveStranger(k) PROVE Windows'
  <2>1. PICK d \in Chat : d = ChatAt(k)
    BY <1>0, WebhookAssumption DEF Shape, ChatAt
  <2>2. /\ UNCHANGED <<now, minute, rate>>
        /\ stranger' = stranger
             \/ (stranger[d] < DayLimit /\ stranger' = [stranger EXCEPT ![d] = @ + 1])
    BY <1>3, <2>1 DEF ReserveStranger, Refuse, WithinLimit
  <2> QED
    BY <1>0, <2>2
<1>4. ASSUME NextMinute PROVE Windows'
  <2>1. minute < LastMinute /\ minute' = minute + 1 /\ UNCHANGED <<rate, stranger, now>>
    BY <1>4 DEF NextMinute, callVars, storeVars
  <2> QED
    BY <1>0, <2>1, WebhookAssumption DEF Minute
<1>5. ASSUME NEW k \in Call, NEW u \in Update, Post(k, u) PROVE Windows'
  BY <1>1, <1>5 DEF Post, storeVars
<1>6. ASSUME NEW k \in Call, CheckKnown(k) \/ Claim(k) \/ Publish(k) \/ ReleaseClaim(k)
                               \/ PublishFails(k) \/ StoreFails(k)
      PROVE  Windows'
  BY <1>1, <1>6 DEF CheckKnown, Claim, Publish, ReleaseClaim, PublishFails, StoreFails, storeVars
<1>7. ASSUME NEW k \in Call, Respond(k) \/ Crash(k) PROVE Windows'
  BY <1>1, <1>7 DEF Respond, Crash, Finish, storeVars
<1>8. ASSUME (\E c \in Chat : BecomeKnown(c)) \/ UNCHANGED vars PROVE Windows'
  BY <1>1, <1>8 DEF BecomeKnown, vars, callVars, storeVars
<1> QED
  BY <1>2, <1>3, <1>4, <1>5, <1>6, <1>7, <1>8 DEF Next, Work

LEMMA InitLimits == Init => LimitsInv
<1> SUFFICES ASSUME Init PROVE LimitsInv
  OBVIOUS
<1>1. Shape
  BY InitInv DEF OnceInv
<1>2. Windows
  BY WebhookAssumption DEF Init, Windows, Minute
<1>3. ASSUME NEW c \in Chat PROVE EventsOf(c) = {} /\ Past(c) = {} /\ Clear(c) = {}
  <2>1. EventsOf(c) = {}
    <3>1. \A u \in Update : 1..published[u] = {}
      BY DEF Init
    <3> QED
      BY <3>1 DEF EventsOf
  <2> QED
    BY <2>1 DEF Init, Past, Clear
<1>4. WithinGrants
  <2> SUFFICES ASSUME NEW c \in Chat
               PROVE  /\ IsFiniteSet(EventsOf(c)) /\ IsFiniteSet(Past(c))
                      /\ Cardinality(EventsOf(c)) + Cardinality(Past(c))
                           <= Cardinality(Granted(c))
    BY DEF WithinGrants
  <2>1. /\ IsFiniteSet(EventsOf(c)) /\ Cardinality(EventsOf(c)) = 0
        /\ IsFiniteSet(Past(c)) /\ Cardinality(Past(c)) = 0
    BY <1>3, FS_EmptySet
  <2> QED
    BY <2>1, GrantsAreFinite
<1>5. WithinDay
  BY <1>3, FS_EmptySet DEF WithinDay, Init
<1> QED
  BY <1>1, <1>2, <1>4, <1>5 DEF LimitsInv

LEMMA LimitsHold == Safety => []LimitsInv
<1>1. LimitsInv /\ [Next]_vars => LimitsInv'
  BY ShapeStep, WindowsStep, CountsStep DEF LimitsInv
<1> QED
  BY <1>1, InitLimits, PTL DEF Safety

\* Up to now a chat was granted no more than its windows allow.
LEMMA GrantsWithinWindows ==
    ASSUME LimitsInv, NEW c \in Chat
    PROVE  Cardinality(Granted(c)) <= MinuteLimit * (minute + 1)
<1>0. minute \in Nat /\ MinuteLimit \in Nat /\ MinuteLimit > 0
  BY WebhookAssumption DEF LimitsInv, Windows, Minute
<1>1. /\ IsFiniteSet(0..minute) /\ Cardinality(0..minute) = minute + 1
      /\ IsFiniteSet(1..MinuteLimit) /\ Cardinality(1..MinuteLimit) = MinuteLimit
  BY <1>0, FS_Interval
<1>2. /\ IsFiniteSet((0..minute) \X (1..MinuteLimit))
      /\ Cardinality((0..minute) \X (1..MinuteLimit)) = (minute + 1) * MinuteLimit
  <2>1. /\ IsFiniteSet((0..minute) \X (1..MinuteLimit))
        /\ Cardinality((0..minute) \X (1..MinuteLimit))
             = Cardinality(0..minute) * Cardinality(1..MinuteLimit)
    BY <1>1, FS_Product
  <2> QED
    BY <1>1, <2>1
<1>3. Granted(c) \subseteq (0..minute) \X (1..MinuteLimit)
  <2> SUFFICES ASSUME NEW g \in Granted(c) PROVE g \in (0..minute) \X (1..MinuteLimit)
    OBVIOUS
  <2>1. g \in Minute \X (1..MinuteLimit) /\ g[2] <= rate[c][g[1]]
    BY DEF Granted
  <2>2. g = <<g[1], g[2]>> /\ g[1] \in Minute /\ g[2] \in 1..MinuteLimit
    BY <2>1
  <2>3. ~(g[1] > minute)
    <3>1. g[1] > minute => rate[c][g[1]] = 0
      BY <2>2 DEF LimitsInv, Windows
    <3>2. g[2] \in Nat /\ g[2] # 0
      BY <1>0, <2>2
    <3> QED
      BY <2>1, <3>1, <3>2
  <2>4. g[1] \in 0..minute
    BY <1>0, <2>2, <2>3, WebhookAssumption DEF Minute
  <2> QED
    BY <2>2, <2>4
<1>4. Cardinality(Granted(c)) <= (minute + 1) * MinuteLimit
  BY <1>2, <1>3, FS_Subset
<1>5. (minute + 1) * MinuteLimit = MinuteLimit * (minute + 1)
  BY <1>0
<1> QED
  BY <1>4, <1>5

(***************************************************************************)
(* admit: for any limits, calls and retries, what a chat put on the bus    *)
(* stays within its minutes, and what a stranger did within its day.       *)
(***************************************************************************)
THEOREM PublishedInsideLimits == Safety => []PublishedWithinLimits
<1>1. LimitsInv => PublishedWithinLimits
  <2> SUFFICES ASSUME LimitsInv, NEW c \in Chat
               PROVE  /\ Cardinality(EventsOf(c)) <= MinuteLimit * (minute + 1)
                      /\ c \notin known => Cardinality(EventsOf(c)) <= DayLimit
    BY DEF PublishedWithinLimits
  <2>1. /\ Cardinality(EventsOf(c)) \in Nat /\ Cardinality(Past(c)) \in Nat
        /\ Cardinality(Clear(c)) \in Nat /\ Cardinality(Granted(c)) \in Nat
    BY Counts, GrantsAreFinite DEF LimitsInv
  <2>2. Cardinality(EventsOf(c)) <= Cardinality(Granted(c))
    BY <2>1 DEF LimitsInv, WithinGrants
  <2>3. MinuteLimit * (minute + 1) \in Nat
    <3>1. MinuteLimit \in Nat /\ minute + 1 \in Nat
      BY WebhookAssumption DEF LimitsInv, Windows, Minute
    <3>2. \A a, b \in Nat : a * b \in Nat
      OBVIOUS
    <3> QED
      BY <3>1, <3>2
  <2>4. Cardinality(EventsOf(c)) <= MinuteLimit * (minute + 1)
    BY <2>1, <2>2, <2>3, GrantsWithinWindows
  <2>5. ASSUME c \notin known PROVE Cardinality(EventsOf(c)) <= DayLimit
    <3>1. stranger[c] <= DayLimit /\ stranger[c] \in Nat /\ DayLimit \in Nat
      BY WebhookAssumption DEF LimitsInv, Windows
    <3> QED
      BY <2>1, <2>5, <3>1 DEF LimitsInv, WithinDay
  <2> QED
    BY <2>4, <2>5
<1> QED
  BY <1>1, LimitsHold, PTL

-----------------------------------------------------------------------------
(***************************************************************************)
(* What was published is worked for: one event of the queue, from the      *)
(* worker that receives it to its result (Invocation).  Its theorems hold  *)
(* for any families, events, workers and bounds: handlers of a family are  *)
(* serial, and none runs for an event that has a result.                   *)
(*                                                                         *)
(* Both come from the leases.  An invocation that handles an event holds   *)
(* the lease of the event's cache and the one of the scope it works in;    *)
(* both scopes are of its family, and the first is the same for every      *)
(* invocation of the event.                                                *)
(***************************************************************************)
CONSTANTS Invalid, GivenUp, MaxReceives, MaxAttempts

VARIABLES enrolled, queue, receives, hidden, lease, pending, close

Job == INSTANCE Invocation

\* Where the scope of an invocation is known.
Live == {"lease", "cached", "handle", "save", "complete", "ok", "spent", "failed"}

CloseRecord == [family : {0} \cup Job!Family, list : Seq(Event), attempted : Nat]

JobShape ==
    /\ Job!InvocationAssumption
    /\ lease \in [Job!Scope -> Job!Invoker \cup {Job!Free, Job!Dead}]
    /\ at \in [Job!Invoker -> {"idle", "lookup"} \cup Live]
    /\ event \in [Job!Invoker -> Event]
    /\ scope \in [Job!Invoker -> Job!Scope]
    /\ pending \in [Job!Scope -> Seq(Event)]
    /\ enrolled \subseteq Job!Family
    /\ close \in CloseRecord
    /\ close.list = <<>> => at[Job!Closer] = "idle"

\* An invocation works in the scope of its chat or of its family.
ScopeIsItsOwn ==
    \A k \in Job!Invoker : at[k] \in Live =>
        scope[k] \in {Job!CacheScope(event[k]), <<"family", Job!FamilyAt(k)>>}

\* From the last lease that is taken to the release, they are all held.
HandlingHoldsLeases ==
    \A k \in Job!Invoker : Job!Serving(k) => \A s \in Job!LeaseScopes(k) : lease[s] = k

JobInv == JobShape /\ ScopeIsItsOwn /\ HandlingHoldsLeases /\ Job!ResultEndsHandling

-----------------------------------------------------------------------------
LEMMA WithoutType ==
    ASSUME NEW list \in Seq(Event), NEW e PROVE Job!Without(list, e) \in Seq(Event)
<1>1. CASE ~Job!Contains(list, e)
  BY <1>1 DEF Job!Without
<1>2. CASE Job!Contains(list, e)
  <2>1. PICK n \in 1..Len(list) : n = CHOOSE m \in DOMAIN list : list[m] = e
    BY <1>2 DEF Job!Contains
  <2>2. /\ \A i \in 1..(n - 1) : list[i] \in Event
        /\ \A i \in (n + 1)..Len(list) : list[i] \in Event
    OBVIOUS
  <2>3. SubSeq(list, 1, n - 1) \in Seq(Event)
    BY <2>2, SubSeqProperties
  <2>4. SubSeq(list, n + 1, Len(list)) \in Seq(Event)
    BY <2>2, SubSeqProperties
  <2> QED
    BY <1>2, <2>1, <2>3, <2>4 DEF Job!Without, Job!RemoveAt
<1> QED
  BY <1>1, <1>2

EventTypes ==
    /\ Job!NoEvent \in Event
    /\ Job!NoScope \in Job!Scope
    /\ \A e \in Event : Job!CacheScope(e) \in Job!Scope /\ Job!LookedUp(e) \in Job!Scope
                        /\ <<"family", FamilyOf[e]>> \in Job!Scope
    /\ Job!Closer \in Job!Invoker /\ Worker \subseteq Job!Invoker /\ Job!Closer \notin Worker
    /\ Job!Free \notin Job!Invoker /\ Job!Dead \notin Job!Invoker /\ Job!Free # Job!Dead

LEMMA EventsAreTyped ==
    ASSUME Job!InvocationAssumption PROVE EventTypes
BY DEF Job!InvocationAssumption, EventTypes, Job!NoEvent, Job!NoScope, Job!Scope, Job!Family,
       Job!CacheScope, Job!LookedUp,
       Job!Invoker, Job!Closer, Job!Free, Job!Dead

LEMMA InitJobInv == Job!InvocationAssumption /\ Job!Init => JobInv
<1> SUFFICES ASSUME Job!InvocationAssumption, Job!Init PROVE JobInv
  OBVIOUS
<1>1. \A s \in Job!Scope : (\E e \in GivenUp : s = <<"family", FamilyOf[e]>>)
        => (CHOOSE e \in GivenUp : s = <<"family", FamilyOf[e]>>) \in Event
  BY DEF Job!InvocationAssumption
<1>2. pending \in [Job!Scope -> Seq(Event)]
  BY <1>1 DEF Job!Init
<1>3. JobShape
  BY <1>2, EventsAreTyped DEF EventTypes, Job!Init, JobShape, CloseRecord, Job!NoClose
<1>4. ScopeIsItsOwn /\ HandlingHoldsLeases /\ Job!ResultEndsHandling
  BY DEF Job!Init, ScopeIsItsOwn, HandlingHoldsLeases, Job!ResultEndsHandling, Job!Serving,
         Live
<1> QED
  BY <1>3, <1>4 DEF JobInv

-----------------------------------------------------------------------------
LEMMA JobShapeStep == JobShape /\ [Job!Next]_(Job!vars) => JobShape'
<1> SUFFICES ASSUME JobShape, [Job!Next]_(Job!vars) PROVE JobShape'
  OBVIOUS
<1>0. EventTypes
  BY EventsAreTyped DEF JobShape
<1> USE <1>0 DEF EventTypes
<1>1. ASSUME NEW k \in Worker, NEW e \in Event, Job!Receive(k, e) PROVE JobShape'
  BY <1>1 DEF JobShape, CloseRecord, Job!Receive, Job!Goto, Live, Job!records
<1>2. ASSUME NEW k \in Job!Invoker, Job!Lookup(k) PROVE JobShape'
  BY <1>2 DEF JobShape, CloseRecord, Job!Lookup, Job!Goto, Live, Job!records, Job!work
<1>3. ASSUME NEW k \in Job!Invoker, Job!Acquire(k) PROVE JobShape'
  <2>1. lease' \in [Job!Scope -> Job!Invoker \cup {Job!Free, Job!Dead}]
    BY <1>3 DEF JobShape, CloseRecord, Job!Acquire
  <2>2. at' = [at EXCEPT ![k] = "cached"] \/ at' = [at EXCEPT ![k] = "lease"]
    BY <1>3 DEF Job!Acquire, Job!Goto
  <2> QED
    BY <1>3, <2>1, <2>2 DEF JobShape, CloseRecord, Job!Acquire, Live, Job!records, Job!work
<1>4. ASSUME NEW k \in Job!Invoker, Job!Refused(k) PROVE JobShape'
  BY <1>4 DEF JobShape, CloseRecord, Job!Refused, Job!HandOver, Job!Goto, Live, Job!records,
              Job!work
<1>5. ASSUME NEW k \in Job!Invoker, Job!FindResult(k) PROVE JobShape'
  BY <1>5 DEF JobShape, CloseRecord, Job!FindResult, Job!Goto, Live, Job!records, Job!work
<1>6. ASSUME NEW k \in Job!Invoker, Job!Preserve(k) PROVE JobShape'
  <2>1. Append(pending[scope[k]], event[k]) \in Seq(Event)
    BY DEF JobShape, CloseRecord
  <2> QED
    BY <1>6, <2>1 DEF JobShape, CloseRecord, Job!Preserve, Job!Goto, Live, Job!work
<1>7. ASSUME NEW k \in Job!Invoker, Job!Handle(k) PROVE JobShape'
  BY <1>7 DEF Job!InvocationAssumption, JobShape, CloseRecord, Job!Handle, Job!FamilyAt,
              Job!Goto, Live, Job!work
<1>8. ASSUME NEW k \in Job!Invoker, Job!HandlerRefuses(k) PROVE JobShape'
  BY <1>8 DEF JobShape, CloseRecord, Job!HandlerRefuses, Job!HandOver, Job!Goto, Live,
              Job!records, Job!work
<1>9. ASSUME NEW k \in Job!Invoker, Job!Save(k) PROVE JobShape'
  BY <1>9 DEF JobShape, CloseRecord, Job!Save, Job!Goto, Live, Job!work
<1>10. ASSUME NEW k \in Job!Invoker, Job!CompletePending(k) PROVE JobShape'
  <2>1. Job!Without(pending[scope[k]], event[k]) \in Seq(Event)
    BY WithoutType DEF JobShape, CloseRecord
  <2> QED
    BY <1>10, <2>1 DEF JobShape, CloseRecord, Job!CompletePending, Job!HandOver, Job!Goto,
                       Live, Job!work
<1>11. ASSUME NEW k \in Job!Invoker, Job!Report(k) PROVE JobShape'
  BY <1>11 DEF JobShape, CloseRecord, Job!Report, Job!Forgotten, Job!Goto, Live, Job!records
<1>12. ASSUME NEW k \in Job!Invoker, Job!HandlerFails(k) PROVE JobShape'
  BY <1>12 DEF JobShape, CloseRecord, Job!HandlerFails, Job!HandOver, Job!Goto, Live, Job!work
<1>13. ASSUME NEW k \in Job!Invoker, Job!Crash(k) PROVE JobShape'
  <2>1. lease' \in [Job!Scope -> Job!Invoker \cup {Job!Free, Job!Dead}]
    BY <1>13 DEF JobShape, CloseRecord, Job!Crash, Job!HandOver
  <2>2. at' = [at EXCEPT ![k] = "idle"] /\ event' \in [Job!Invoker -> Event]
        /\ scope' \in [Job!Invoker -> Job!Scope]
    BY <1>13 DEF JobShape, CloseRecord, Job!Crash, Job!Goto, Job!Forgotten
  <2>3. IF k = Job!Closer THEN close' = Job!NoClose ELSE close' = close
    BY <1>13 DEF Job!Crash
  <2>4. Job!NoClose.list = <<>> /\ Job!NoClose \in CloseRecord
    BY DEF Job!NoClose, CloseRecord
  <2> QED
    BY <1>13, <2>1, <2>2, <2>3, <2>4 DEF JobShape, CloseRecord, Job!Crash, Live, Job!records
<1>14. ASSUME NEW s \in Job!Scope, Job!Expire(s) PROVE JobShape'
  BY <1>14 DEF JobShape, CloseRecord, Job!Expire, Job!records, Job!locals
<1>15. ASSUME Job!ScanFamily PROVE JobShape'
  <2>1. close' \in CloseRecord
    <3>1. CASE close' = Job!NoClose
      BY <3>1 DEF Job!NoClose, CloseRecord
    <3>2. ASSUME NEW f \in Job!Family,
                 close' = [close EXCEPT !.family = f, !.list = pending[<<"family", f>>]]
          PROVE  close' \in CloseRecord
      <4>1. <<"family", f>> \in Job!Scope
        BY DEF Job!Scope
      <4> QED
        BY <3>2, <4>1 DEF JobShape, CloseRecord
    <3> QED
      BY <1>15, <3>1, <3>2 DEF Job!ScanFamily
  <2> QED
    BY <1>15, <2>1 DEF JobShape, CloseRecord, Job!ScanFamily, Job!records, Job!locals
<1>16. ASSUME Job!Attempt PROVE JobShape'
  <2>1. CASE close.attempted >= MaxAttempts
    <3>1. close' = Job!NoClose /\ UNCHANGED <<at, event>>
      BY <1>16, <2>1 DEF Job!Attempt
    <3>2. /\ Job!NoClose \in CloseRecord
          /\ at[Job!Closer] = "idle"
      BY <1>16 DEF Job!NoClose, CloseRecord, Job!Attempt
    <3> QED
      BY <1>16, <3>1, <3>2 DEF JobShape, CloseRecord, Job!Attempt, Job!records
  <2>2. CASE ~(close.attempted >= MaxAttempts)
    <3>1. Head(close.list) \in Event
      BY <1>16, HeadTailProperties DEF JobShape, CloseRecord, Job!Attempt
    <3>2. /\ close' \in CloseRecord
          /\ close'.list = close.list /\ close.list # <<>>
      BY <1>16, <2>2 DEF Job!Attempt, JobShape, CloseRecord
    <3>3. /\ event' = [event EXCEPT ![Job!Closer] = Head(close.list)]
          /\ at' = [at EXCEPT ![Job!Closer] = "lookup"]
      BY <1>16, <2>2 DEF Job!Attempt, Job!Goto
    <3>4. event' \in [Job!Invoker -> Event]
      BY <3>1, <3>3 DEF JobShape, CloseRecord
    <3> QED
      BY <1>16, <3>2, <3>3, <3>4 DEF JobShape, CloseRecord, Job!Attempt, Live, Job!records
  <2> QED
    BY <2>1, <2>2
<1>17. ASSUME Job!Attempted PROVE JobShape'
  <2>1. Tail(close.list) \in Seq(Event)
    BY <1>17, HeadTailProperties DEF Job!Attempted, JobShape, CloseRecord
  <2>2. close' \in CloseRecord
    <3>1. CASE at[Job!Closer] = "ok"
      BY <1>17, <2>1, <3>1 DEF Job!Attempted, JobShape, CloseRecord
    <3>2. CASE at[Job!Closer] # "ok"
      <4>1. <<>> \in Seq(Event)
        OBVIOUS
      <4>2. close' = [close EXCEPT !.list = <<>>]
        BY <1>17, <3>2 DEF Job!Attempted
      <4> QED
        BY <4>1, <4>2 DEF Job!Attempted, JobShape, CloseRecord
    <3> QED
      BY <3>1, <3>2
  <2> QED
    BY <1>17, <2>1, <2>2 DEF JobShape, CloseRecord, Job!Attempted, Job!Forgotten, Job!Goto,
                             Live, Job!records
<1>18. CASE UNCHANGED Job!vars
  BY <1>18 DEF JobShape, CloseRecord, Job!vars, Job!records, Job!locals
<1> QED
  BY <1>1, <1>2, <1>3, <1>4, <1>5, <1>6, <1>7, <1>8, <1>9, <1>10, <1>11, <1>12, <1>13,
     <1>14, <1>15, <1>16, <1>17, <1>18 DEF Job!Next, Job!Work, Job!Recover

(***************************************************************************)
(* Where an invocation works is fixed by its lookup, and is its own until  *)
(* it is over.                                                             *)
(***************************************************************************)
LEMMA LocalStep ==
    ASSUME JobShape, [Job!Next]_(Job!vars),
                    NEW j \in Job!Invoker, at'[j] \in Live
    PROVE  \/ Job!Lookup(j)
           \/ at[j] \in Live /\ event'[j] = event[j] /\ scope'[j] = scope[j]
<1> DEFINE Same == at[j] \in Live /\ event'[j] = event[j] /\ scope'[j] = scope[j]
<1>0. EventTypes
  BY EventsAreTyped DEF JobShape
<1> USE <1>0 DEF EventTypes
<1>1. ASSUME NEW k \in Worker, NEW e \in Event, Job!Receive(k, e) PROVE Job!Lookup(j) \/ Same
  BY <1>1 DEF JobShape, Job!Receive, Job!Goto, Live
<1>2. ASSUME NEW k \in Job!Invoker, Job!Lookup(k) PROVE Job!Lookup(j) \/ Same
  BY <1>2 DEF JobShape, Job!Lookup, Job!Goto, Live
<1>3. ASSUME NEW k \in Job!Invoker, Job!Acquire(k) PROVE Job!Lookup(j) \/ Same
  BY <1>3 DEF JobShape, Job!Acquire, Job!Goto, Live
<1>4. ASSUME NEW k \in Job!Invoker, Job!Refused(k) PROVE Job!Lookup(j) \/ Same
  BY <1>4 DEF JobShape, Job!Refused, Job!Goto, Live
<1>5. ASSUME NEW k \in Job!Invoker, Job!FindResult(k) PROVE Job!Lookup(j) \/ Same
  BY <1>5 DEF JobShape, Job!FindResult, Job!Goto, Live
<1>6. ASSUME NEW k \in Job!Invoker, Job!Preserve(k) PROVE Job!Lookup(j) \/ Same
  BY <1>6 DEF JobShape, Job!Preserve, Job!Goto, Live
<1>7. ASSUME NEW k \in Job!Invoker, Job!Handle(k) PROVE Job!Lookup(j) \/ Same
  BY <1>7 DEF JobShape, Job!Handle, Job!Goto, Live
<1>8. ASSUME NEW k \in Job!Invoker, Job!HandlerRefuses(k) PROVE Job!Lookup(j) \/ Same
  BY <1>8 DEF JobShape, Job!HandlerRefuses, Job!Goto, Live
<1>9. ASSUME NEW k \in Job!Invoker, Job!Save(k) PROVE Job!Lookup(j) \/ Same
  BY <1>9 DEF JobShape, Job!Save, Job!Goto, Live
<1>10. ASSUME NEW k \in Job!Invoker, Job!CompletePending(k) PROVE Job!Lookup(j) \/ Same
  BY <1>10 DEF JobShape, Job!CompletePending, Job!Goto, Live
<1>11. ASSUME NEW k \in Job!Invoker, Job!Report(k) PROVE Job!Lookup(j) \/ Same
  BY <1>11 DEF JobShape, Job!Report, Job!Goto, Job!Forgotten, Live
<1>12. ASSUME NEW k \in Job!Invoker, Job!HandlerFails(k) PROVE Job!Lookup(j) \/ Same
  BY <1>12 DEF JobShape, Job!HandlerFails, Job!Goto, Live
<1>13. ASSUME NEW k \in Job!Invoker, Job!Crash(k) PROVE Job!Lookup(j) \/ Same
  BY <1>13 DEF JobShape, Job!Crash, Job!Goto, Job!Forgotten, Live
<1>14. ASSUME NEW s \in Job!Scope, Job!Expire(s) PROVE Job!Lookup(j) \/ Same
  BY <1>14 DEF JobShape, Job!Expire, Job!locals
<1>15. ASSUME Job!ScanFamily PROVE Job!Lookup(j) \/ Same
  BY <1>15 DEF JobShape, Job!ScanFamily, Job!locals
<1>16. ASSUME Job!Attempt PROVE Job!Lookup(j) \/ Same
  BY <1>16 DEF JobShape, Job!Attempt, Job!Goto, Live
<1>17. ASSUME Job!Attempted PROVE Job!Lookup(j) \/ Same
  BY <1>17 DEF JobShape, Job!Attempted, Job!Goto, Job!Forgotten, Live
<1>18. CASE UNCHANGED Job!vars
  BY <1>18 DEF Job!vars, Job!locals
<1> QED
  BY <1>1, <1>2, <1>3, <1>4, <1>5, <1>6, <1>7, <1>8, <1>9, <1>10, <1>11, <1>12,
     <1>13, <1>14, <1>15, <1>16, <1>17, <1>18 DEF Job!Next, Job!Work, Job!Recover

LEMMA ScopeStep == JobShape /\ ScopeIsItsOwn /\ [Job!Next]_(Job!vars) => ScopeIsItsOwn'
<1> SUFFICES ASSUME JobShape, ScopeIsItsOwn, [Job!Next]_(Job!vars),
                    NEW j \in Job!Invoker, at'[j] \in Live
             PROVE  scope'[j] \in {Job!CacheScope(event'[j]), <<"family", FamilyOf[event'[j]]>>}
  BY DEF ScopeIsItsOwn, Job!FamilyAt, Job!CacheScope
<1>1. CASE Job!Lookup(j)
  BY <1>1 DEF Job!Lookup, Job!LookedUp, Job!CacheScope, JobShape
<1>2. CASE at[j] \in Live /\ event'[j] = event[j] /\ scope'[j] = scope[j]
  BY <1>2 DEF ScopeIsItsOwn, Job!FamilyAt
<1> QED
  BY <1>1, <1>2, LocalStep

(***************************************************************************)
(* A lease changes hands only when it is free, when its holder gives it    *)
(* back or dies, or when it died: never while its holder handles an event. *)
(***************************************************************************)
LEMMA LeaseStep ==
    ASSUME JobShape, [Job!Next]_(Job!vars),
                    NEW j \in Job!Invoker, Job!Serving(j)'
    PROVE  \/ \A s \in Job!LeaseScopes(j)' : lease'[s] = j
           \/ /\ Job!Serving(j) /\ event'[j] = event[j] /\ scope'[j] = scope[j]
              /\ \A s \in Job!Scope : lease[s] = j => lease'[s] = j
<1> DEFINE Keeps ==
      /\ Job!Serving(j) /\ event'[j] = event[j] /\ scope'[j] = scope[j]
      /\ \A s \in Job!Scope : lease[s] = j => lease'[s] = j
<1> DEFINE Takes == \A s \in Job!LeaseScopes(j)' : lease'[s] = j
<1>0. EventTypes
  BY EventsAreTyped DEF JobShape
<1> USE <1>0 DEF EventTypes
<1>1. ASSUME NEW k \in Worker, NEW e \in Event, Job!Receive(k, e) PROVE Takes \/ Keeps
  BY <1>1 DEF JobShape, Job!Receive, Job!Goto, Job!Serving, Job!records, Job!work
<1>2. ASSUME NEW k \in Job!Invoker, Job!Lookup(k) PROVE Takes \/ Keeps
  BY <1>2 DEF JobShape, Job!Lookup, Job!Goto, Job!Serving, Job!records, Job!work
<1>3. ASSUME NEW k \in Job!Invoker, Job!Acquire(k) PROVE Takes \/ Keeps
  <2>1. \A s \in Job!Scope : lease[s] \in Job!Invoker => lease'[s] = lease[s]
    BY <1>3 DEF JobShape, Job!Acquire
  <2>2. CASE k = j
    <3>1. /\ at' = [at EXCEPT ![j] = IF \A s \in Job!LeaseScopes(j) : lease'[s] = j
                                    THEN "cached" ELSE "lease"]
          /\ UNCHANGED <<event, scope>>
      BY <1>3, <2>2 DEF Job!Acquire, Job!Goto
    <3>2. \A s \in Job!LeaseScopes(j) : lease'[s] = j
      BY <3>1 DEF JobShape, Job!Serving
    <3> QED
      BY <3>1, <3>2 DEF Job!LeaseScopes
  <2>3. CASE k # j
    <3>1. at'[j] = at[j] /\ UNCHANGED <<event, scope>>
      BY <1>3, <2>3 DEF Job!Acquire, Job!Goto, JobShape
    <3> QED
      BY <2>1, <3>1 DEF Job!Serving
  <2> QED
    BY <2>2, <2>3
<1>4. ASSUME NEW k \in Job!Invoker, Job!Refused(k) PROVE Takes \/ Keeps
  BY <1>4 DEF JobShape, Job!Refused, Job!Goto, Job!HandOver, Job!Serving, Job!records, Job!work
<1>5. ASSUME NEW k \in Job!Invoker, Job!FindResult(k) PROVE Takes \/ Keeps
  BY <1>5 DEF JobShape, Job!FindResult, Job!Goto, Job!Serving, Job!records, Job!work
<1>6. ASSUME NEW k \in Job!Invoker, Job!Preserve(k) PROVE Takes \/ Keeps
  BY <1>6 DEF JobShape, Job!Preserve, Job!Goto, Job!Serving, Job!records, Job!work
<1>7. ASSUME NEW k \in Job!Invoker, Job!Handle(k) PROVE Takes \/ Keeps
  BY <1>7 DEF JobShape, Job!Handle, Job!Goto, Job!Serving, Job!records, Job!work
<1>8. ASSUME NEW k \in Job!Invoker, Job!HandlerRefuses(k) PROVE Takes \/ Keeps
  BY <1>8 DEF JobShape, Job!HandlerRefuses, Job!Goto, Job!HandOver, Job!Serving, Job!records,
              Job!work
<1>9. ASSUME NEW k \in Job!Invoker, Job!Save(k) PROVE Takes \/ Keeps
  BY <1>9 DEF JobShape, Job!Save, Job!Goto, Job!Serving, Job!records, Job!work
<1>10. ASSUME NEW k \in Job!Invoker, Job!CompletePending(k) PROVE Takes \/ Keeps
  BY <1>10 DEF JobShape, Job!CompletePending, Job!Goto, Job!HandOver, Job!Serving,
               Job!records, Job!work
<1>11. ASSUME NEW k \in Job!Invoker, Job!Report(k) PROVE Takes \/ Keeps
  BY <1>11 DEF JobShape, Job!Report, Job!Goto, Job!Forgotten, Job!Serving, Job!records,
               Job!work
<1>12. ASSUME NEW k \in Job!Invoker, Job!HandlerFails(k) PROVE Takes \/ Keeps
  BY <1>12 DEF JobShape, Job!HandlerFails, Job!Goto, Job!HandOver, Job!Serving, Job!records,
               Job!work
<1>13. ASSUME NEW k \in Job!Invoker, Job!Crash(k) PROVE Takes \/ Keeps
  BY <1>13 DEF JobShape, Job!Crash, Job!Goto, Job!Forgotten, Job!HandOver, Job!Serving,
               Job!records, Job!work
<1>14. ASSUME NEW s \in Job!Scope, Job!Expire(s) PROVE Takes \/ Keeps
  BY <1>14 DEF JobShape, Job!Expire, Job!locals, Job!Serving, Job!records, Job!work
<1>15. ASSUME Job!ScanFamily PROVE Takes \/ Keeps
  BY <1>15 DEF JobShape, Job!ScanFamily, Job!locals, Job!Serving, Job!records, Job!work
<1>16. ASSUME Job!Attempt PROVE Takes \/ Keeps
  BY <1>16 DEF JobShape, Job!Attempt, Job!Goto, Job!Serving, Job!records, Job!work
<1>17. ASSUME Job!Attempted PROVE Takes \/ Keeps
  BY <1>17 DEF JobShape, Job!Attempted, Job!Goto, Job!Forgotten, Job!Serving, Job!records,
               Job!work
<1>18. CASE UNCHANGED Job!vars
  BY <1>18 DEF Job!vars, Job!locals, Job!Serving
<1> QED
  BY <1>1, <1>2, <1>3, <1>4, <1>5, <1>6, <1>7, <1>8, <1>9, <1>10, <1>11, <1>12,
     <1>13, <1>14, <1>15, <1>16, <1>17, <1>18 DEF Job!Next, Job!Work, Job!Recover

LEMMA HoldsStep == JobShape /\ HandlingHoldsLeases /\ [Job!Next]_(Job!vars) => HandlingHoldsLeases'
<1> SUFFICES ASSUME JobShape, HandlingHoldsLeases, [Job!Next]_(Job!vars),
                    NEW j \in Job!Invoker, Job!Serving(j)'
             PROVE  \A s \in Job!LeaseScopes(j)' : lease'[s] = j
  BY DEF HandlingHoldsLeases
<1>1. CASE /\ Job!Serving(j) /\ event'[j] = event[j] /\ scope'[j] = scope[j]
           /\ \A s \in Job!Scope : lease[s] = j => lease'[s] = j
  <2>1. Job!LeaseScopes(j)' = Job!LeaseScopes(j)
    BY <1>1 DEF Job!LeaseScopes
  <2>2. Job!LeaseScopes(j) \subseteq Job!Scope
    <3>1. EventTypes /\ event[j] \in Event /\ scope[j] \in Job!Scope
      BY EventsAreTyped DEF JobShape
    <3>2. Job!CacheScope(event[j]) \in Job!Scope
      BY <3>1 DEF EventTypes
    <3> HIDE DEF Job!CacheScope
    <3> QED
      BY <3>1, <3>2 DEF Job!LeaseScopes
  <2> QED
    BY <1>1, <2>1, <2>2 DEF HandlingHoldsLeases
<1> QED
  BY <1>1, LeaseStep

\* Two invocations that handle events of one family hold different leases.
LEMMA LeasesDiffer ==
    ASSUME HandlingHoldsLeases, NEW j \in Job!Invoker, NEW k \in Job!Invoker, j # k,
           Job!Serving(j), Job!Serving(k)
    PROVE  Job!LeaseScopes(j) \cap Job!LeaseScopes(k) = {}
BY DEF HandlingHoldsLeases

LEMMA ResultStep == JobInv /\ [Job!Next]_(Job!vars) => Job!ResultEndsHandling'
<1> SUFFICES ASSUME JobInv, [Job!Next]_(Job!vars),
                    NEW j \in Job!Invoker, at'[j] \in {"handle", "save"}
             PROVE  event'[j] \notin result'
  BY DEF Job!ResultEndsHandling
<1> USE DEF JobInv
<1>0. EventTypes
  BY EventsAreTyped DEF JobShape
<1> USE <1>0 DEF EventTypes
<1>1. ASSUME NEW k \in Worker, NEW e \in Event, Job!Receive(k, e) PROVE event'[j] \notin result'
  BY <1>1 DEF JobShape, Job!Receive, Job!Goto, Job!ResultEndsHandling, Job!records, Job!work
<1>2. ASSUME NEW k \in Job!Invoker, Job!Lookup(k) PROVE event'[j] \notin result'
  BY <1>2 DEF JobShape, Job!Lookup, Job!Goto, Job!ResultEndsHandling, Job!records, Job!work
<1>3. ASSUME NEW k \in Job!Invoker, Job!Acquire(k) PROVE event'[j] \notin result'
  BY <1>3 DEF JobShape, Job!Acquire, Job!Goto, Job!ResultEndsHandling, Job!records, Job!work
<1>4. ASSUME NEW k \in Job!Invoker, Job!Refused(k) PROVE event'[j] \notin result'
  BY <1>4 DEF JobShape, Job!Refused, Job!Goto, Job!ResultEndsHandling, Job!records, Job!work
<1>5. ASSUME NEW k \in Job!Invoker, Job!FindResult(k) PROVE event'[j] \notin result'
  BY <1>5 DEF JobShape, Job!FindResult, Job!Goto, Job!ResultEndsHandling, Job!records, Job!work
<1>6. ASSUME NEW k \in Job!Invoker, Job!Preserve(k) PROVE event'[j] \notin result'
  BY <1>6 DEF JobShape, Job!Preserve, Job!Goto, Job!Known, Job!ResultEndsHandling, Job!records,
              Job!work
<1>7. ASSUME NEW k \in Job!Invoker, Job!Handle(k) PROVE event'[j] \notin result'
  BY <1>7 DEF JobShape, Job!Handle, Job!Goto, Job!ResultEndsHandling, Job!records, Job!work
<1>8. ASSUME NEW k \in Job!Invoker, Job!HandlerRefuses(k) PROVE event'[j] \notin result'
  BY <1>8 DEF JobShape, Job!HandlerRefuses, Job!Goto, Job!ResultEndsHandling, Job!records,
              Job!work
<1>9. ASSUME NEW k \in Job!Invoker, Job!Save(k) PROVE event'[j] \notin result'
  <2>1. CASE j = k
    BY <1>9, <2>1 DEF Job!Save, Job!Goto, JobShape
  <2>2. CASE j # k
    <3>1. at'[j] = at[j] /\ event' = event /\ result' = result \cup {event[k]}
      BY <1>9, <2>2 DEF Job!Save, Job!Goto, JobShape
    <3>2. event[j] # event[k]
      BY <1>9, <2>2, <3>1, LeasesDiffer DEF Job!Save, Job!Serving, Job!LeaseScopes
    <3> QED
      BY <3>1, <3>2 DEF Job!ResultEndsHandling
  <2> QED
    BY <2>1, <2>2
<1>10. ASSUME NEW k \in Job!Invoker, Job!CompletePending(k) PROVE event'[j] \notin result'
  BY <1>10 DEF JobShape, Job!CompletePending, Job!Goto, Job!ResultEndsHandling, Job!records,
               Job!work
<1>11. ASSUME NEW k \in Job!Invoker, Job!Report(k) PROVE event'[j] \notin result'
  BY <1>11 DEF JobShape, Job!Report, Job!Goto, Job!Forgotten, Job!ResultEndsHandling,
               Job!records, Job!work
<1>12. ASSUME NEW k \in Job!Invoker, Job!HandlerFails(k) PROVE event'[j] \notin result'
  BY <1>12 DEF JobShape, Job!HandlerFails, Job!Goto, Job!ResultEndsHandling, Job!records,
               Job!work
<1>13. ASSUME NEW k \in Job!Invoker, Job!Crash(k) PROVE event'[j] \notin result'
  BY <1>13 DEF JobShape, Job!Crash, Job!Goto, Job!Forgotten, Job!ResultEndsHandling,
               Job!records, Job!work
<1>14. ASSUME NEW s \in Job!Scope, Job!Expire(s) PROVE event'[j] \notin result'
  BY <1>14 DEF JobShape, Job!Expire, Job!locals, Job!ResultEndsHandling, Job!records, Job!work
<1>15. ASSUME Job!ScanFamily PROVE event'[j] \notin result'
  BY <1>15 DEF JobShape, Job!ScanFamily, Job!locals, Job!ResultEndsHandling, Job!records,
               Job!work
<1>16. ASSUME Job!Attempt PROVE event'[j] \notin result'
  BY <1>16 DEF JobShape, Job!Attempt, Job!Goto, Job!ResultEndsHandling, Job!records, Job!work
<1>17. ASSUME Job!Attempted PROVE event'[j] \notin result'
  BY <1>17 DEF JobShape, Job!Attempted, Job!Goto, Job!Forgotten, Job!ResultEndsHandling,
               Job!records, Job!work
<1>18. CASE UNCHANGED Job!vars
  BY <1>18 DEF Job!vars, Job!locals, Job!records, Job!ResultEndsHandling
<1> QED
  BY <1>1, <1>2, <1>3, <1>4, <1>5, <1>6, <1>7, <1>8, <1>9, <1>10, <1>11, <1>12,
     <1>13, <1>14, <1>15, <1>16, <1>17, <1>18 DEF Job!Next, Job!Work, Job!Recover

LEMMA NextJobInv == JobInv /\ [Job!Next]_(Job!vars) => JobInv'
BY JobShapeStep, ScopeStep, HoldsStep, ResultStep DEF JobInv

-----------------------------------------------------------------------------
THEOREM InvocationInvariant == Job!InvocationAssumption /\ Job!Safety => []JobInv
<1> SUFFICES ASSUME Job!InvocationAssumption PROVE Job!Safety => []JobInv
  OBVIOUS
<1> QED
  BY InitJobInv, NextJobInv, PTL DEF Job!Safety

(***************************************************************************)
(* Whatever dies and whatever is delivered or recovered when, a handler    *)
(* never runs for an event that has a result: it was looked for under a    *)
(* lease that whoever wrote it held.                                       *)
(***************************************************************************)
THEOREM ResultsAreFinal ==
    Job!InvocationAssumption /\ Job!Safety => []ResultEndsHandling
<1>1. JobInv => ResultEndsHandling
  BY DEF JobInv, ResultEndsHandling, Invoker, Closer, Job!ResultEndsHandling, Job!Invoker,
         Job!Closer
<1> QED
  BY <1>1, InvocationInvariant, PTL

(***************************************************************************)
(* Handlers of one family never run at once, but for a message of a chat   *)
(* that had no family when it was looked up, beside one that is not a      *)
(* message.                                                                *)
(***************************************************************************)
THEOREM HandlersAreSerial ==
    Job!InvocationAssumption /\ Job!Safety => []FamilyWorkIsSerial
<1>1. JobInv => FamilyWorkIsSerial
  <2> SUFFICES ASSUME JobInv, NEW j \in Job!Invoker, NEW k \in Job!Invoker,
                      j # k, Job!Serving(j), Job!Serving(k), Job!FamilyAt(j) = Job!FamilyAt(k)
               PROVE  /\ {scope[j][1], scope[k][1]} = {"chat", "family"}
                      /\ ~(event[j] \in Channel /\ event[k] \in Channel)
    BY DEF FamilyWorkIsSerial, Invoker, Closer, Serving, FamilyAt, Job!Invoker, Job!Closer,
           Job!Serving, Job!FamilyAt
  <2>1. Job!LeaseScopes(j) \cap Job!LeaseScopes(k) = {}
    BY LeasesDiffer DEF JobInv
  <2>2. /\ scope[j] \in {Job!CacheScope(event[j]), <<"family", Job!FamilyAt(j)>>}
        /\ scope[k] \in {Job!CacheScope(event[k]), <<"family", Job!FamilyAt(k)>>}
    BY DEF JobInv, ScopeIsItsOwn, Job!Serving, Live
  <2>3. /\ Job!CacheScope(event[j]) # Job!CacheScope(event[k])
        /\ scope[j] # Job!CacheScope(event[k]) /\ scope[k] # Job!CacheScope(event[j])
        /\ scope[j] # scope[k]
    BY <2>1 DEF Job!LeaseScopes
  <2>4. CASE event[j] \in Channel
    <3>1. event[k] \notin Channel
      BY <2>3, <2>4 DEF Job!CacheScope, Job!FamilyAt
    <3>2. scope[k] = <<"family", Job!FamilyAt(k)>> /\ scope[j] = <<"chat", Job!FamilyAt(j)>>
      BY <2>2, <2>3, <2>4, <3>1 DEF Job!CacheScope, Job!FamilyAt
    <3> QED
      BY <3>1, <3>2
  <2>5. CASE event[j] \notin Channel
    <3>1. event[k] \in Channel
      BY <2>3, <2>5 DEF Job!CacheScope, Job!FamilyAt
    <3>2. scope[j] = <<"family", Job!FamilyAt(j)>> /\ scope[k] = <<"chat", Job!FamilyAt(k)>>
      BY <2>2, <2>3, <2>5, <3>1 DEF Job!CacheScope, Job!FamilyAt
    <3> QED
      BY <2>5, <3>2
  <2> QED
    BY <2>4, <2>5
<1> QED
  BY <1>1, InvocationInvariant, PTL
=============================================================================
