---------------------------- MODULE BoostProofs -----------------------------
(***************************************************************************)
(* What holds of Boost for any number of requests, any duration and any    *)
(* number of failures.                                                     *)
(***************************************************************************)
EXTENDS Boost, TLAPS

(* A request was told only of requests that had been answered 201, and     *)
(* once it has checked, each of those boosts still there had expired.      *)
ToldInv ==
  \A r \in Requests :
    /\ \A q \in told[r] : result[q] = "created"
    /\ pc[r] \in {"insert", "update", "enqueue", "commit"} \/ result[r] = "created" =>
         \A q \in told[r] : q \in boosts => expiresAt[q] <= txNow[r]

IInv == /\ TypeOK
        /\ AllOrNothing
        /\ NoOrphans
        /\ Referencing # {} => exists
        /\ ToldInv

LEMMA InitIInv == Init => IInv
<1> SUFFICES ASSUME Init PROVE IInv
  OBVIOUS
<1>1. /\ now \in 0..MaxTime /\ faults \in 0..MaxFaults
      /\ txNow \in [Requests -> 0..MaxTime] /\ expiresAt \in [Requests -> Nat]
  BY BoostBoundsAssumption DEF Init
<1>2. TypeOK
  BY <1>1 DEF Init, TypeOK, PcStates, Results
<1>3. AllOrNothing /\ NoOrphans /\ ToldInv /\ exists
  BY DEF Init, AllOrNothing, NoOrphans, ToldInv
<1> QED
  BY <1>2, <1>3 DEF IInv

LEMMA ArriveIInv ==
  ASSUME IInv, NEW r \in Requests, Arrive(r)
  PROVE  IInv'
  BY DEF Arrive, At, Goto, tables, IInv, TypeOK, AllOrNothing, NoOrphans, Referencing,
         ToldInv, PcStates, Results

(* A refusal or a failure without effect.                                  *)
LEMMA RefuseIInv ==
  ASSUME IInv, NEW r \in Requests, pc[r] \notin {"new", "done"},
         NEW res \in {"conflict", "forbidden", "notfound", "error"}, Answer(r, res),
         UNCHANGED <<now, tables, expiresAt, txNow, told>>, faults' \in 0..MaxFaults
  PROVE  IInv'
<1>1. TypeOK'
  BY DEF Answer, Goto, tables, IInv, TypeOK, PcStates, Results
<1>2. AllOrNothing' /\ NoOrphans'
  BY DEF Answer, Goto, tables, IInv, TypeOK, AllOrNothing, NoOrphans
<1>3. (Referencing # {} => exists)'
  BY DEF Answer, Goto, tables, IInv, TypeOK, Referencing
<1>4. ToldInv'
  BY DEF Answer, Goto, tables, IInv, TypeOK, ToldInv
<1> QED
  BY <1>1, <1>2, <1>3, <1>4 DEF IInv

(* The transaction takes effect, whether the client is told or not.        *)
LEMMA EffectIInv ==
  ASSUME IInv, NEW r \in Requests, pc[r] = "commit",
         NEW res \in {"created", "error"}, Answer(r, res), TakeEffect(r),
         UNCHANGED <<now, expiresAt, txNow, told>>, faults' \in 0..MaxFaults
  PROVE  IInv'
<1>1. exists /\ result[r] = "none"
  BY DEF IInv, Referencing, TypeOK
<1>2. TypeOK'
  BY DEF Answer, Goto, TakeEffect, IInv, TypeOK, PcStates, Results
<1>3. AllOrNothing' /\ NoOrphans'
  BY <1>1 DEF Answer, Goto, TakeEffect, IInv, TypeOK, AllOrNothing, NoOrphans
<1>4. (Referencing # {} => exists)'
  BY <1>1 DEF TakeEffect, Referencing
<1>5. ToldInv'
  BY <1>1 DEF Answer, Goto, TakeEffect, IInv, TypeOK, ToldInv
<1> QED
  BY <1>2, <1>3, <1>4, <1>5 DEF IInv

(* The steps inside the transaction, before its end.                       *)
LEMMA StatementIInv ==
  ASSUME IInv, NEW r \in Requests,
         \/ At(r, "owner") /\ Goto(r, "begin")
              /\ expiresAt' = [expiresAt EXCEPT ![r] = now + Duration]
              /\ UNCHANGED <<txNow, updating>>
         \/ Begin(r)
         \/ At(r, "check") /\ ~HasActive(r) /\ Goto(r, "insert")
              /\ UNCHANGED <<expiresAt, txNow, updating>>
         \/ At(r, "insert") /\ exists /\ Goto(r, "update")
              /\ UNCHANGED <<expiresAt, txNow, updating>>
         \/ Update(r)
         \/ Enqueue(r),
         UNCHANGED <<now, tables, result, told, faults>>
  PROVE  IInv'
<1> USE DEF At, Goto
<1>1. TypeOK'
  BY BoostBoundsAssumption
  DEF Begin, Update, MayUpdate, Enqueue, tables, IInv, TypeOK, PcStates
<1>2. AllOrNothing' /\ NoOrphans'
  BY DEF tables, IInv, AllOrNothing, NoOrphans
<1>3. (Referencing # {} => exists)'
  BY DEF Begin, Update, Enqueue, tables, IInv, TypeOK, Referencing
<1>4. ToldInv'
  BY DEF Begin, Update, Enqueue, HasActive, tables, IInv, TypeOK, ToldInv, AllOrNothing
<1> QED
  BY <1>1, <1>2, <1>3, <1>4 DEF IInv
LEMMA NextIInv == IInv /\ [Next]_vars => IInv'
<1> SUFFICES ASSUME IInv, [Next]_vars PROVE IInv'
  OBVIOUS
<1>1. ASSUME NEW r \in Requests, CheckOwner(r) PROVE IInv'
  <2>1. CASE exists /\ r \in Owners
    BY <1>1, <2>1, StatementIInv DEF CheckOwner
  <2>2. CASE ~(exists /\ r \in Owners)
    <3>1. PICK res \in {"forbidden", "notfound"} : Answer(r, res)
      BY <1>1, <2>2 DEF CheckOwner
    <3>2. pc[r] = "owner" /\ UNCHANGED <<now, tables, expiresAt, txNow, told, faults>>
      BY <1>1, <2>2 DEF CheckOwner, At
    <3> QED
      BY <3>1, <3>2, RefuseIInv DEF IInv, TypeOK
  <2> QED
    BY <2>1, <2>2
<1>2. ASSUME NEW r \in Requests, CheckActive(r) \/ Insert(r) PROVE IInv'
  <2>1. CASE \E res \in {"conflict", "error"} : Answer(r, res)
    <3>1. /\ pc[r] \in {"check", "insert"}
          /\ UNCHANGED <<now, tables, expiresAt, txNow, told, faults>>
      BY <1>2 DEF CheckActive, Insert, At
    <3> QED
      BY <2>1, <3>1, RefuseIInv DEF IInv, TypeOK
  <2>2. CASE ~\E res \in {"conflict", "error"} : Answer(r, res)
    BY <1>2, <2>2, StatementIInv DEF CheckActive, Insert
  <2> QED
    BY <2>1, <2>2
<1>3. ASSUME NEW r \in Requests, Begin(r) \/ Update(r) \/ Enqueue(r) PROVE IInv'
  <2>1. UNCHANGED <<now, tables, result, told, faults>>
    BY <1>3 DEF Begin, Update, Enqueue
  <2> QED
    BY <1>3, <2>1, StatementIInv
<1>4. ASSUME NEW r \in Requests, Commit(r) PROVE IInv'
  BY <1>4, EffectIInv DEF Commit, At, IInv, TypeOK
<1>5. ASSUME NEW r \in Requests, Fail(r) PROVE IInv'
  <2>1. faults' \in 0..MaxFaults
    BY <1>5, BoostBoundsAssumption DEF Fail, IInv, TypeOK
  <2> QED
    BY <1>5, <2>1, RefuseIInv, EffectIInv DEF Fail, At
<1>6. CASE DeleteListing
  <2>1. TypeOK' /\ AllOrNothing' /\ NoOrphans' /\ ToldInv'
    BY <1>6 DEF DeleteListing, requestVars, IInv, TypeOK, AllOrNothing, NoOrphans,
                ToldInv
  <2>2. (Referencing # {} => exists)'
    BY <1>6 DEF DeleteListing, MayDelete, requestVars, Referencing
  <2> QED
    BY <2>1, <2>2 DEF IInv
<1>7. CASE Tick
  <2>1. now' \in 0..MaxTime
    BY <1>7, BoostBoundsAssumption DEF Tick, IInv, TypeOK
  <2> QED
    BY <1>7, <2>1 DEF Tick, tables, requestVars, IInv, TypeOK, AllOrNothing, NoOrphans,
                      Referencing, ToldInv
<1>8. CASE UNCHANGED vars
  BY <1>8 DEF vars, tables, requestVars, IInv, TypeOK, AllOrNothing, NoOrphans,
              Referencing, ToldInv
<1>9. CASE \E r \in Requests : Arrive(r) \/ GoesOn(r) \/ Fail(r)
  BY <1>1, <1>2, <1>3, <1>4, <1>5, <1>9, ArriveIInv DEF GoesOn
<1> QED
  BY <1>6, <1>7, <1>8, <1>9 DEF Next

THEOREM Invariance == Spec => []IInv
  BY InitIInv, NextIInv, PTL DEF Spec

(* Type correctness: one updater of the listing at a time.                 *)
THEOREM TypeCorrect == Spec => []TypeOK
<1>1. IInv => TypeOK
  BY DEF IInv
<1> QED
  BY <1>1, Invariance, PTL

(* Boost row, flag and event are one whole through every failure.          *)
THEOREM BoostIsAtomic == Spec => []AllOrNothing
<1>1. IInv => AllOrNothing
  BY DEF IInv
<1> QED
  BY <1>1, Invariance, PTL

(* No boost outlives its listing: the INSERT holds the listing FOR KEY     *)
(* SHARE until it commits, and the deletion cascades.                      *)
THEOREM NoneOutlives == Spec => []NoOrphans
<1>1. IInv => NoOrphans
  BY DEF IInv
<1> QED
  BY <1>1, Invariance, PTL

(* What the check does guarantee: no second 201 for a request that came    *)
(* after the first one's, while that boost is active.                      *)
THEOREM SequentialRepeat == Spec => []RepeatIsRefused
<1>1. IInv => RepeatIsRefused
  BY DEF IInv, ToldInv, RepeatIsRefused
<1> QED
  BY <1>1, Invariance, PTL

-----------------------------------------------------------------------------
(* What EveryoneAnswered rests on: the locks cannot close a cycle.         *)
HeldUp(r) == At(r, "update") /\ ~MayUpdate(r)

(* A transaction that waits for the listing's row waits for one that has   *)
(* updated it and only has its event to write and its commit to do; what   *)
(* the deletion waits for does not wait for it in turn.                    *)
NoCycle ==
  /\ \A r \in Requests : HeldUp(r) =>
       \E q \in updating : q # r /\ pc[q] \in {"enqueue", "commit"} /\ ~HeldUp(q)
  /\ ~MayDelete => \E q \in Referencing : ~HeldUp(q)

(* No deadlock between boosts of a listing, nor with its deletion: the     *)
(* INSERT's foreign key lock does not exclude another request's UPDATE.    *)
THEOREM LocksDoNotDeadlock == Spec => []NoCycle
<1>1. ASSUME IInv, NEW r \in Requests, HeldUp(r)
      PROVE  \E q \in updating : q # r /\ pc[q] \in {"enqueue", "commit"} /\ ~HeldUp(q)
  <2>1. PICK q \in updating : q # r
    BY <1>1 DEF HeldUp, MayUpdate
  <2>2. pc[q] \in {"enqueue", "commit"}
    BY <1>1 DEF IInv, TypeOK
  <2>3. ~HeldUp(q)
    BY <2>2 DEF HeldUp, At
  <2> QED
    BY <2>1, <2>2, <2>3
<1>2. ASSUME IInv, ~MayDelete
      PROVE  \E q \in Referencing : ~HeldUp(q)
  <2>1. PICK r \in Referencing : TRUE
    BY <1>2 DEF MayDelete
  <2>2. CASE HeldUp(r)
    <3>1. PICK q \in updating : pc[q] \in {"enqueue", "commit"} /\ ~HeldUp(q)
      BY <1>1, <1>2, <2>1, <2>2 DEF Referencing
    <3> QED
      BY <1>2, <3>1 DEF IInv, TypeOK, Referencing
  <2> QED
    BY <2>1, <2>2
<1>3. IInv => NoCycle
  BY <1>1, <1>2 DEF NoCycle
<1> QED
  BY <1>3, Invariance, PTL
=============================================================================
