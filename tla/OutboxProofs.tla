---------------------------- MODULE OutboxProofs ----------------------------
(***************************************************************************)
(* What holds of Outbox for every set of API transactions and relays,      *)
(* every batch size and every number of failures.                          *)
(***************************************************************************)
EXTENDS Outbox, FiniteSetTheorems, SequenceTheorems, TLAPS

(* Appending to the log adds one element to what the broker has.           *)
LEMMA RangeAppend ==
  ASSUME NEW S, NEW s \in Seq(S), NEW x \in S
  PROVE  /\ Append(s, x) \in Seq(S)
         /\ Len(Append(s, x)) = Len(s) + 1
         /\ Range(Append(s, x)) = Range(s) \cup {x}
<1>1. /\ Append(s, x) \in Seq(S)
      /\ Len(Append(s, x)) = Len(s) + 1
      /\ \A i \in 1..Len(s) : Append(s, x)[i] = s[i]
      /\ Append(s, x)[Len(s) + 1] = x
  BY AppendProperties
<1>2. Len(s) \in Nat
  OBVIOUS
<1>3. /\ DOMAIN s = 1..Len(s)
      /\ DOMAIN Append(s, x) = 1..(Len(s) + 1)
  BY <1>1
<1>4. Range(Append(s, x)) = Range(s) \cup {x}
  BY <1>1, <1>2, <1>3 DEF Range
<1> QED
  BY <1>1, <1>4

-----------------------------------------------------------------------------
(* Where the rows in flight are: a relay holds and its writer keeps only   *)
(* committed rows, and what it counts as published the broker has.         *)
InFlight ==
  \A r \in Relays : /\ msgs[r] \subseteq outbox
                    /\ writer[r] \subseteq outbox
                    /\ ids[r] \subseteq Sent

IInv == /\ TypeOK
        /\ outbox \subseteq domain
        /\ InFlight
        /\ NoPhantom
        /\ NoLoss

LEMMA InitIInv == Init => IInv
<1> SUFFICES ASSUME Init PROVE IInv
  OBVIOUS
<1>1. Cardinality({}) = 0
  BY FS_EmptySet
<1>2. Sent = {} /\ log \in Seq(Events)
  BY DEF Init, Sent, Range
<1>3. TypeOK
  BY <1>1, <1>2, BatchSizeAssumption, MaxFaultsAssumption
  DEF Init, TypeOK, TxStates, PcStates
<1> QED
  BY <1>2, <1>3 DEF Init, IInv, InFlight, NoPhantom, NoLoss

(* The API's side: rows become visible at Commit, row and event together.  *)
LEMMA TxStepIInv ==
  ASSUME IInv, NEW e \in Events, TxStep(e)
  PROVE  IInv'
<1> USE DEF IInv
<1>1. Sent' = Sent
  BY DEF TxStep, InsertDomainRow, Enqueue, Commit, Rollback, relayVars, Sent
<1>2. TypeOK'
  <2>1. CASE InsertDomainRow(e)
    BY <2>1 DEF InsertDomainRow, TypeOK, TxStates, relayVars, batchVars
  <2>2. CASE Enqueue(e)
    BY <2>2 DEF Enqueue, DrawId, TypeOK, TxStates, relayVars, batchVars
  <2>3. CASE Commit(e)
    BY <2>3 DEF Commit, TypeOK, TxStates, relayVars, batchVars
  <2>4. CASE Rollback(e)
    BY <2>4 DEF Rollback, TypeOK, TxStates, relayVars, batchVars
  <2> QED
    BY <2>1, <2>2, <2>3, <2>4 DEF TxStep
<1>3. /\ domain \subseteq domain' /\ outbox \subseteq outbox'
      /\ outbox' \subseteq domain'
      /\ UNCHANGED <<published, msgs, writer, ids>>
  BY DEF TxStep, InsertDomainRow, Enqueue, Commit, Rollback, relayVars, batchVars
<1> QED
  BY <1>1, <1>2, <1>3 DEF InFlight, NoPhantom, NoLoss
-----------------------------------------------------------------------------
(* Every way a batch ends: its rows are let go and only published ones are *)
(* marked.                                                                 *)
LEMMA EndTxIInv ==
  ASSUME IInv, NEW r \in Relays, EndTx(r), UNCHANGED <<txVars, log>>,
         published' \in {published, published \cup ids[r]},
         stalled' = stalled, backlog' = backlog,
         faults' \in 0..MaxFaults,
         pc' = [pc EXCEPT ![r] = pc'[r]], pc'[r] \in PcStates,
         cancelled' \in [Relays -> BOOLEAN],
         writer' \in {writer, [writer EXCEPT ![r] = {}]}
  PROVE  IInv'
<1>1. Cardinality({}) = 0
  BY FS_EmptySet
<1>2. /\ Sent' = Sent /\ published' \subseteq Sent
      /\ UNCHANGED <<tx, id, nextId, domain, outbox>>
  BY DEF IInv, InFlight, NoLoss, Sent, txVars
<1>3. TypeOK'
  <2>1. /\ msgs' \in [Relays -> SUBSET Events]
        /\ ids' \in [Relays -> SUBSET Events]
        /\ writer' \in [Relays -> SUBSET Events]
        /\ publishErr' \in [Relays -> BOOLEAN]
        /\ pc' \in [Relays -> PcStates]
    BY DEF IInv, TypeOK, EndTx
  <2>2. published' \subseteq Events /\ log' \in Seq(Events)
    BY <1>2 DEF IInv, TypeOK, txVars
  <2>3. ASSUME NEW q \in Relays
        PROVE  /\ ids'[q] \subseteq msgs'[q]
               /\ Cardinality(msgs'[q]) <= BatchSize
               /\ msgs'[q] # {} => pc'[q] \in {"publish", "mark"}
    <3>1. CASE q = r
      BY <1>1, <3>1, BatchSizeAssumption DEF IInv, TypeOK, EndTx
    <3>2. CASE q # r
      BY <3>2 DEF IInv, TypeOK, EndTx
    <3> QED
      BY <3>1, <3>2
  <2> QED
    BY <1>2, <2>1, <2>2, <2>3 DEF IInv, TypeOK
<1>4. InFlight'
  BY <1>2 DEF IInv, TypeOK, EndTx, InFlight
<1> QED
  BY <1>2, <1>3, <1>4 DEF IInv, NoPhantom, NoLoss

(* A claim locks only committed rows, at most BatchSize of them.           *)
LEMMA ClaimIInv ==
  ASSUME IInv, NEW r \in Relays, Claim(r)
  PROVE  IInv'
<1>1. PICK B \in SUBSET Events :
        /\ IsBatch(B)
        /\ msgs' = [msgs EXCEPT ![r] = B]
        /\ Goto(r, IF B = {} THEN "idle" ELSE "publish")
  BY DEF Claim
<1>2. B \subseteq outbox /\ Cardinality(B) <= BatchSize
  BY <1>1 DEF IsBatch, Claimable, Pending
<1>3. /\ pc[r] = "claim"
      /\ UNCHANGED <<tx, id, nextId, domain, outbox, published, cancelled, ids,
                     publishErr, writer, log, faults, backlog, stalled>>
  BY DEF Claim, txVars
<1>4. TypeOK'
  BY <1>1, <1>2, <1>3 DEF IInv, TypeOK, Goto, PcStates
<1>5. InFlight' /\ Sent' = Sent
  BY <1>1, <1>2, <1>3 DEF IInv, InFlight, TypeOK, Sent
<1> QED
  BY <1>3, <1>4, <1>5 DEF IInv, NoPhantom, NoLoss

(* A publish, successful or not, sends at most one row of the claimed      *)
(* ones.                                                                   *)
LEMMA PublishIInv ==
  ASSUME IInv, NEW r \in Relays, Publish(r) \/ PublishFails(r)
  PROVE  IInv'
<1>1. CASE Publish(r)
  <2>1. PICK m \in msgs[r] \ ids[r] :
          /\ log' = Append(log, m)
          /\ ids' = [ids EXCEPT ![r] = @ \cup {m}]
    BY <1>1 DEF Publish
  <2>2. /\ pc[r] = "publish"
        /\ Goto(r, IF ids'[r] = msgs[r] THEN "mark" ELSE "publish")
        /\ UNCHANGED <<tx, id, nextId, domain, outbox, published, cancelled, msgs,
                       publishErr, writer, faults, backlog, stalled>>
    BY <1>1 DEF Publish, txVars
  <2>3. m \in Events /\ m \in outbox /\ log \in Seq(Events)
    BY DEF IInv, TypeOK, InFlight
  <2>4. log' \in Seq(Events) /\ Sent' = Sent \cup {m}
    BY <2>1, <2>3, RangeAppend DEF Sent
  <2>5. TypeOK'
    BY <2>1, <2>2, <2>3, <2>4 DEF IInv, TypeOK, Goto, PcStates
  <2>6. InFlight'
    BY <2>1, <2>2, <2>4 DEF IInv, InFlight, TypeOK
  <2> QED
    BY <2>2, <2>3, <2>4, <2>5, <2>6 DEF IInv, NoPhantom, NoLoss
<1>2. CASE PublishFails(r)
  <2>1. PICK m \in msgs[r] \ ids[r] :
          /\ BreakOn(r, m)
          /\ log' \in {log, Append(log, m)}
    BY <1>2 DEF PublishFails
  <2>2. /\ pc[r] = "publish" /\ Disturb
        /\ UNCHANGED <<tx, id, nextId, domain, outbox, published, cancelled, msgs,
                       ids, writer, backlog>>
    BY <1>2 DEF PublishFails, txVars
  <2>3. m \in Events /\ m \in outbox /\ log \in Seq(Events)
    BY DEF IInv, TypeOK, InFlight
  <2>4. log' \in Seq(Events) /\ Sent' \in {Sent, Sent \cup {m}}
    <3>1. Append(log, m) \in Seq(Events) /\ Range(Append(log, m)) = Sent \cup {m}
      BY <2>3, RangeAppend DEF Sent
    <3> QED
      BY <2>1, <2>3, <3>1 DEF Sent
  <2>5. TypeOK'
    BY <2>1, <2>2, <2>3, <2>4, MaxFaultsAssumption
    DEF IInv, TypeOK, Goto, PcStates, BreakOn, Disturb
  <2>6. InFlight'
    BY <2>1, <2>2, <2>4 DEF IInv, InFlight, TypeOK
  <2> QED
    BY <2>2, <2>3, <2>4, <2>5, <2>6 DEF IInv, NoPhantom, NoLoss
<1> QED
  BY <1>1, <1>2
LEMMA BatchEndsIInv ==
  ASSUME IInv, NEW r \in Relays,
         Mark(r) \/ MarkFails(r) \/ RunReturns(r) \/ Crash(r)
  PROVE  IInv'
<1>1. /\ EndTx(r) /\ UNCHANGED <<txVars, log>>
      /\ stalled' = stalled /\ backlog' = backlog
  BY DEF Mark, MarkFails, RunReturns, Crash
<1>2. published' \in {published, published \cup ids[r]}
  BY DEF Mark, MarkFails, RunReturns, Crash, MarkedRows
<1>3. faults' \in 0..MaxFaults
  BY MaxFaultsAssumption
  DEF Mark, MarkFails, RunReturns, Crash, Disturb, IInv, TypeOK
<1>4. pc' = [pc EXCEPT ![r] = pc'[r]] /\ pc'[r] \in PcStates
  <2>1. PICK label \in PcStates : Goto(r, label)
    BY DEF Mark, MarkFails, RunReturns, Crash, AfterBatch, ProcessGone, PcStates
  <2> QED
    BY <2>1 DEF Goto, IInv, TypeOK
<1>5. /\ cancelled' \in [Relays -> BOOLEAN]
      /\ writer' \in {writer, [writer EXCEPT ![r] = {}]}
  BY DEF Mark, MarkFails, RunReturns, Crash, ProcessGone, IInv, TypeOK
<1> QED
  BY <1>1, <1>2, <1>3, <1>4, <1>5, EndTxIInv

(* The remaining steps neither send nor mark anything, except that the     *)
(* writer may deliver the row a cancelled publish left with it.            *)
LEMMA OtherIInv ==
  ASSUME IInv, NEW r \in Relays,
         \/ Tick(r) \/ ClaimFails(r) \/ PublishCancelled(r) \/ Cancel(r)
         \/ WriterFlush(r) \/ Exit(r) \/ Restart(r)
  PROVE  IInv'
<1>1. /\ UNCHANGED <<tx, id, nextId, domain, outbox, published, msgs, ids>>
  BY DEF Tick, ClaimFails, PublishCancelled, Cancel, WriterFlush, Exit, Restart,
         ProcessGone, txVars, batchVars
<1>2. /\ log' \in Seq(Events)
      /\ Sent \subseteq Sent' /\ Sent' \subseteq domain
  <2>1. CASE WriterFlush(r)
    <3>1. PICK m \in writer[r] : log' = Append(log, m)
      BY <2>1 DEF WriterFlush
    <3>2. m \in Events /\ m \in domain /\ log \in Seq(Events)
      BY DEF IInv, TypeOK, InFlight
    <3>3. Append(log, m) \in Seq(Events) /\ Range(Append(log, m)) = Sent \cup {m}
      BY <3>2, RangeAppend DEF Sent
    <3> QED
      BY <3>1, <3>2, <3>3 DEF Sent, IInv, NoPhantom
  <2>2. CASE ~WriterFlush(r)
    <3>1. log' = log
      BY <2>2 DEF Tick, ClaimFails, PublishCancelled, Cancel, Exit, Restart
    <3> QED
      BY <3>1 DEF IInv, TypeOK, Sent, NoPhantom
  <2> QED
    BY <2>1, <2>2
<1>3. /\ writer' \in [Relays -> SUBSET Events]
      /\ \A q \in Relays : writer'[q] \subseteq outbox
  <2>1. CASE PublishCancelled(r)
    <3>1. PICK m \in msgs[r] \ ids[r] :
            writer' \in {writer, [writer EXCEPT ![r] = {m}]}
      BY <2>1 DEF PublishCancelled
    <3>2. m \in Events /\ m \in outbox
      BY DEF IInv, TypeOK, InFlight
    <3>3. ASSUME NEW q \in Relays PROVE writer'[q] \subseteq outbox
      BY <3>1, <3>2 DEF IInv, TypeOK, InFlight
    <3>4. writer' \in [Relays -> SUBSET Events]
      BY <3>1, <3>2 DEF IInv, TypeOK
    <3> QED
      BY <3>3, <3>4
  <2>2. CASE ~PublishCancelled(r)
    <3>1. writer' \in {writer, [writer EXCEPT ![r] = {}]}
      BY <2>2 DEF Tick, ClaimFails, Cancel, WriterFlush, Exit, Restart, ProcessGone
    <3> QED
      BY <3>1 DEF IInv, TypeOK, InFlight
  <2> QED
    BY <2>1, <2>2
<1>4. /\ cancelled' \in [Relays -> BOOLEAN]
      /\ publishErr' \in [Relays -> BOOLEAN]
      /\ backlog' \in [Relays -> SUBSET Events]
      /\ stalled' \subseteq Events
      /\ faults' \in 0..MaxFaults
  <2>1. cancelled' \in [Relays -> BOOLEAN]
    BY DEF Tick, ClaimFails, PublishCancelled, Cancel, WriterFlush, Exit, Restart,
           ProcessGone, IInv, TypeOK
  <2>2. publishErr' \in [Relays -> BOOLEAN]
    BY DEF Tick, ClaimFails, PublishCancelled, Cancel, WriterFlush, Exit, Restart,
           BreakOn, batchVars, IInv, TypeOK
  <2>3. backlog' \in [Relays -> SUBSET Events]
    <3>1. backlog' \in {backlog, [backlog EXCEPT ![r] = outbox \ published]}
      BY DEF Tick, ClaimFails, PublishCancelled, Cancel, WriterFlush, Exit, Restart,
             Pending
    <3> QED
      BY <3>1 DEF IInv, TypeOK
  <2>4. stalled' \subseteq Events
    <3>1. stalled' = stalled \/ \E m \in msgs[r] : stalled' = stalled \cup {m}
      BY DEF Tick, ClaimFails, PublishCancelled, Cancel, WriterFlush, Exit, Restart,
             BreakOn
    <3> QED
      BY <3>1 DEF IInv, TypeOK
  <2>5. faults' \in 0..MaxFaults
    BY MaxFaultsAssumption
    DEF Tick, ClaimFails, PublishCancelled, Cancel, WriterFlush, Exit, Restart,
        Disturb, IInv, TypeOK
  <2> QED
    BY <2>1, <2>2, <2>3, <2>4, <2>5
<1>5. /\ pc' \in [Relays -> PcStates]
      /\ \A q \in Relays : msgs[q] # {} => pc'[q] \in {"publish", "mark"}
  BY DEF Tick, ClaimFails, PublishCancelled, Cancel, WriterFlush, Exit, Restart,
         ProcessGone, BreakOn, Goto, IInv, TypeOK, PcStates
<1>6. TypeOK'
  BY <1>1, <1>2, <1>3, <1>4, <1>5 DEF IInv, TypeOK
<1> QED
  BY <1>1, <1>2, <1>3, <1>6 DEF IInv, InFlight, NoPhantom, NoLoss

LEMMA NextIInv == IInv /\ [Next]_vars => IInv'
<1> SUFFICES ASSUME IInv, [Next]_vars PROVE IInv'
  OBVIOUS
<1>1. ASSUME NEW e \in Events, TxStep(e) PROVE IInv'
  BY <1>1, TxStepIInv
<1>2. ASSUME NEW r \in Relays,
             \/ RelayStep(r) \/ Disturbance(r)
             \/ WriterFlush(r) \/ Exit(r) \/ Restart(r)
      PROVE  IInv'
  BY <1>2, ClaimIInv, PublishIInv, BatchEndsIInv, OtherIInv
  DEF RelayStep, Disturbance
<1>3. CASE UNCHANGED vars
  BY <1>3 DEF vars, txVars, batchVars, relayVars, IInv, TypeOK, InFlight, NoPhantom,
              NoLoss, Sent
<1> QED
  BY <1>1, <1>2, <1>3 DEF Next

THEOREM Invariance == Spec => []IInv
  BY InitIInv, NextIInv, PTL DEF Spec

(* Type correctness: no batch exceeds its LIMIT, only an open batch holds  *)
(* rows (Outbox!TypeOK).                                                   *)
THEOREM TypeCorrect == Spec => []TypeOK
<1>1. IInv => TypeOK
  BY DEF IInv
<1> QED
  BY <1>1, Invariance, PTL

(* Enqueue in the domain transaction: no event without its domain row.     *)
THEOREM NoPhantomEvents == Spec => []NoPhantom
<1>1. IInv => NoPhantom
  BY DEF IInv
<1> QED
  BY <1>1, Invariance, PTL

(* ProcessPending marks only what the broker has: no event is lost.        *)
THEOREM NoLostEvents == Spec => []NoLoss
<1>1. IInv => NoLoss
  BY DEF IInv
<1> QED
  BY <1>1, Invariance, PTL
-----------------------------------------------------------------------------
(* Steps of the outbox as steps of EventDelivery.                          *)

LEMMA DeliverStep ==
  ASSUME IInv, NEW m \in Events, m \in outbox, log' = Append(log, m),
         UNCHANGED <<domain, published>>
  PROVE  Delivery!Next
<1>1. Sent' = Sent \cup {m}
  BY RangeAppend DEF Sent, IInv, TypeOK
<1>2. m \in domain
  BY DEF IInv
<1>3. Delivery!Deliver(m)
  BY <1>1, <1>2 DEF Delivery!Deliver
<1> QED
  BY <1>3 DEF Delivery!Next

LEMMA SettleStep ==
  ASSUME IInv, NEW r \in Relays, published' = published \cup ids[r],
         UNCHANGED <<domain, log>>
  PROVE  Delivery!Next
<1>1. Sent' = Sent /\ ids[r] \subseteq Sent /\ ids[r] \in SUBSET Events
  BY DEF Sent, IInv, InFlight, TypeOK
<1>2. Delivery!Settle(ids[r])
  BY <1>1 DEF Delivery!Settle
<1> QED
  BY <1>1, <1>2 DEF Delivery!Next

LEMMA StutterStep ==
  ASSUME UNCHANGED <<domain, log, published>>
  PROVE  UNCHANGED Delivery!vars
  BY DEF Delivery!vars, Sent

LEMMA TxDeliveryStep ==
  ASSUME IInv, NEW e \in Events, TxStep(e)
  PROVE  [Delivery!Next]_(Delivery!vars)
<1>1. UNCHANGED <<log, published>> /\ Sent' = Sent
  BY DEF TxStep, InsertDomainRow, Enqueue, Commit, Rollback, relayVars, Sent
<1>2. CASE Commit(e)
  <2>1. Delivery!Accept(e)
    BY <1>1, <1>2 DEF Delivery!Accept, Commit
  <2> QED
    BY <2>1 DEF Delivery!Next
<1>3. CASE ~Commit(e)
  <2>1. domain' = domain
    BY <1>3 DEF TxStep, InsertDomainRow, Enqueue, Rollback
  <2> QED
    BY <1>1, <2>1, StutterStep
<1> QED
  BY <1>2, <1>3

LEMMA RelayDeliveryStep ==
  ASSUME IInv, NEW r \in Relays,
         \/ RelayStep(r) \/ Disturbance(r)
         \/ WriterFlush(r) \/ Exit(r) \/ Restart(r)
  PROVE  [Delivery!Next]_(Delivery!vars)
<1>1. domain' = domain
  BY DEF RelayStep, Disturbance, Tick, Claim, Publish, PublishCancelled, Mark,
         RunReturns, ClaimFails, PublishFails, MarkFails, Cancel, Crash,
         WriterFlush, Exit, Restart, txVars
<1>2. CASE Publish(r) \/ PublishFails(r) \/ WriterFlush(r)
  <2>1. published' = published
    BY <1>2 DEF Publish, PublishFails, WriterFlush
  <2>2. log' = log \/ \E m \in msgs[r] \cup writer[r] : log' = Append(log, m)
    BY <1>2 DEF Publish, PublishFails, WriterFlush
  <2>3. \A m \in msgs[r] \cup writer[r] : m \in Events /\ m \in outbox
    BY DEF IInv, TypeOK, InFlight
  <2> QED
    BY <1>1, <2>1, <2>2, <2>3, DeliverStep, StutterStep
<1>3. CASE Mark(r) \/ MarkFails(r)
  <2>1. /\ log' = log
        /\ published' = published \/ published' = published \cup ids[r]
    BY <1>3 DEF Mark, MarkFails, MarkedRows
  <2> QED
    BY <1>1, <2>1, SettleStep, StutterStep
<1>4. CASE \/ Tick(r) \/ Claim(r) \/ PublishCancelled(r) \/ RunReturns(r)
           \/ ClaimFails(r) \/ Cancel(r) \/ Crash(r) \/ Exit(r) \/ Restart(r)
  <2>1. UNCHANGED <<log, published>>
    BY <1>4 DEF Tick, Claim, PublishCancelled, RunReturns, ClaimFails, Cancel,
                Crash, Exit, Restart
  <2> QED
    BY <1>1, <2>1, StutterStep
<1> QED
  BY <1>2, <1>3, <1>4 DEF RelayStep, Disturbance

(* The outbox implements the abstract event delivery: accepted with the    *)
(* domain change, delivered afterwards, settled only once delivered.       *)
THEOREM Refinement == Spec => RefinesDelivery
<1>1. Init => Delivery!Init
  BY DEF Init, Delivery!Init, Sent, Range
<1>2. IInv /\ [Next]_vars => [Delivery!Next]_(Delivery!vars)
  <2> SUFFICES ASSUME IInv, [Next]_vars PROVE [Delivery!Next]_(Delivery!vars)
    OBVIOUS
  <2>1. CASE UNCHANGED vars
    BY <2>1, StutterStep DEF vars, txVars, relayVars
  <2> QED
    BY <2>1, TxDeliveryStep, RelayDeliveryStep DEF Next
<1> QED
  BY <1>1, <1>2, Invariance, PTL DEF Spec, RefinesDelivery, Delivery!Spec
-----------------------------------------------------------------------------
(* How many repeats failures can cause.  A row is settled while it is      *)
(* marked or counted by the batch that holds it: nobody sends it again.    *)
Covered == published \cup UNION {ids[r] : r \in Relays}

(* What a stopping relay may still repeat or leave to be repeated: the     *)
(* rows its batch has counted, will count, or left with its writer.        *)
AtStake(r) == IF ~cancelled[r] THEN {}
              ELSE (IF pc[r] = "publish" THEN msgs[r] ELSE ids[r]) \cup writer[r]

Exposed == {p \in Relays \X Events : p[2] \in AtStake(p[1])}

(* A writer keeps a message only for a stopping relay that gave up on it.  *)
LeftOver(r) == writer[r] # {} => /\ cancelled[r]
                                 /\ pc[r] \in {"mark", "returned"}
                                 /\ writer[r] \cap ids[r] = {}

(* Row locks keep batches apart whatever fails.                            *)
Locks == /\ \A r \in Relays : msgs[r] \cap published = {} /\ LeftOver(r)
         /\ \A r, q \in Relays : r # q => msgs[r] \cap msgs[q] = {}

(* A message in the log is the one that settled its row, or was paid for   *)
(* by a fault; a shutdown pays in advance for the rows it puts at stake.   *)
Paid ==
  /\ IsFiniteSet(Exposed)
  /\ Len(log) + Cardinality(Exposed) <= Cardinality(Covered) + BatchSize * faults

(* A step of relay r leaves the others alone.                              *)
OnlyRow(r) ==
  \A q \in Relays : q # r =>
    /\ pc'[q] = pc[q] /\ cancelled'[q] = cancelled[q]
    /\ msgs'[q] = msgs[q] /\ ids'[q] = ids[q] /\ writer'[q] = writer[q]

LEMMA PairsCardinality ==
  ASSUME NEW r, NEW T, IsFiniteSet(T)
  PROVE  IsFiniteSet({r} \X T) /\ Cardinality({r} \X T) = Cardinality(T)
<1>1. IsFiniteSet({r}) /\ Cardinality({r}) = 1
  BY FS_Singleton
<1>2. /\ IsFiniteSet({r} \X T)
      /\ Cardinality({r} \X T) = Cardinality({r}) * Cardinality(T)
  BY <1>1, FS_Product
<1>3. Cardinality(T) \in Nat
  BY FS_CardinalityType
<1>4. 1 * Cardinality(T) = Cardinality(T)
  BY <1>3
<1> QED
  BY <1>1, <1>2, <1>4

LEMMA UnionCardinality ==
  ASSUME NEW S, NEW T, IsFiniteSet(S), IsFiniteSet(T)
  PROVE  /\ IsFiniteSet(S \cup T)
         /\ Cardinality(S \cup T) <= Cardinality(S) + Cardinality(T)
         /\ S \cap T = {} => Cardinality(S \cup T) = Cardinality(S) + Cardinality(T)
<1>1. /\ IsFiniteSet(S \cup T)
      /\ Cardinality(S \cup T) =
           Cardinality(S) + Cardinality(T) - Cardinality(S \cap T)
  BY FS_Union
<1>2. IsFiniteSet(S \cap T)
  BY FS_Intersection
<1>3. /\ Cardinality(S) \in Nat /\ Cardinality(T) \in Nat
      /\ Cardinality(S \cap T) \in Nat
  BY <1>2, FS_CardinalityType
<1>4. S \cap T = {} => Cardinality(S \cap T) = 0
  BY FS_EmptySet
<1> QED
  BY <1>1, <1>3, <1>4

(* One more fault pays for one more batch.                                 *)
LEMMA Budget ==
  ASSUME NEW n \in Nat
  PROVE  /\ BatchSize * n \in Nat
         /\ BatchSize * (n + 1) = BatchSize * n + BatchSize
  BY BatchSizeAssumption

LEMMA RowSets ==
  ASSUME IInv, NEW r \in Relays
  PROVE  /\ IsFiniteSet(msgs[r]) /\ IsFiniteSet(ids[r])
         /\ Cardinality(ids[r]) \in Nat /\ Cardinality(msgs[r]) \in Nat
         /\ Cardinality(ids[r]) <= BatchSize /\ Cardinality(msgs[r]) <= BatchSize
<1>1. msgs[r] \subseteq Events /\ ids[r] \subseteq msgs[r]
  BY DEF IInv, TypeOK
<1>2. IsFiniteSet(msgs[r]) /\ IsFiniteSet(ids[r])
  BY <1>1, EventsAssumption, FS_Subset
<1>3. Cardinality(ids[r]) <= Cardinality(msgs[r]) /\ Cardinality(msgs[r]) <= BatchSize
  BY <1>1, <1>2, FS_Subset DEF IInv, TypeOK
<1>4. Cardinality(ids[r]) \in Nat /\ Cardinality(msgs[r]) \in Nat /\ BatchSize \in Nat
  BY <1>2, FS_CardinalityType, BatchSizeAssumption
<1>5. Cardinality(ids[r]) <= BatchSize
  BY <1>3, <1>4
<1> QED
  BY <1>2, <1>3, <1>4, <1>5

LEMMA SettledRows ==
  IInv => /\ IsFiniteSet(Covered) /\ IsFiniteSet(Sent) /\ Covered \subseteq Sent
          /\ Cardinality(Covered) \in Nat /\ Len(log) \in Nat /\ faults \in Nat
<1> SUFFICES ASSUME IInv
             PROVE  /\ IsFiniteSet(Covered) /\ IsFiniteSet(Sent) /\ Covered \subseteq Sent
                    /\ Cardinality(Covered) \in Nat /\ Len(log) \in Nat /\ faults \in Nat
  OBVIOUS
<1>1. Sent \subseteq Events /\ Covered \subseteq Sent
  BY DEF IInv, TypeOK, NoPhantom, NoLoss, InFlight, Covered
<1>2. IsFiniteSet(Sent) /\ IsFiniteSet(Covered)
  BY <1>1, EventsAssumption, FS_Subset
<1>3. Len(log) \in Nat /\ faults \in Nat
  BY MaxFaultsAssumption DEF IInv, TypeOK
<1> QED
  BY <1>1, <1>2, <1>3, FS_CardinalityType

CoveredCount ==
  IsFiniteSet(Covered) /\ Cardinality(Covered) \in Nat /\ Len(log) \in Nat

LEMMA SettledRowsNext ==
  IInv' => IsFiniteSet(Covered') /\ Cardinality(Covered') \in Nat /\ Len(log') \in Nat
<1>1. IInv => CoveredCount
  BY SettledRows DEF CoveredCount
<1>2. IInv' => CoveredCount'
  BY <1>1, PTL
<1> QED
  BY <1>2 DEF CoveredCount

LEMMA InitRepeats == Init => Locks /\ Paid
<1> SUFFICES ASSUME Init PROVE Locks /\ Paid
  OBVIOUS
<1>1. Exposed = {} /\ Covered = {} /\ Len(log) = 0 /\ faults = 0
  BY DEF Init, Exposed, AtStake, Covered
<1>2. Locks
  BY DEF Init, Locks, LeftOver
<1>3. IsFiniteSet({}) /\ Cardinality({}) = 0
  BY FS_EmptySet
<1>4. BatchSize * 0 = 0
  BY BatchSizeAssumption
<1>5. Paid
  BY <1>1, <1>3, <1>4 DEF Paid
<1> QED
  BY <1>2, <1>5

-----------------------------------------------------------------------------
(* The account after a step, by what the step does to it.                  *)

LEMMA StakeShrinks ==
  ASSUME NEW r \in Relays, OnlyRow(r), AtStake(r)' \subseteq AtStake(r)
  PROVE  Exposed' \subseteq Exposed
<1>1. \A q \in Relays : AtStake(q)' \subseteq AtStake(q)
  BY DEF OnlyRow, AtStake
<1> QED
  BY <1>1 DEF Exposed

LEMMA ExposedShrinks ==
  ASSUME Paid, Exposed' \subseteq Exposed
  PROVE  /\ IsFiniteSet(Exposed') /\ Cardinality(Exposed') <= Cardinality(Exposed)
         /\ Cardinality(Exposed) \in Nat /\ Cardinality(Exposed') \in Nat
<1>1. IsFiniteSet(Exposed') /\ Cardinality(Exposed') <= Cardinality(Exposed)
  BY FS_Subset DEF Paid
<1> QED
  BY <1>1, FS_CardinalityType DEF Paid

(* Nothing is sent, and settled rows stay so.                              *)
LEMMA PaidQuiet ==
  ASSUME IInv, IInv', Paid, Exposed' \subseteq Exposed, Covered \subseteq Covered',
         log' = log, faults' = faults \/ faults' = faults + 1
  PROVE  Paid'
<1>1. Cardinality(Covered) <= Cardinality(Covered')
  BY SettledRowsNext, FS_Subset
<1>2. /\ Cardinality(Covered) \in Nat /\ Cardinality(Covered') \in Nat
      /\ Len(log) \in Nat /\ faults \in Nat /\ BatchSize \in Nat
  BY SettledRows, SettledRowsNext, BatchSizeAssumption
<1>3. BatchSize * faults \in Nat /\ BatchSize * faults' \in Nat
      /\ BatchSize * faults <= BatchSize * faults'
  BY <1>2, Budget
<1>4. Len(log') = Len(log)
  OBVIOUS
<1> QED
  BY <1>1, <1>2, <1>3, <1>4, ExposedShrinks DEF Paid

(* The account after a step that costs at most one batch.                  *)
LEMMA Account ==
  ASSUME NEW l \in Nat, NEW l2 \in Nat, NEW e \in Nat, NEW e2 \in Nat,
         NEW c \in Nat, NEW c2 \in Nat, NEW s \in Nat, NEW s2 \in Nat,
         NEW b \in Nat,
         l + e <= c + s, e2 <= e, s2 = s + b, l2 + c <= l + c2 + b
  PROVE  l2 + e2 <= c2 + s2
  OBVIOUS

(* A fault may repeat one message or unsettle one batch.                   *)
LEMMA PaidByFault ==
  ASSUME IInv, IInv', Paid, Exposed' \subseteq Exposed, faults' = faults + 1,
         NEW r \in Relays,
         \/ Covered' = Covered /\ Len(log') \in {Len(log), Len(log) + 1}
         \/ Covered \subseteq Covered' \cup ids[r] /\ log' = log
  PROVE  Paid'
<1>1. /\ Cardinality(Covered) \in Nat /\ Cardinality(Covered') \in Nat
      /\ Len(log) \in Nat /\ faults \in Nat /\ BatchSize \in Nat /\ BatchSize > 0
  BY SettledRows, SettledRowsNext, BatchSizeAssumption
<1>2. BatchSize * faults \in Nat
      /\ BatchSize * faults' = BatchSize * faults + BatchSize
  BY <1>1, Budget
<1>3. BatchSize * faults' \in Nat
  BY <1>1, <1>2
<1>4. ASSUME Len(log') \in Nat,
             Len(log') + Cardinality(Covered)
               <= Len(log) + Cardinality(Covered') + BatchSize
      PROVE  Paid'
  <2>1. Len(log) + Cardinality(Exposed) <= Cardinality(Covered) + BatchSize * faults
    BY DEF Paid
  <2>2. Len(log') + Cardinality(Exposed')
          <= Cardinality(Covered') + BatchSize * faults'
    BY <1>1, <1>2, <1>3, <1>4, <2>1, ExposedShrinks, Account
  <2> QED
    BY <2>2, ExposedShrinks DEF Paid
<1>5. CASE Covered' = Covered /\ Len(log') \in {Len(log), Len(log) + 1}
  <2>1. Cardinality(Covered') = Cardinality(Covered)
    BY <1>5
  <2>2. Len(log') <= Len(log) + 1 /\ Len(log') \in Nat
    BY <1>1, <1>5
  <2>3. Len(log') + Cardinality(Covered)
          <= Len(log) + Cardinality(Covered') + BatchSize
    BY <1>1, <2>1, <2>2
  <2> QED
    BY <1>4, <2>2, <2>3
<1>6. CASE Covered \subseteq Covered' \cup ids[r] /\ log' = log
  <2>1. /\ IsFiniteSet(Covered' \cup ids[r])
        /\ Cardinality(Covered' \cup ids[r]) <= Cardinality(Covered') + Cardinality(ids[r])
    BY SettledRowsNext, RowSets, UnionCardinality
  <2>2. /\ Cardinality(Covered) <= Cardinality(Covered' \cup ids[r])
        /\ Cardinality(Covered' \cup ids[r]) \in Nat
    BY <1>6, <2>1, FS_Subset, FS_CardinalityType
  <2>3. Cardinality(ids[r]) \in Nat /\ Cardinality(ids[r]) <= BatchSize
    BY RowSets
  <2>4. Len(log') = Len(log)
    BY <1>6
  <2>5. Cardinality(Covered) <= Cardinality(Covered') + BatchSize
    BY <1>1, <2>1, <2>2, <2>3
  <2>6. Len(log') + Cardinality(Covered)
          <= Len(log) + Cardinality(Covered') + BatchSize
    BY <1>1, <2>4, <2>5
  <2> QED
    BY <1>1, <1>4, <2>4, <2>6
<1> QED
  BY <1>5, <1>6

(* A publish that is answered settles its row.                             *)
LEMMA PaidPublish ==
  ASSUME IInv, IInv', Locks, Paid, NEW r \in Relays, Publish(r)
  PROVE  Paid'
<1>1. PICK m \in msgs[r] \ ids[r] :
        log' = Append(log, m) /\ ids' = [ids EXCEPT ![r] = @ \cup {m}]
  BY DEF Publish
<1>2. /\ UNCHANGED <<published, cancelled, msgs, writer, faults>>
      /\ pc[r] = "publish" /\ pc' = [pc EXCEPT ![r] = pc'[r]]
      /\ pc'[r] \in {"mark", "publish"}
  BY DEF Publish, Goto, IInv, TypeOK
<1>3. \A q \in Relays : /\ ids'[q] = IF q = r THEN ids[r] \cup {m} ELSE ids[q]
                        /\ ids[q] \subseteq msgs[q]
  BY <1>1 DEF IInv, TypeOK
<1>4. OnlyRow(r)
  BY <1>2, <1>3 DEF OnlyRow, IInv, TypeOK
<1>5. AtStake(r)' \subseteq AtStake(r)
  BY <1>1, <1>2, <1>3 DEF AtStake
<1>6. Exposed' \subseteq Exposed
  BY <1>4, <1>5, StakeShrinks
<1>7. m \notin Covered /\ Covered' = Covered \cup {m}
  BY <1>1, <1>2, <1>3 DEF Covered, Locks
<1>8. Cardinality(Covered') = Cardinality(Covered) + 1
  BY <1>7, SettledRows, FS_AddElement
<1>9. m \in Events /\ log \in Seq(Events)
  BY DEF IInv, TypeOK
<1>10. Len(log') = Len(log) + 1
  BY <1>1, <1>9, RangeAppend
<1>11. Cardinality(Covered) \in Nat /\ Len(log) \in Nat /\ BatchSize * faults \in Nat
       /\ faults' = faults
  BY <1>2, SettledRows, Budget
<1> QED
  BY <1>6, <1>8, <1>10, <1>11, ExposedShrinks DEF Paid

(* SIGTERM puts one batch at stake.                                        *)
LEMMA PaidCancel ==
  ASSUME IInv, IInv', Paid, Locks, NEW r \in Relays, Cancel(r)
  PROVE  Paid'
<1>1. /\ UNCHANGED <<published, pc, msgs, ids, writer, log>>
      /\ faults' = faults + 1 /\ ~cancelled[r]
      /\ cancelled' = [cancelled EXCEPT ![r] = TRUE]
  BY DEF Cancel, Disturb, batchVars
<1>2. \A q \in Relays : q # r => AtStake(q)' = AtStake(q)
  BY <1>1 DEF AtStake, IInv, TypeOK
<1>3. AtStake(r)' \subseteq msgs[r]
  BY <1>1 DEF AtStake, Locks, LeftOver, IInv, TypeOK
<1>4. Exposed' \subseteq Exposed \cup ({r} \X msgs[r])
  <2> SUFFICES ASSUME NEW p \in Exposed' PROVE p \in Exposed \cup ({r} \X msgs[r])
    OBVIOUS
  <2>1. p \in Relays \X Events /\ p[2] \in AtStake(p[1])'
    BY DEF Exposed
  <2>2. CASE p[1] = r
    BY <1>3, <2>1, <2>2
  <2>3. CASE p[1] # r
    BY <1>2, <2>1, <2>3 DEF Exposed
  <2> QED
    BY <2>2, <2>3
<1>5. /\ IsFiniteSet({r} \X msgs[r])
      /\ Cardinality({r} \X msgs[r]) = Cardinality(msgs[r])
  BY RowSets, PairsCardinality
<1>6. /\ IsFiniteSet(Exposed \cup ({r} \X msgs[r]))
      /\ Cardinality(Exposed \cup ({r} \X msgs[r]))
           <= Cardinality(Exposed) + Cardinality({r} \X msgs[r])
  BY <1>5, UnionCardinality DEF Paid
<1>7. /\ IsFiniteSet(Exposed')
      /\ Cardinality(Exposed') <= Cardinality(Exposed \cup ({r} \X msgs[r]))
  BY <1>4, <1>6, FS_Subset
<1>8. /\ Cardinality(Exposed) \in Nat /\ Cardinality(Exposed') \in Nat
      /\ Cardinality(Exposed \cup ({r} \X msgs[r])) \in Nat
  BY <1>6, <1>7, FS_CardinalityType DEF Paid
<1>9. Covered' = Covered /\ Len(log') = Len(log)
  BY <1>1 DEF Covered
<1>10. Cardinality(Covered') = Cardinality(Covered)
  BY <1>9
<1>11. /\ Cardinality(Covered) \in Nat /\ Len(log) \in Nat /\ BatchSize \in Nat
       /\ BatchSize * faults \in Nat
       /\ BatchSize * faults' = BatchSize * faults + BatchSize
  BY <1>1, SettledRows, Budget, BatchSizeAssumption
<1>12. Cardinality(msgs[r]) \in Nat /\ Cardinality(msgs[r]) <= BatchSize
  BY RowSets
<1> QED
  BY <1>5, <1>6, <1>7, <1>8, <1>9, <1>10, <1>11, <1>12 DEF Paid

(* Run gives its counted rows up: they were at stake.                      *)
LEMMA PaidReturn ==
  ASSUME IInv, IInv', Paid, Locks, NEW r \in Relays, RunReturns(r)
  PROVE  Paid'
<1>1. /\ UNCHANGED <<published, cancelled, writer, log, faults>>
      /\ cancelled[r] /\ pc[r] # "publish"
      /\ pc' = [pc EXCEPT ![r] = "returned"]
      /\ msgs' = [msgs EXCEPT ![r] = {}] /\ ids' = [ids EXCEPT ![r] = {}]
  BY DEF RunReturns, EndTx, Goto
<1>2. OnlyRow(r) /\ ids'[r] = {} /\ pc'[r] = "returned"
  BY <1>1 DEF OnlyRow, IInv, TypeOK
<1>3. /\ AtStake(r) = ids[r] \cup writer[r] /\ AtStake(r)' = writer[r]
      /\ writer[r] \cap ids[r] = {}
  BY <1>1, <1>2 DEF AtStake, Locks, LeftOver
<1>4. Exposed' \subseteq Exposed
  BY <1>2, <1>3, StakeShrinks
<1>5. Exposed' \cap ({r} \X ids[r]) = {}
  BY <1>3 DEF Exposed
<1>6. {r} \X ids[r] \subseteq Exposed
  <2>1. ids[r] \subseteq Events
    BY DEF IInv, TypeOK
  <2> QED
    BY <1>3, <2>1 DEF Exposed
<1>7. /\ IsFiniteSet({r} \X ids[r])
      /\ Cardinality({r} \X ids[r]) = Cardinality(ids[r])
  BY RowSets, PairsCardinality
<1>8. /\ IsFiniteSet(Exposed' \cup ({r} \X ids[r]))
      /\ Cardinality(Exposed' \cup ({r} \X ids[r]))
           = Cardinality(Exposed') + Cardinality({r} \X ids[r])
  BY <1>4, <1>5, <1>7, ExposedShrinks, UnionCardinality
<1>9. Cardinality(Exposed' \cup ({r} \X ids[r])) <= Cardinality(Exposed)
  <2>1. Exposed' \cup ({r} \X ids[r]) \subseteq Exposed
    BY <1>4, <1>6
  <2> QED
    BY <2>1, FS_Subset DEF Paid
<1>10. Covered \subseteq Covered' \cup ids[r]
  BY <1>1, <1>2 DEF Covered, OnlyRow
<1>11. /\ IsFiniteSet(Covered' \cup ids[r])
       /\ Cardinality(Covered' \cup ids[r]) <= Cardinality(Covered') + Cardinality(ids[r])
  BY SettledRowsNext, RowSets, UnionCardinality
<1>12. /\ Cardinality(Covered) <= Cardinality(Covered' \cup ids[r])
       /\ Cardinality(Covered' \cup ids[r]) \in Nat
  BY <1>10, <1>11, FS_Subset, FS_CardinalityType
<1>13. /\ Cardinality(Covered) \in Nat /\ Cardinality(Covered') \in Nat
       /\ Len(log) \in Nat /\ BatchSize * faults \in Nat
       /\ Len(log') = Len(log) /\ faults' = faults
       /\ Cardinality(ids[r]) \in Nat
  BY <1>1, SettledRows, SettledRowsNext, Budget, RowSets
<1>14. /\ IsFiniteSet(Exposed')
       /\ Cardinality(Exposed) \in Nat /\ Cardinality(Exposed') \in Nat
  BY <1>4, ExposedShrinks
<1> QED
  BY <1>7, <1>8, <1>9, <1>11, <1>12, <1>13, <1>14 DEF Paid

(* So was the message the writer sends after all.                          *)
LEMMA PaidFlush ==
  ASSUME IInv, IInv', Paid, Locks, NEW r \in Relays, WriterFlush(r)
  PROVE  Paid'
<1>1. /\ UNCHANGED <<published, pc, cancelled, msgs, ids, faults>>
      /\ writer' = [writer EXCEPT ![r] = {}]
  BY DEF WriterFlush, batchVars
<1>2. PICK m \in writer[r] : log' = Append(log, m)
  BY DEF WriterFlush
<1>3. OnlyRow(r) /\ writer'[r] = {}
  BY <1>1 DEF OnlyRow, IInv, TypeOK
<1>4. /\ AtStake(r) = ids[r] \cup writer[r] /\ AtStake(r)' = ids[r]
      /\ m \notin ids[r] /\ m \in Events
  <2>1. cancelled[r] /\ pc[r] # "publish" /\ m \notin ids[r]
    BY <1>2 DEF Locks, LeftOver
  <2>2. m \in Events
    BY <1>2 DEF IInv, TypeOK
  <2> QED
    BY <1>1, <1>3, <2>1, <2>2 DEF AtStake
<1>5. Exposed' \subseteq Exposed
  BY <1>3, <1>4, StakeShrinks
<1>6. Exposed' \subseteq Exposed \ {<<r, m>>} /\ <<r, m>> \in Exposed
  BY <1>4, <1>5 DEF Exposed
<1>7. /\ IsFiniteSet(Exposed \ {<<r, m>>})
      /\ Cardinality(Exposed \ {<<r, m>>}) = Cardinality(Exposed) - 1
  BY <1>6, FS_RemoveElement DEF Paid
<1>8. /\ IsFiniteSet(Exposed')
      /\ Cardinality(Exposed') <= Cardinality(Exposed \ {<<r, m>>})
  BY <1>6, <1>7, FS_Subset
<1>9. Cardinality(Exposed) \in Nat /\ Cardinality(Exposed') \in Nat
  BY <1>5, ExposedShrinks
<1>10. log \in Seq(Events)
  BY DEF IInv, TypeOK
<1>11. Len(log') = Len(log) + 1
  BY <1>2, <1>4, <1>10, RangeAppend
<1>12. Covered' = Covered /\ faults' = faults
  BY <1>1 DEF Covered
<1>13. Cardinality(Covered') = Cardinality(Covered)
  BY <1>12
<1>14. Cardinality(Covered) \in Nat /\ Len(log) \in Nat /\ BatchSize * faults \in Nat
  BY SettledRows, Budget
<1> QED
  BY <1>7, <1>8, <1>9, <1>11, <1>12, <1>13, <1>14 DEF Paid

-----------------------------------------------------------------------------
(* Steps that keep the locks and the account.                              *)

(* A batch that shrinks, or is marked and let go.                          *)
LEMMA LocksStep ==
  ASSUME IInv, Locks, NEW r \in Relays, OnlyRow(r),
         msgs'[r] \subseteq msgs[r], published' \subseteq published \cup ids[r],
         published' = published \/ msgs'[r] = {}, LeftOver(r)'
  PROVE  Locks'
<1>1. ids[r] \subseteq msgs[r]
  BY DEF IInv, TypeOK
<1>2. \A q \in Relays : msgs'[q] \cap published' = {}
  BY <1>1 DEF Locks, OnlyRow
<1>3. \A q \in Relays : LeftOver(q)'
  BY DEF Locks, LeftOver, OnlyRow
<1>4. \A p, q \in Relays : p # q => msgs'[p] \cap msgs'[q] = {}
  BY DEF Locks, OnlyRow
<1> QED
  BY <1>2, <1>3, <1>4 DEF Locks

(* Tick and Restart; a claim takes rows nobody holds.                      *)
LEMMA StartRepeats ==
  ASSUME IInv, IInv', Locks, Paid, NEW r \in Relays,
         Tick(r) \/ ClaimFails(r) \/ Restart(r) \/ Claim(r)
  PROVE  Locks' /\ Paid'
<1>1. /\ UNCHANGED <<published, cancelled, ids, writer, log>>
      /\ pc' = [pc EXCEPT ![r] = pc'[r]] /\ pc[r] \in {"down", "idle", "claim"}
      /\ pc'[r] = "publish" => ~cancelled[r]
      /\ faults' = faults \/ faults' = faults + 1
      /\ \E B \in SUBSET Events :
           /\ msgs' = [msgs EXCEPT ![r] = B]
           /\ B \cap published = {} /\ \A q \in Relays \ {r} : B \cap msgs[q] = {}
  <2>1. CASE Tick(r) \/ ClaimFails(r) \/ Restart(r)
    <3>1. /\ UNCHANGED <<published, cancelled, ids, writer, log, msgs>>
          /\ pc[r] \in {"down", "idle", "claim"}
          /\ \E l \in {"claim", "idle"} : pc' = [pc EXCEPT ![r] = l]
          /\ faults' = faults \/ faults' = faults + 1
      BY <2>1 DEF Tick, ClaimFails, Restart, Goto, Disturb, batchVars
    <3>2. msgs' = [msgs EXCEPT ![r] = msgs[r]] /\ msgs[r] \in SUBSET Events
      BY <3>1 DEF IInv, TypeOK
    <3>3. pc' = [pc EXCEPT ![r] = pc'[r]] /\ pc'[r] # "publish"
      BY <3>1 DEF IInv, TypeOK
    <3>4. msgs[r] \cap published = {} /\ \A q \in Relays \ {r} : msgs[r] \cap msgs[q] = {}
      BY DEF Locks
    <3> QED
      BY <3>1, <3>2, <3>3, <3>4
  <2>2. CASE Claim(r)
    <3>1. PICK B \in SUBSET Events :
            /\ IsBatch(B) /\ msgs' = [msgs EXCEPT ![r] = B]
            /\ Goto(r, IF B = {} THEN "idle" ELSE "publish")
      BY <2>2 DEF Claim
    <3>2. B \cap published = {} /\ \A q \in Relays : B \cap msgs[q] = {}
      BY <3>1 DEF IsBatch, Claimable, Pending, Locked
    <3>3. /\ UNCHANGED <<published, cancelled, ids, writer, log, faults>>
          /\ pc[r] = "claim" /\ ~cancelled[r]
      BY <2>2 DEF Claim
    <3> QED
      BY <3>1, <3>2, <3>3 DEF Goto, IInv, TypeOK
  <2> QED
    BY <2>1, <2>2
<1>2. PICK B \in SUBSET Events :
        /\ msgs' = [msgs EXCEPT ![r] = B]
        /\ B \cap published = {} /\ \A q \in Relays \ {r} : B \cap msgs[q] = {}
  BY <1>1
<1>3. OnlyRow(r) /\ msgs'[r] = B
  BY <1>1, <1>2 DEF OnlyRow, IInv, TypeOK
<1>4. writer[r] = {}
  BY <1>1 DEF Locks, LeftOver
<1>5. Locks'
  <2>1. \A q \in Relays : LeftOver(q)'
    BY <1>1, <1>3, <1>4 DEF Locks, LeftOver, OnlyRow
  <2>2. \A q \in Relays : msgs'[q] \cap published' = {}
    BY <1>1, <1>2, <1>3 DEF Locks, OnlyRow
  <2>3. \A p, q \in Relays : p # q => msgs'[p] \cap msgs'[q] = {}
    BY <1>2, <1>3 DEF Locks, OnlyRow
  <2> QED
    BY <2>1, <2>2, <2>3 DEF Locks
<1>6. AtStake(r)' \subseteq AtStake(r)
  BY <1>1 DEF AtStake
<1>7. Exposed' \subseteq Exposed
  BY <1>3, <1>6, StakeShrinks
<1>8. Covered' = Covered
  BY <1>1 DEF Covered
<1> QED
  BY <1>1, <1>5, <1>7, <1>8, PaidQuiet

LEMMA PublishRepeats ==
  ASSUME IInv, IInv', Locks, Paid, NEW r \in Relays,
         Publish(r) \/ PublishFails(r) \/ PublishCancelled(r)
  PROVE  Locks' /\ Paid'
<1>1. /\ UNCHANGED <<published, cancelled, msgs>> /\ pc[r] = "publish"
      /\ \E l \in {"publish", "mark"} : pc' = [pc EXCEPT ![r] = l]
  BY DEF Publish, PublishFails, PublishCancelled, BreakOn, Goto
<1>2. writer[r] = {}
  BY <1>1 DEF Locks, LeftOver
<1>3. /\ ids'[r] \subseteq msgs[r]
      /\ \A q \in Relays : q # r => ids'[q] = ids[q] /\ writer'[q] = writer[q]
      /\ \/ writer'[r] = {}
         \/ /\ cancelled[r] /\ pc'[r] = "mark" /\ ids'[r] = ids[r]
            /\ writer'[r] \subseteq msgs[r] \ ids[r]
  <2>1. CASE Publish(r)
    BY <1>2, <2>1 DEF Publish, IInv, TypeOK
  <2>2. CASE PublishFails(r)
    BY <1>2, <2>2 DEF PublishFails, IInv, TypeOK
  <2>3. CASE PublishCancelled(r)
    BY <1>2, <2>3 DEF PublishCancelled, BreakOn, Goto, IInv, TypeOK
  <2> QED
    BY <2>1, <2>2, <2>3
<1>4. OnlyRow(r) /\ pc'[r] \in {"publish", "mark"}
  BY <1>1, <1>3 DEF OnlyRow, IInv, TypeOK
<1>5. LeftOver(r)'
  BY <1>1, <1>3, <1>4 DEF LeftOver
<1>6. Locks'
  BY <1>1, <1>4, <1>5, LocksStep
<1>7. AtStake(r)' \subseteq AtStake(r)
  BY <1>1, <1>3, <1>4 DEF AtStake
<1>8. Exposed' \subseteq Exposed
  BY <1>4, <1>7, StakeShrinks
<1>9. CASE Publish(r)
  BY <1>6, <1>9, PaidPublish
<1>10. CASE PublishFails(r)
  <2>1. PICK m \in msgs[r] \ ids[r] : log' \in {log, Append(log, m)}
    BY <1>10 DEF PublishFails
  <2>2. m \in Events /\ log \in Seq(Events)
    BY DEF IInv, TypeOK
  <2>3. Len(log') \in {Len(log), Len(log) + 1}
    BY <2>1, <2>2, RangeAppend
  <2>4. Covered' = Covered /\ faults' = faults + 1
    BY <1>10 DEF PublishFails, Disturb, Covered
  <2> QED
    BY <1>6, <1>8, <2>3, <2>4, PaidByFault
<1>11. CASE PublishCancelled(r)
  <2>1. Covered' = Covered /\ faults' = faults /\ log' = log
    BY <1>11 DEF PublishCancelled, Covered
  <2> QED
    BY <1>6, <1>8, <2>1, PaidQuiet
<1> QED
  BY <1>9, <1>10, <1>11

(* Mark, its failure, a return and a crash: the batch is let go.           *)
LEMMA EndRepeats ==
  ASSUME IInv, IInv', Locks, Paid, NEW r \in Relays,
         Mark(r) \/ MarkFails(r) \/ RunReturns(r) \/ Crash(r)
  PROVE  Locks' /\ Paid'
<1>1. /\ msgs' = [msgs EXCEPT ![r] = {}] /\ ids' = [ids EXCEPT ![r] = {}]
      /\ \E l \in PcStates : pc' = [pc EXCEPT ![r] = l]
      /\ log' = log
      /\ published' \in {published, published \cup ids[r]}
      /\ cancelled' \in {cancelled, [cancelled EXCEPT ![r] = FALSE]}
      /\ writer' \in {writer, [writer EXCEPT ![r] = {}]}
  <2>1. AfterBatch(r) \in PcStates
    BY DEF AfterBatch, PcStates
  <2>2. "idle" \in PcStates /\ "returned" \in PcStates /\ "down" \in PcStates
    BY DEF PcStates
  <2> QED
    BY <2>1, <2>2 DEF Mark, MarkFails, RunReturns, Crash, ProcessGone, EndTx, MarkedRows, Goto
<1>2. OnlyRow(r) /\ msgs'[r] = {} /\ ids'[r] = {}
  BY <1>1 DEF OnlyRow, IInv, TypeOK
<1>3. LeftOver(r)' /\ pc'[r] # "publish"
  <2>1. CASE Mark(r) \/ MarkFails(r)
    <3>1. ~cancelled[r] /\ writer' = writer
      BY <2>1 DEF Mark, MarkFails
    <3>2. writer'[r] = {}
      BY <3>1 DEF Locks, LeftOver
    <3>3. AfterBatch(r) # "publish"
      BY DEF AfterBatch
    <3>4. pc'[r] # "publish"
      BY <2>1, <3>3 DEF Mark, MarkFails, Goto, IInv, TypeOK
    <3> QED
      BY <3>2, <3>4 DEF LeftOver
  <2>2. CASE RunReturns(r)
    <3>1. cancelled'[r] /\ pc'[r] = "returned"
      BY <2>2 DEF RunReturns, Goto, IInv, TypeOK
    <3> QED
      BY <1>2, <3>1 DEF LeftOver
  <2>3. CASE Crash(r)
    <3>1. writer'[r] = {} /\ pc'[r] = "down"
      BY <2>3 DEF Crash, ProcessGone, Goto, IInv, TypeOK
    <3> QED
      BY <3>1 DEF LeftOver
  <2> QED
    BY <2>1, <2>2, <2>3
<1>4. Locks'
  <2>1. msgs'[r] \subseteq msgs[r] /\ published' \subseteq published \cup ids[r]
    BY <1>1, <1>2
  <2> QED
    BY <1>2, <1>3, <2>1, LocksStep
<1>5. AtStake(r)' \subseteq AtStake(r)
  <2>1. AtStake(r)' \subseteq writer[r]
    BY <1>1, <1>2, <1>3 DEF AtStake, IInv, TypeOK
  <2>2. writer[r] \subseteq AtStake(r)
    BY DEF AtStake, Locks, LeftOver
  <2> QED
    BY <2>1, <2>2
<1>6. Exposed' \subseteq Exposed
  BY <1>2, <1>5, StakeShrinks
<1>7. CASE Mark(r)
  <2>1. published' = published \cup ids[r] /\ faults' = faults
    BY <1>7 DEF Mark, MarkedRows
  <2>2. Covered \subseteq Covered'
    BY <1>2, <2>1 DEF Covered, OnlyRow
  <2> QED
    BY <1>1, <1>4, <1>6, <2>1, <2>2, PaidQuiet
<1>8. CASE MarkFails(r) \/ Crash(r)
  <2>1. faults' = faults + 1
    BY <1>8 DEF MarkFails, Crash, Disturb
  <2>2. Covered \subseteq Covered' \cup ids[r]
    BY <1>1, <1>2 DEF Covered, OnlyRow
  <2> QED
    BY <1>1, <1>4, <1>6, <2>1, <2>2, PaidByFault
<1>9. CASE RunReturns(r)
  BY <1>4, <1>9, PaidReturn
<1> QED
  BY <1>7, <1>8, <1>9

(* The process around the relay.                                           *)
LEMMA ProcessRepeats ==
  ASSUME IInv, IInv', Locks, Paid, NEW r \in Relays,
         Cancel(r) \/ WriterFlush(r) \/ Exit(r)
  PROVE  Locks' /\ Paid'
<1>1. UNCHANGED <<published, msgs, ids>>
  BY DEF Cancel, WriterFlush, Exit, batchVars
<1>2. OnlyRow(r) /\ LeftOver(r)'
  <2>1. CASE Cancel(r)
    <3>1. /\ UNCHANGED <<pc, msgs, ids, writer>> /\ ~cancelled[r]
          /\ cancelled' = [cancelled EXCEPT ![r] = TRUE]
      BY <2>1 DEF Cancel, batchVars
    <3> QED
      BY <3>1 DEF OnlyRow, LeftOver, Locks, IInv, TypeOK
  <2>2. CASE WriterFlush(r)
    <3>1. /\ UNCHANGED <<pc, msgs, ids, cancelled>>
          /\ writer' = [writer EXCEPT ![r] = {}]
      BY <2>2 DEF WriterFlush, batchVars
    <3> QED
      BY <3>1 DEF OnlyRow, LeftOver, IInv, TypeOK
  <2>3. CASE Exit(r)
    BY <2>3 DEF Exit, ProcessGone, Goto, batchVars, OnlyRow, LeftOver, IInv, TypeOK
  <2> QED
    BY <2>1, <2>2, <2>3
<1>3. Locks'
  BY <1>1, <1>2, LocksStep
<1>4. CASE Exit(r)
  <2>1. AtStake(r)' = {}
    BY <1>4 DEF Exit, ProcessGone, AtStake, IInv, TypeOK
  <2>2. Exposed' \subseteq Exposed
    BY <1>2, <2>1, StakeShrinks
  <2>3. Covered' = Covered /\ log' = log /\ faults' = faults
    BY <1>1, <1>4 DEF Exit, Covered
  <2> QED
    BY <1>3, <2>2, <2>3, PaidQuiet
<1> QED
  BY <1>3, <1>4, PaidCancel, PaidFlush

LEMMA NextRepeats == IInv /\ IInv' /\ Locks /\ Paid /\ [Next]_vars => Locks' /\ Paid'
<1> SUFFICES ASSUME IInv, IInv', Locks, Paid, [Next]_vars PROVE Locks' /\ Paid'
  OBVIOUS
<1>1. ASSUME UNCHANGED <<published, pc, cancelled, msgs, ids, writer, log, faults>>
      PROVE  Locks' /\ Paid'
  BY <1>1 DEF Locks, LeftOver, Paid, Exposed, AtStake, Covered
<1>2. ASSUME NEW e \in Events, TxStep(e) PROVE Locks' /\ Paid'
  BY <1>1, <1>2 DEF TxStep, InsertDomainRow, Enqueue, Commit, Rollback, relayVars, batchVars
<1>3. CASE UNCHANGED vars
  BY <1>1, <1>3 DEF vars, batchVars
<1>4. ASSUME NEW r \in Relays,
             \/ RelayStep(r) \/ Disturbance(r)
             \/ WriterFlush(r) \/ Exit(r) \/ Restart(r)
      PROVE  Locks' /\ Paid'
  BY <1>4, StartRepeats, PublishRepeats, EndRepeats, ProcessRepeats
  DEF RelayStep, Disturbance
<1> QED
  BY <1>2, <1>3, <1>4 DEF Next

(* A failure, shutdown or crash repeats one batch at most, whatever the    *)
(* other relays do meanwhile with the rows it gave up.                     *)
THEOREM RepeatsBounded == Spec => []DuplicatesBounded
<1>1. IInv /\ Paid => DuplicatesBounded
  <2> SUFFICES ASSUME IInv, Paid PROVE DuplicatesBounded
    OBVIOUS
  <2>1. /\ IsFiniteSet(Sent) /\ Covered \subseteq Sent /\ Cardinality(Covered) \in Nat
        /\ Len(log) \in Nat /\ faults \in Nat
    BY SettledRows
  <2>2. Cardinality(Covered) <= Cardinality(Sent) /\ Cardinality(Sent) \in Nat
    BY <2>1, FS_Subset, FS_CardinalityType
  <2>3. Cardinality(Exposed) \in Nat
    BY FS_CardinalityType DEF Paid
  <2>4. BatchSize * faults \in Nat
    BY <2>1, Budget
  <2> QED
    BY <2>1, <2>2, <2>3, <2>4 DEF Paid, DuplicatesBounded
<1>2. Init => Locks /\ Paid
  BY InitRepeats
<1> QED
  BY <1>1, <1>2, NextRepeats, Invariance, PTL DEF Spec

-----------------------------------------------------------------------------
(* What the broker has after a message.                                    *)
LEMMA SentAppend ==
  ASSUME log \in Seq(Events), NEW m \in Events, log' = Append(log, m)
  PROVE  Sent' = Sent \cup {m}
  BY RangeAppend DEF Sent

(* What one relay alone achieves: order, and a tick that drains.           *)

(* The id of a row is settled before others see it.                        *)
Visible == (\A e \in outbox : tx[e] = "committed") /\ stalled \subseteq outbox

(* A row whose publish failed and that is still unsent is in the relay's   *)
(* batch or behind it, and not before the message left with its writer.    *)
InOrder ==
  \A r \in Relays, f \in stalled \ Sent :
    /\ \A e \in msgs[r] : f \in msgs[r] \/ id[e] < id[f]
    /\ \A m \in writer[r] : id[m] <= id[f]

(* A batch below its LIMIT is everything the tick found and that is left,  *)
(* and the loop leaves none of it out unless a publish fails.              *)
Draining ==
  \A r \in Relays :
    /\ backlog[r] \subseteq outbox
    /\ pc[r] \in {"publish", "mark"} =>
         Cardinality(msgs[r]) = BatchSize \/ backlog[r] \subseteq published \cup msgs[r]
    /\ pc[r] = "mark" /\ ~publishErr[r] => ids[r] = msgs[r]

AloneInv == Visible /\ InOrder /\ Draining

(* API transactions change no id a relay has seen.                         *)
LEMMA TxAlone ==
  ASSUME IInv, AloneInv, NEW e \in Events, TxStep(e)
  PROVE  AloneInv'
<1>1. /\ UNCHANGED <<published, pc, msgs, ids, publishErr, writer, log, backlog, stalled>>
      /\ Sent' = Sent /\ outbox \subseteq outbox'
  BY DEF TxStep, InsertDomainRow, Enqueue, Commit, Rollback, relayVars, batchVars, Sent
<1>2. \A f \in outbox : id'[f] = id[f] /\ tx'[f] = "committed"
  BY DEF AloneInv, Visible, TxStep, InsertDomainRow, Enqueue, DrawId, Commit, Rollback,
         IInv, TypeOK
<1>3. \A f \in outbox' : tx'[f] = "committed"
  BY <1>2 DEF TxStep, InsertDomainRow, Enqueue, Commit, Rollback, IInv, TypeOK
<1>4. \A r \in Relays : msgs[r] \subseteq outbox /\ writer[r] \subseteq outbox
  BY DEF IInv, InFlight
<1>5. Visible'
  BY <1>1, <1>3 DEF AloneInv, Visible
<1>6. InOrder'
  BY <1>1, <1>2, <1>4 DEF AloneInv, InOrder, Visible
<1>7. Draining'
  BY <1>1 DEF AloneInv, Draining
<1> QED
  BY <1>5, <1>6, <1>7 DEF AloneInv

(* A claim by the only relay sees every pending row.                       *)
LEMMA ClaimAlone ==
  ASSUME IInv, AloneInv, Locks, NEW r, Relays = {r}, Claim(r)
  PROVE  AloneInv'
<1>1. PICK B \in SUBSET Events :
        /\ IsBatch(B) /\ msgs' = [msgs EXCEPT ![r] = B]
        /\ Goto(r, IF B = {} THEN "idle" ELSE "publish")
  BY DEF Claim
<1>2. /\ UNCHANGED <<tx, id, outbox, published, log, stalled, backlog, writer>>
      /\ Sent' = Sent /\ pc[r] = "claim"
  BY DEF Claim, txVars, Sent
<1>3. msgs[r] = {} /\ writer[r] = {}
  BY <1>2 DEF IInv, TypeOK, Locks, LeftOver
<1>4. Claimable = outbox \ published
  BY <1>3 DEF Claimable, Pending, Locked
<1>5. msgs'[r] = B /\ pc'[r] # "mark"
  BY <1>1 DEF Goto, IInv, TypeOK
<1>6. InOrder'
  <2> SUFFICES ASSUME NEW f \in stalled \ Sent, NEW e \in B PROVE f \in B \/ id[e] < id[f]
    BY <1>2, <1>3, <1>5 DEF InOrder
  <2>1. f \in Claimable
    BY <1>4 DEF AloneInv, Visible, IInv, NoLoss
  <2> QED
    BY <1>1, <2>1 DEF IsBatch
<1>7. Draining'
  <2>1. backlog[r] \subseteq outbox
    BY DEF AloneInv, Draining
  <2>2. Cardinality(B) = BatchSize \/ outbox \ published = B
    BY <1>1, <1>4 DEF IsBatch
  <2> QED
    BY <1>2, <1>5, <2>1, <2>2 DEF Draining
<1> QED
  BY <1>2, <1>6, <1>7 DEF AloneInv, Visible

(* The loop publishes its rows in order, and gives up at the first error.  *)
LEMMA PublishAlone ==
  ASSUME IInv, AloneInv, Locks, NEW r, Relays = {r},
         Publish(r) \/ PublishFails(r) \/ PublishCancelled(r)
  PROVE  AloneInv'
<1>1. PICK m \in msgs[r] \ ids[r] :
        /\ IsNext(r, m)
        /\ \/ Publish(r) /\ log' = Append(log, m) /\ UNCHANGED <<stalled, writer>>
              /\ ids' = [ids EXCEPT ![r] = @ \cup {m}]
           \/ /\ BreakOn(r, m) /\ UNCHANGED ids /\ log' \in {log, Append(log, m)}
              /\ writer' \in {writer, [writer EXCEPT ![r] = {m}]}
  BY DEF Publish, PublishFails, PublishCancelled
<1>2. /\ UNCHANGED <<tx, id, outbox, published, msgs, backlog>> /\ pc[r] = "publish"
      /\ ids[r] \subseteq Sent /\ msgs[r] \subseteq outbox /\ msgs[r] \subseteq Events
  BY DEF Publish, PublishFails, PublishCancelled, txVars, IInv, InFlight, TypeOK
<1>3. writer[r] = {} /\ m \in Events /\ log \in Seq(Events)
  BY <1>2 DEF Locks, LeftOver, IInv, TypeOK
<1>4. Sent \subseteq Sent'
  <2>1. CASE log' = log
    BY <2>1 DEF Sent
  <2>2. CASE log' = Append(log, m)
    BY <1>3, <2>2, SentAppend
  <2> QED
    BY <1>1, <2>1, <2>2
<1>5. /\ stalled' \subseteq stalled \cup {m}
      /\ writer'[r] \subseteq {m}
  <2>1. r \in Relays /\ writer \in [Relays -> SUBSET Events]
    BY DEF IInv, TypeOK
  <2>2. writer'[r] = writer[r] \/ writer'[r] = {m}
    BY <1>1, <2>1
  <2>3. stalled' \subseteq stalled \cup {m}
    BY <1>1 DEF BreakOn
  <2> QED
    BY <1>3, <2>2, <2>3
<1>6. \A f \in stalled' \ Sent' : (f \in msgs[r] /\ id[m] <= id[f]) \/ id[m] < id[f]
  <2> SUFFICES ASSUME NEW f \in stalled' \ Sent'
               PROVE  (f \in msgs[r] /\ id[m] <= id[f]) \/ id[m] < id[f]
    OBVIOUS
  <2>1. CASE f = m
    BY <1>3, <2>1 DEF IInv, TypeOK
  <2>2. CASE f # m /\ f \in msgs[r]
    BY <1>1, <1>2, <1>4, <2>2 DEF IsNext
  <2>3. CASE f # m /\ f \notin msgs[r]
    BY <1>4, <1>5, <2>3 DEF AloneInv, InOrder
  <2> QED
    BY <2>1, <2>2, <2>3
<1>7. InOrder'
  <2> SUFFICES ASSUME NEW f \in stalled' \ Sent'
               PROVE  /\ \A e \in msgs[r] : f \in msgs[r] \/ id[e] < id[f]
                      /\ \A w \in writer'[r] : id[w] <= id[f]
    BY <1>2 DEF InOrder
  <2>1. \A e \in msgs[r] : f \in msgs[r] \/ id[e] < id[f]
    BY <1>4, <1>5 DEF AloneInv, InOrder
  <2>2. id[m] \in Nat /\ id[f] \in Nat
    <3>1. f \in Events
      BY <1>3, <1>5 DEF IInv, TypeOK
    <3> QED
      BY <1>3, <3>1 DEF IInv, TypeOK
  <2>3. \A w \in writer'[r] : id[w] <= id[f]
    BY <1>5, <1>6, <2>2
  <2> QED
    BY <2>1, <2>3
<1>8. Draining'
  <2>1. pc'[r] = "mark" /\ ~publishErr'[r] => ids'[r] = msgs[r]
    <3>1. CASE Publish(r)
      BY <1>2, <3>1 DEF Publish, Goto, IInv, TypeOK
    <3>2. CASE BreakOn(r, m)
      BY <3>2 DEF BreakOn, IInv, TypeOK
    <3> QED
      BY <1>1, <3>1, <3>2
  <2> QED
    BY <1>2, <2>1 DEF AloneInv, Draining
<1> QED
  BY <1>2, <1>5, <1>7, <1>8 DEF AloneInv, Visible

(* Marking is of whole batches, and what ends a batch leaves no order to   *)
(* keep but the writer's.                                                  *)
LEMMA RestAlone ==
  ASSUME IInv, AloneInv, Locks, NEW r, Relays = {r},
         \/ Tick(r) \/ Mark(r) \/ RunReturns(r) \/ ClaimFails(r) \/ MarkFails(r)
         \/ Cancel(r) \/ Crash(r) \/ WriterFlush(r) \/ Exit(r) \/ Restart(r)
  PROVE  AloneInv'
<1>1. /\ UNCHANGED <<tx, id, outbox, stalled>>
      /\ published \subseteq published' /\ Sent \subseteq Sent'
  <2>1. UNCHANGED <<tx, id, outbox, stalled>> /\ published \subseteq published'
    BY DEF Tick, Mark, RunReturns, ClaimFails, MarkFails, Cancel, Crash, WriterFlush,
           Exit, Restart, txVars
  <2>2. log' = log \/ \E m \in writer[r] : log' = Append(log, m)
    BY DEF Tick, Mark, RunReturns, ClaimFails, MarkFails, Cancel, Crash, WriterFlush,
           Exit, Restart
  <2>3. log \in Seq(Events) /\ writer[r] \subseteq Events
    BY DEF IInv, TypeOK
  <2>4. Sent \subseteq Sent'
    <3>1. CASE log' = log
      BY <3>1 DEF Sent
    <3>2. ASSUME NEW m \in writer[r], log' = Append(log, m) PROVE Sent \subseteq Sent'
      BY <2>3, <3>2, SentAppend
    <3> QED
      BY <2>2, <3>1, <3>2
  <2> QED
    BY <2>1, <2>4
<1>2. /\ msgs'[r] \in {{}, msgs[r]} /\ writer'[r] \in {{}, writer[r]}
      /\ \/ pc'[r] \notin {"publish", "mark"}
         \/ UNCHANGED <<pc, msgs, ids, publishErr>>
      /\ backlog'[r] = backlog[r] \/ backlog'[r] = Pending
  <2>1. CASE Tick(r)
    BY <2>1 DEF Tick, Goto, batchVars, IInv, TypeOK
  <2>2. CASE ClaimFails(r) \/ Restart(r)
    BY <2>2 DEF ClaimFails, Restart, Goto, batchVars, IInv, TypeOK
  <2>3. CASE Mark(r) \/ MarkFails(r)
    <3>1. AfterBatch(r) \notin {"publish", "mark"}
      BY DEF AfterBatch
    <3> QED
      BY <2>3, <3>1 DEF Mark, MarkFails, EndTx, Goto, IInv, TypeOK
  <2>4. CASE RunReturns(r) \/ Crash(r)
    BY <2>4 DEF RunReturns, Crash, EndTx, ProcessGone, Goto, IInv, TypeOK
  <2>5. CASE Cancel(r) \/ WriterFlush(r)
    BY <2>5 DEF Cancel, WriterFlush, batchVars, IInv, TypeOK
  <2>6. CASE Exit(r)
    BY <2>6 DEF Exit, ProcessGone, Goto, batchVars, IInv, TypeOK
  <2> QED
    BY <2>1, <2>2, <2>3, <2>4, <2>5, <2>6
<1>3. InOrder'
  BY <1>1, <1>2 DEF AloneInv, InOrder
<1>4. Draining'
  <2>1. backlog'[r] \subseteq outbox
    BY <1>2 DEF AloneInv, Draining, Pending
  <2>2. CASE pc'[r] \notin {"publish", "mark"}
    BY <1>1, <2>1, <2>2 DEF Draining
  <2>3. CASE UNCHANGED <<pc, msgs, ids, publishErr>> /\ pc[r] \in {"publish", "mark"}
    <3>1. backlog' = backlog
      BY <2>3 DEF Tick, Mark, RunReturns, ClaimFails, MarkFails, Cancel, Crash,
                  WriterFlush, Exit, Restart
    <3> QED
      BY <1>1, <2>1, <2>3, <3>1 DEF AloneInv, Draining
  <2> QED
    BY <1>2, <2>2, <2>3
<1> QED
  BY <1>1, <1>3, <1>4 DEF AloneInv, Visible

LEMMA NextAlone ==
  ASSUME NEW r, Relays = {r}
  PROVE  IInv /\ AloneInv /\ Locks /\ [Next]_vars => AloneInv'
<1> SUFFICES ASSUME IInv, AloneInv, Locks, [Next]_vars PROVE AloneInv'
  OBVIOUS
<1>1. CASE UNCHANGED vars
  BY <1>1 DEF vars, txVars, batchVars, AloneInv, Visible, InOrder, Draining, Sent
<1>2. CASE \E e \in Events : TxStep(e)
  BY <1>2, TxAlone
<1>3. CASE RelayStep(r) \/ Disturbance(r) \/ WriterFlush(r) \/ Exit(r) \/ Restart(r)
  BY <1>3, ClaimAlone, PublishAlone, RestAlone DEF RelayStep, Disturbance
<1> QED
  BY <1>1, <1>2, <1>3 DEF Next

LEMMA InitAlone == Init => AloneInv
  BY DEF Init, AloneInv, Visible, InOrder, Draining

LEMMA AloneInvariance ==
  ASSUME NEW r, Relays = {r}
  PROVE  Spec => [](IInv /\ Locks /\ AloneInv)
<1>1. IInv /\ AloneInv /\ Locks /\ [Next]_vars => AloneInv'
  BY NextAlone
<1>2. Init => Locks /\ Paid /\ AloneInv
  BY InitRepeats, InitAlone
<1> QED
  BY <1>1, <1>2, NextRepeats, Invariance, PTL DEF Spec

(* With one relay, a message whose publish failed is not overtaken by one  *)
(* with a later id, through retries, shutdowns, crashes and restarts.      *)
THEOREM OneRelayKeepsOrder ==
  ASSUME NEW r, Relays = {r}
  PROVE  Spec => NoOvertake
<1> DEFINE Kept == \A e \in Sent' \ Sent : \A f \in stalled \ Sent : id[f] >= id[e]
<1>1. IInv /\ Locks /\ AloneInv /\ [Next]_vars => [Kept]_vars
  <2> SUFFICES ASSUME IInv, Locks, AloneInv, Next,
                      NEW e \in Sent' \ Sent, NEW f \in stalled \ Sent
               PROVE  id[f] >= id[e]
    OBVIOUS
  <2>1. CASE Publish(r) \/ PublishFails(r) \/ WriterFlush(r)
    <3>1. PICK m \in Events :
            /\ log' \in {log, Append(log, m)}
            /\ IsNext(r, m) \/ m \in writer[r]
      BY <2>1 DEF Publish, PublishFails, WriterFlush, IInv, TypeOK
    <3>2. log \in Seq(Events) /\ ids[r] \subseteq Sent
      BY DEF IInv, TypeOK, InFlight
    <3>3. e = m
      <4>1. CASE log' = log
        BY <4>1 DEF Sent
      <4>2. CASE log' = Append(log, m)
        BY <3>2, <4>2, SentAppend
      <4> QED
        BY <3>1, <4>1, <4>2
    <3>4. id[f] \in Nat /\ id[e] \in Nat
      BY <3>3 DEF IInv, TypeOK
    <3>5. CASE m \in writer[r]
      BY <3>3, <3>5, <3>4 DEF AloneInv, InOrder
    <3>6. CASE IsNext(r, m)
      <4>1. f \in msgs[r] => f \in msgs[r] \ ids[r]
        BY <3>2
      <4>2. m \in msgs[r] /\ (f \in msgs[r] => id[m] <= id[f])
        BY <3>6, <4>1 DEF IsNext
      <4>3. f \notin msgs[r] => id[m] < id[f]
        BY <4>2 DEF AloneInv, InOrder
      <4> QED
        BY <3>3, <3>4, <4>2, <4>3
    <3> QED
      BY <3>1, <3>5, <3>6
  <2>2. CASE ~(Publish(r) \/ PublishFails(r) \/ WriterFlush(r))
    <3>1. log' = log
      BY <2>2 DEF Next, TxStep, InsertDomainRow, Enqueue, Commit, Rollback, relayVars,
         RelayStep, Tick, Claim, PublishCancelled, Mark, RunReturns, Disturbance,
         ClaimFails, MarkFails, Cancel, Crash, Exit, Restart
    <3> QED
      BY <3>1 DEF Sent
  <2> QED
    BY <2>1, <2>2
<1>2. Spec => [](IInv /\ Locks /\ AloneInv)
  BY AloneInvariance
<1> QED
  BY <1>1, <1>2, PTL DEF Spec, NoOvertake

(* With one relay, a tick after which nothing fails marks every row that   *)
(* was pending when it fired, in as many batches as that takes.            *)
THEOREM OneRelayDrains ==
  ASSUME NEW only, Relays = {only}
  PROVE  Spec => DrainsBacklog
<1> DEFINE Drained ==
      \A r \in Relays :
        (pc[r] # "idle" /\ pc'[r] = "idle" /\ faults' = faults
         /\ pc[r] # "down" /\ ~publishErr[r]) => backlog[r] \subseteq published'
<1>1. IInv /\ Locks /\ AloneInv /\ [Next]_vars => [Drained]_vars
  <2> SUFFICES ASSUME IInv, Locks, AloneInv, Next,
                      pc[only] # "idle", pc'[only] = "idle", faults' = faults,
                      pc[only] # "down", ~publishErr[only]
               PROVE  backlog[only] \subseteq published'
    OBVIOUS
  <2>1. backlog[only] \subseteq outbox
    BY DEF AloneInv, Draining
  <2>2. CASE Claim(only)
    <3>1. PICK B \in SUBSET Events :
            IsBatch(B) /\ Goto(only, IF B = {} THEN "idle" ELSE "publish")
      BY <2>2 DEF Claim
    <3>2. B = {}
      BY <3>1 DEF Goto, IInv, TypeOK
    <3>3. Cardinality(B) # BatchSize
      BY <3>2, FS_EmptySet, BatchSizeAssumption
    <3>4. Claimable = {} /\ msgs[only] = {} /\ published' = published
      BY <2>2, <3>1, <3>2, <3>3 DEF IsBatch, Claim, IInv, TypeOK
    <3> QED
      BY <2>1, <3>4 DEF Claimable, Pending, Locked
  <2>3. CASE Mark(only)
    <3>1. /\ published' = published \cup ids[only] /\ pc[only] = "mark"
          /\ AfterBatch(only) = "idle"
      BY <2>3 DEF Mark, MarkedRows, Goto, IInv, TypeOK
    <3>2. ids[only] = msgs[only]
      BY <3>1 DEF AloneInv, Draining
    <3>3. Cardinality(msgs[only]) # BatchSize
      BY <3>1, <3>2, BatchSizeAssumption DEF AfterBatch
    <3> QED
      BY <3>1, <3>2, <3>3 DEF AloneInv, Draining
  <2>4. ASSUME Publish(only) \/ PublishCancelled(only) PROVE FALSE
    BY <2>4 DEF Publish, PublishCancelled, BreakOn, Goto, IInv, TypeOK
  <2>5. ASSUME Tick(only) \/ RunReturns(only) \/ WriterFlush(only) \/ Exit(only) \/ Restart(only)
        PROVE  FALSE
    BY <2>5 DEF Tick, RunReturns, WriterFlush, Exit, Restart, ProcessGone, Goto, IInv, TypeOK
  <2>6. ASSUME Disturbance(only) PROVE FALSE
    BY <2>6, MaxFaultsAssumption
    DEF Disturbance, ClaimFails, PublishFails, MarkFails, Cancel, Crash, Disturb, IInv, TypeOK
  <2>7. ASSUME NEW e \in Events, TxStep(e) PROVE FALSE
    BY <2>7 DEF TxStep, InsertDomainRow, Enqueue, Commit, Rollback, relayVars
  <2> QED
    BY <2>2, <2>3, <2>4, <2>5, <2>6, <2>7 DEF Next, RelayStep
<1>2. Spec => [](IInv /\ Locks /\ AloneInv)
  BY AloneInvariance
<1> QED
  BY <1>1, <1>2, PTL DEF Spec, DrainsBacklog
=============================================================================
