------------------------------- MODULE Outbox -------------------------------
(***************************************************************************)
(* The transactional outbox: API transactions that write a domain row      *)
(* (a listing or a boost) and its event together, and the relay goroutine  *)
(* of every API instance, which claims unpublished rows under FOR UPDATE   *)
(* SKIP LOCKED, publishes them to Kafka in id order and marks them, all in *)
(* one Postgres transaction.                                               *)
(*                                                                         *)
(* One element of Events stands for one such API transaction, for its      *)
(* domain row and for its outbox row.  A Postgres transaction is visible   *)
(* to others only from its commit; a batch's row locks live exactly as     *)
(* long as the relay's transaction.  log is the order in which the broker  *)
(* accepted messages.                                                      *)
(***************************************************************************)
EXTENDS Integers, FiniteSets, Sequences, Functions

CONSTANTS Events,     \* API transactions, each with one domain row and one event
          Relays,     \* API instances; each runs one relay
          BatchSize,  \* NewRelay's batchSize, the LIMIT of a claim
          MaxFaults   \* bound on failures, crashes and shutdowns in a behaviour

ASSUME BatchSizeAssumption == BatchSize \in Nat \ {0}
ASSUME MaxFaultsAssumption == MaxFaults \in Nat
ASSUME EventsAssumption == IsFiniteSet(Events)

VARIABLES
  tx,         \* state of each API transaction
  id,         \* outbox.id drawn by the INSERT, 0 before it
  nextId,     \* the BIGSERIAL sequence behind outbox.id
  domain,     \* committed listing and boost rows
  outbox,     \* committed outbox rows
  published,  \* outbox rows whose published_at is set
  pc,         \* where each relay stands
  cancelled,  \* whether the instance's context is cancelled (SIGTERM)
  msgs,       \* rows claimed, and so locked, by the relay's open transaction
  ids,        \* the claimed rows published so far
  publishErr, \* whether the batch stopped at a failed publish
  writer,     \* the message a cancelled publish left with the Kafka writer
  log,        \* what the broker accepted, in order
  faults,     \* disturbances so far
  backlog,    \* history: rows pending when the relay's last tick fired
  stalled     \* history: rows whose publish has returned an error

txVars == <<tx, id, nextId, domain, outbox>>
batchVars == <<msgs, ids, publishErr>>
relayVars == <<published, pc, cancelled, batchVars, writer, log, faults,
               backlog, stalled>>
vars == <<txVars, published, pc, cancelled, batchVars, writer, log, faults,
          backlog, stalled>>

Sent == Range(log)
Pending == outbox \ published
Locked == UNION {msgs[r] : r \in Relays}

PcStates == {"down", "idle", "claim", "publish", "mark", "returned"}
TxStates == {"none", "inserted", "enqueued", "committed", "rolledback"}

Init ==
  /\ tx = [e \in Events |-> "none"]
  /\ id = [e \in Events |-> 0]
  /\ nextId = 1
  /\ domain = {} /\ outbox = {} /\ published = {}
  /\ pc = [r \in Relays |-> "idle"]
  /\ cancelled = [r \in Relays |-> FALSE]
  /\ msgs = [r \in Relays |-> {}]
  /\ ids = [r \in Relays |-> {}]
  /\ publishErr = [r \in Relays |-> FALSE]
  /\ writer = [r \in Relays |-> {}]
  /\ log = <<>>
  /\ faults = 0
  /\ backlog = [r \in Relays |-> {}]
  /\ stalled = {}

Goto(r, label) == pc' = [pc EXCEPT ![r] = label]

(* A disturbance draws on the bound MaxFaults.                             *)
Disturb == faults < MaxFaults /\ faults' = faults + 1

-----------------------------------------------------------------------------
(* API transactions: listing.repo.Create and boost.repo.CreateActive.      *)

(* Begin and the INSERT of the domain row: nothing is visible yet.         *)
InsertDomainRow(e) ==
  /\ tx[e] = "none"
  /\ tx' = [tx EXCEPT ![e] = "inserted"]
  /\ UNCHANGED <<id, nextId, domain, outbox, relayVars>>

(* outbox.Enqueue in the same transaction.  The sequence is not part of    *)
(* the transaction, so ids are drawn in INSERT order, not commit order,    *)
(* and a rollback leaves a gap.                                            *)
DrawId(e) == /\ id' = [id EXCEPT ![e] = nextId]
             /\ nextId' = nextId + 1

(* Wrong variant: the INSERT runs on the pool instead of the transaction.  *)
EnqueueOutsideTx(e) ==
  /\ tx[e] = "inserted"
  /\ tx' = [tx EXCEPT ![e] = "enqueued"]
  /\ DrawId(e)
  /\ outbox' = outbox \cup {e}
  /\ UNCHANGED <<domain, relayVars>>

Enqueue(e) ==
  /\ tx[e] = "inserted"
  /\ tx' = [tx EXCEPT ![e] = "enqueued"]
  /\ DrawId(e)
  /\ UNCHANGED <<domain, outbox, relayVars>>

Commit(e) ==
  /\ tx[e] = "enqueued"
  /\ tx' = [tx EXCEPT ![e] = "committed"]
  /\ domain' = domain \cup {e}
  /\ outbox' = outbox \cup {e}
  /\ UNCHANGED <<id, nextId, relayVars>>

(* A failed statement, a cancelled request or the death of the instance:   *)
(* the deferred (or the server's own) rollback.                            *)
Rollback(e) ==
  /\ tx[e] \in {"inserted", "enqueued"}
  /\ tx' = [tx EXCEPT ![e] = "rolledback"]
  /\ UNCHANGED <<id, nextId, domain, outbox, relayVars>>
-----------------------------------------------------------------------------
(* The relay: Run's select, drain and PgStore.ProcessPending.              *)

(* Wrong variant: the batch is kept for the next round.                    *)
EndTxKeepBatch(r) == /\ publishErr' = [publishErr EXCEPT ![r] = FALSE]
                     /\ UNCHANGED <<msgs, ids>>

(* The claimed rows' locks go with the transaction, however it ends.       *)
EndTx(r) == /\ msgs' = [msgs EXCEPT ![r] = {}]
            /\ ids' = [ids EXCEPT ![r] = {}]
            /\ publishErr' = [publishErr EXCEPT ![r] = FALSE]

Tick(r) ==
  /\ pc[r] = "idle" /\ ~cancelled[r]
  /\ Goto(r, "claim")
  /\ backlog' = [backlog EXCEPT ![r] = Pending]
  /\ UNCHANGED <<txVars, published, cancelled, batchVars, writer, log, faults,
                 stalled>>

(* Wrong variant: no published_at IS NULL.                                 *)
UnlockedRows == outbox \ Locked

(* The rows a claim's WHERE clause and SKIP LOCKED leave to it.            *)
Claimable == Pending \ Locked

(* Wrong variant: ORDER BY id DESC.                                        *)
IsBatchNewest(B) == /\ B \subseteq Claimable
                    /\ \A e \in B, f \in Claimable \ B : id[e] > id[f]
                    /\ Cardinality(B) <= BatchSize
                    /\ B = Claimable \/ Cardinality(B) = BatchSize

(* ORDER BY id LIMIT BatchSize over the claimable rows.                    *)
IsBatch(B) == /\ B \subseteq Claimable
              /\ \A e \in B, f \in Claimable \ B : id[e] < id[f]
              /\ Cardinality(B) <= BatchSize
              /\ B = Claimable \/ Cardinality(B) = BatchSize

(* Begin and SELECT ... FOR UPDATE SKIP LOCKED; with nothing to do the     *)
(* empty transaction commits and drain ends.                               *)
Claim(r) ==
  /\ pc[r] = "claim" /\ ~cancelled[r]
  /\ \E B \in SUBSET Events :
       /\ IsBatch(B)
       /\ msgs' = [msgs EXCEPT ![r] = B]
       /\ Goto(r, IF B = {} THEN "idle" ELSE "publish")
  /\ UNCHANGED <<txVars, published, cancelled, ids, publishErr, writer, log,
                 faults, backlog, stalled>>

(* Begin, the SELECT or the scan fails.                                    *)
ClaimFails(r) ==
  /\ pc[r] = "claim" /\ ~cancelled[r] /\ Disturb
  /\ Goto(r, "idle")
  /\ UNCHANGED <<txVars, published, cancelled, batchVars, writer, log, backlog,
                 stalled>>

IsNext(r, m) == /\ m \in msgs[r] \ ids[r]
                /\ \A f \in msgs[r] \ ids[r] : id[m] <= id[f]

(* One round of the publish loop.  WriteMessages waits for every replica's *)
(* acknowledgement; a cancelled context does not undo one that came first. *)
Publish(r) ==
  /\ pc[r] = "publish"
  /\ \E m \in msgs[r] \ ids[r] :
       /\ IsNext(r, m)
       /\ log' = Append(log, m)
       /\ ids' = [ids EXCEPT ![r] = @ \cup {m}]
  /\ Goto(r, IF ids'[r] = msgs[r] THEN "mark" ELSE "publish")
  /\ UNCHANGED <<txVars, published, cancelled, msgs, publishErr, writer, faults,
                 backlog, stalled>>

(* The loop breaks on the failed message m.                                *)
BreakOn(r, m) == /\ publishErr' = [publishErr EXCEPT ![r] = TRUE]
                 /\ stalled' = stalled \cup {m}
                 /\ Goto(r, "mark")

(* WriteMessages gives up after its retries; the broker may have the       *)
(* message all the same, its acknowledgement lost.                         *)
PublishFails(r) ==
  /\ pc[r] = "publish" /\ Disturb
  /\ \E m \in msgs[r] \ ids[r] :
       /\ IsNext(r, m)
       /\ BreakOn(r, m)
       /\ log' \in {log, Append(log, m)}
  /\ UNCHANGED <<txVars, published, cancelled, msgs, ids, writer, backlog>>

(* WriteMessages returns ctx.Err().  By then the message may be in one of  *)
(* the writer's own batches, which it still sends, or never reach one.     *)
PublishCancelled(r) ==
  /\ pc[r] = "publish" /\ cancelled[r]
  /\ \E m \in msgs[r] \ ids[r] :
       /\ IsNext(r, m)
       /\ BreakOn(r, m)
       /\ writer' \in {writer, [writer EXCEPT ![r] = {m}]}
  /\ UNCHANGED <<txVars, published, cancelled, msgs, ids, log, faults, backlog>>

(* Wrong variants: one batch per tick; the goroutine ends on an error.     *)
AfterBatchOnce(r) == "idle"
AfterBatchReturn(r) ==
  IF publishErr[r] THEN "returned"
  ELSE IF Cardinality(ids[r]) < BatchSize THEN "idle" ELSE "claim"

(* drain goes on after a full batch, and only after a full one.            *)
AfterBatch(r) ==
  IF publishErr[r] \/ Cardinality(ids[r]) < BatchSize THEN "idle" ELSE "claim"

(* Wrong variant: the whole batch is marked after a failed publish.        *)
ClaimedRows(r) == msgs[r]

(* UPDATE ... WHERE id = ANY(ids), and Commit.                             *)
MarkedRows(r) == ids[r]

Mark(r) ==
  /\ pc[r] = "mark" /\ ~cancelled[r]
  /\ published' = published \cup MarkedRows(r)
  /\ EndTx(r)
  /\ Goto(r, AfterBatch(r))
  /\ UNCHANGED <<txVars, cancelled, writer, log, faults, backlog, stalled>>

(* The UPDATE or the Commit fails, the Commit possibly after taking        *)
(* effect; drain ends.                                                     *)
MarkFails(r) ==
  /\ pc[r] = "mark" /\ ~cancelled[r] /\ Disturb
  /\ published' \in {published, published \cup MarkedRows(r)}
  /\ EndTx(r)
  /\ Goto(r, "idle")
  /\ UNCHANGED <<txVars, cancelled, writer, log, backlog, stalled>>
-----------------------------------------------------------------------------
(* The API instance around the relay.                                      *)

(* SIGTERM, or a failed HTTP server calling stop(): ctx is cancelled.      *)
Cancel(r) ==
  /\ pc[r] # "down" /\ ~cancelled[r] /\ Disturb
  /\ cancelled' = [cancelled EXCEPT ![r] = TRUE]
  /\ UNCHANGED <<txVars, published, pc, batchVars, writer, log, backlog, stalled>>

(* Every statement on a cancelled context fails, the UPDATE and the Commit *)
(* of a batch included, so the deferred Rollback ends the transaction and  *)
(* Run returns through ctx.Done().                                         *)
RunReturns(r) ==
  /\ cancelled[r] /\ pc[r] \in {"idle", "claim", "mark"}
  /\ EndTx(r)
  /\ Goto(r, "returned")
  /\ UNCHANGED <<txVars, published, cancelled, writer, log, faults, backlog,
                 stalled>>

(* The writer delivers the message a cancelled publish left behind;        *)
(* producer.Close waits for this.                                          *)
WriterFlush(r) ==
  /\ \E m \in writer[r] : log' = Append(log, m)
  /\ writer' = [writer EXCEPT ![r] = {}]
  /\ UNCHANGED <<txVars, published, pc, cancelled, batchVars, faults, backlog,
                 stalled>>

ProcessGone(r) == /\ Goto(r, "down")
                  /\ cancelled' = [cancelled EXCEPT ![r] = FALSE]
                  /\ writer' = [writer EXCEPT ![r] = {}]

(* main returns.  It does not wait for Run, but producer.Close waits for   *)
(* the writer and pool.Close for the connection of an open transaction.    *)
Exit(r) ==
  /\ cancelled[r] /\ pc[r] \in {"idle", "claim", "returned"}
  /\ writer[r] = {}
  /\ ProcessGone(r)
  /\ UNCHANGED <<txVars, published, batchVars, log, faults, backlog, stalled>>

(* The process dies anywhere; Postgres rolls its transaction back.         *)
Crash(r) ==
  /\ pc[r] # "down" /\ Disturb
  /\ ProcessGone(r)
  /\ EndTx(r)
  /\ UNCHANGED <<txVars, published, log, backlog, stalled>>

Restart(r) ==
  /\ pc[r] = "down"
  /\ Goto(r, "idle")
  /\ UNCHANGED <<txVars, published, cancelled, batchVars, writer, log, faults,
                 backlog, stalled>>

-----------------------------------------------------------------------------
TxStep(e) == InsertDomainRow(e) \/ Enqueue(e) \/ Commit(e) \/ Rollback(e)

(* Steps the relay's goroutine takes by itself.                            *)
RelayStep(r) == \/ Tick(r) \/ Claim(r) \/ Publish(r) \/ PublishCancelled(r)
                \/ Mark(r) \/ RunReturns(r)

Disturbance(r) == \/ ClaimFails(r) \/ PublishFails(r) \/ MarkFails(r)
                  \/ Cancel(r) \/ Crash(r)

Next == \/ \E e \in Events : TxStep(e)
        \/ \E r \in Relays : \/ RelayStep(r) \/ Disturbance(r)
                             \/ WriterFlush(r) \/ Exit(r) \/ Restart(r)

Spec == Init /\ [][Next]_vars

(* The ticker keeps firing and every call of the relay returns, so its     *)
(* goroutine always gets on.  Nothing else is fair: a request may hang, a  *)
(* stopped instance need not come back (no restart policy is configured).  *)
LiveSpec == Spec /\ \A r \in Relays : WF_vars(RelayStep(r))

-----------------------------------------------------------------------------
(* Properties.                                                             *)

(* A claim never takes more rows than its LIMIT, only a batch that is open *)
(* holds rows, and a relay has published only what it claimed.             *)
TypeOK ==
  /\ tx \in [Events -> TxStates]
  /\ id \in [Events -> Nat]
  /\ nextId \in Nat \ {0}
  /\ domain \subseteq Events /\ outbox \subseteq Events
  /\ published \subseteq Events /\ stalled \subseteq Events
  /\ pc \in [Relays -> PcStates]
  /\ cancelled \in [Relays -> BOOLEAN]
  /\ msgs \in [Relays -> SUBSET Events]
  /\ ids \in [Relays -> SUBSET Events]
  /\ publishErr \in [Relays -> BOOLEAN]
  /\ writer \in [Relays -> SUBSET Events]
  /\ backlog \in [Relays -> SUBSET Events]
  /\ log \in Seq(Events)
  /\ faults \in 0..MaxFaults
  /\ \A r \in Relays :
       /\ ids[r] \subseteq msgs[r]
       /\ Cardinality(msgs[r]) <= BatchSize
       /\ msgs[r] # {} => pc[r] \in {"publish", "mark"}

(* The broker never holds an event whose domain change did not commit:     *)
(* Enqueue shares the transaction of the listing or boost row.             *)
NoPhantom == Sent \subseteq domain

(* A row is marked only once the broker has its message, whatever failed,  *)
(* stopped or crashed in between: nothing is lost.                         *)
NoLoss == published \subseteq Sent

(* One failure, shutdown or crash repeats at most one batch, on one relay  *)
(* or several; in particular nothing is sent twice until something fails:  *)
(* SKIP LOCKED and the published_at filter keep the batches apart.         *)
DuplicatesBounded == Len(log) - Cardinality(Sent) <= BatchSize * faults

(* Seen from outside the outbox is an event delivery: accepted with the    *)
(* domain change, delivered after that, settled only after delivery.       *)
Delivery == INSTANCE EventDelivery
              WITH accepted <- domain, delivered <- Sent, settled <- published
RefinesDelivery == Delivery!Spec

(* "A failed publish stops the batch: the order is kept" (relay.go): while *)
(* a message whose publish failed is not yet with the broker, no message   *)
(* with a later id reaches it.                                             *)
NoOvertake ==
  [][\A e \in Sent' \ Sent : \A f \in stalled \ Sent : id[f] >= id[e]]_vars

(* One tick clears the backlog: when a relay goes back to waiting for the  *)
(* ticker with nothing having failed, every row pending at the tick is     *)
(* marked, however many batches that took.  (For a single relay: rows      *)
(* another one holds are skipped.)                                         *)
DrainsBacklog ==
  [][\A r \in Relays :
       (pc[r] # "idle" /\ pc'[r] = "idle" /\ faults' = faults
        /\ pc[r] # "down" /\ ~publishErr[r]) => backlog[r] \subseteq published']_vars

(* While some instance keeps running, every committed event is eventually  *)
(* delivered and marked, through failed publishes, failed commits and the  *)
(* shutdown or death of other instances.                                   *)
Running == \E r \in Relays : pc[r] # "down" /\ ~cancelled[r]
EventuallyPublished ==
  []<>Running => \A e \in Events : e \in outbox ~> e \in published
=============================================================================
