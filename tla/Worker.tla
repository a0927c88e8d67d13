------------------------------- MODULE Worker -------------------------------
(***************************************************************************)
(* cmd/worker: instances of the consumer group avigo-analytics, each with  *)
(* one consumer per topic in an errgroup, that count events in Redis       *)
(* (internal/kafka/consumer.go, internal/analytics).                       *)
(*                                                                         *)
(* A topic is one partition: the broker's default for topics it creates    *)
(* itself.  The group's coordinator and the reader are kafka-go and Kafka; *)
(* they are represented by what Run sees of them: a partition belongs to   *)
(* one member at a time, a member that receives it starts behind the       *)
(* committed offset, and may still hold a message from before it lost it.  *)
(***************************************************************************)
EXTENDS Integers, Sequences

CONSTANTS Workers,      \* worker processes
          Nobody,       \* no worker
          Topics,       \* listing.created, boost.created
          Content,      \* the messages each topic will get, "event" or "broken"
          MaxFaults     \* bound on failures, stops and rebalances

ASSUME NobodyAssumption == Nobody \notin Workers
ASSUME WorkerBoundsAssumption ==
  Content \in [Topics -> Seq({"event", "broken"})] /\ MaxFaults \in Nat

VARIABLES
  arrived,  \* how many messages each topic has got
  owner,    \* the member of the group that has each topic
  offset,   \* committed offset: how many messages of the topic are done
  up,       \* "down", "running", or "stopping" once gctx is cancelled
  closed,   \* topics whose consumer main has closed
  pc,       \* where Run of each consumer stands
  pos,      \* how far the reader of each topic's owner has fetched
  msg,      \* the message each Run has in hand, by its place in the topic; or 0
  times,    \* how often Inc counted each message
  skipped,  \* history: <<topic, place>> of messages whose Inc reported an error
  gen,      \* history: how often each topic was assigned
  faults    \* failures, stops and rebalances so far

group == <<arrived, owner, offset, gen>>
readers == <<pos, msg>>
counters == <<times, skipped>>
vars == <<group, up, closed, pc, readers, counters, faults>>

Places(t) == 1..Len(Content[t])

Init ==
  /\ arrived = [t \in Topics |-> 0]
  /\ owner = [t \in Topics |-> Nobody]
  /\ offset = [t \in Topics |-> 0]
  /\ up = [w \in Workers |-> "down"]
  /\ closed = [w \in Workers |-> {}]
  /\ pc = [w \in Workers |-> [t \in Topics |-> "returned"]]
  /\ pos = [t \in Topics |-> 0]
  /\ msg = [w \in Workers |-> [t \in Topics |-> 0]]
  /\ times = [t \in Topics |-> [i \in Places(t) |-> 0]]
  /\ skipped = {}
  /\ gen = [t \in Topics |-> 0]
  /\ faults = 0

At(w, t, label) == pc[w][t] = label
Goto(w, t, label) == pc' = [pc EXCEPT ![w][t] = label]
Disturb == faults < MaxFaults /\ faults' = faults + 1

(* What is in w's hands on t.                                              *)
InHand(w, t) == Content[t][msg[w][t]]

-----------------------------------------------------------------------------
(* Kafka.                                                                  *)

(* A relay's publish arrives, or a message nobody can decode.              *)
Arrive(t) ==
  /\ arrived[t] < Len(Content[t])
  /\ arrived' = [arrived EXCEPT ![t] = @ + 1]
  /\ UNCHANGED <<owner, offset, gen, up, closed, pc, readers, counters, faults>>

(* The group gives t to w: because nobody has it, or in a rebalance, which *)
(* may take it from a member in the middle of a message.                   *)
Assign(w, t) ==
  /\ up[w] = "running" /\ owner[t] # w
  /\ IF owner[t] = Nobody THEN UNCHANGED faults ELSE Disturb
  /\ owner' = [owner EXCEPT ![t] = w]
  /\ gen' = [gen EXCEPT ![t] = @ + 1]
  /\ pos' = [pos EXCEPT ![t] = offset[t]]
  /\ UNCHANGED <<arrived, offset, up, closed, pc, msg, counters>>

-----------------------------------------------------------------------------
(* Consumer.Run and Processor.Handle.                                      *)

(* Wrong variant: an error of one consumer leaves the other one running.   *)
NoCancel(w) == up

(* The first error cancels the errgroup's context.                         *)
CancelGroup(w) == [up EXCEPT ![w] = "stopping"]

(* FetchMessage returns the next message; with the context cancelled it    *)
(* still may.                                                              *)
Fetch(w, t) ==
  /\ At(w, t, "fetch") /\ owner[t] = w
  /\ pos[t] < arrived[t]
  /\ pos' = [pos EXCEPT ![t] = @ + 1]
  /\ msg' = [msg EXCEPT ![w][t] = pos[t] + 1]
  /\ Goto(w, t, "handle")
  /\ UNCHANGED <<group, up, closed, counters, faults>>

(* FetchMessage fails for good: Run returns the error.                     *)
FetchFails(w, t) ==
  /\ At(w, t, "fetch") /\ up[w] = "running" /\ Disturb
  /\ Goto(w, t, "returned")
  /\ up' = CancelGroup(w)
  /\ UNCHANGED <<group, closed, readers, counters>>

(* context.Canceled or io.EOF: Run returns nil.                            *)
FetchCancelled(w, t) ==
  /\ At(w, t, "fetch") /\ up[w] = "stopping"
  /\ Goto(w, t, "returned")
  /\ UNCHANGED <<group, up, closed, readers, counters, faults>>

(* Wrong variant: the handler is called again on a message it rejects.     *)
RetryBroken(w, t) == FALSE /\ UNCHANGED vars

(* A message that cannot be decoded, or lacks its ids: logged and skipped. *)
SkipBroken(w, t) ==
  /\ At(w, t, "handle") /\ InHand(w, t) = "broken"
  /\ Goto(w, t, "commit")
  /\ UNCHANGED <<group, up, closed, readers, counters, faults>>

CountOnce(w, t) == times' = [times EXCEPT ![t][msg[w][t]] = @ + 1]

(* Inc.                                                                    *)
Inc(w, t) ==
  /\ At(w, t, "handle") /\ InHand(w, t) = "event"
  /\ CountOnce(w, t)
  /\ Goto(w, t, "commit")
  /\ UNCHANGED <<group, up, closed, readers, skipped, faults>>

(* Wrong variant: the handler is called again.                             *)
RetryFailed(w, t) == UNCHANGED <<pc, skipped>>

(* Inc's error is logged too and the message skipped.                      *)
SkipFailed(w, t) == /\ Goto(w, t, "commit")
                    /\ skipped' = skipped \cup {<<t, msg[w][t]>>}

(* Inc returns an error, because Redis fails or the context is cancelled:  *)
(* INCR may have been executed all the same.                               *)
IncFails(w, t) ==
  /\ At(w, t, "handle") /\ InHand(w, t) = "event"
  /\ IF up[w] = "stopping" THEN UNCHANGED faults ELSE Disturb
  /\ CountOnce(w, t) \/ UNCHANGED times
  /\ SkipFailed(w, t)
  /\ UNCHANGED <<group, up, closed, readers>>

Drop(w, t) == msg' = [msg EXCEPT ![w][t] = 0]

(* Wrong variant: the reader's position is committed.                      *)
CommitPosition(w, t) == offset' = [offset EXCEPT ![t] = pos[t]]

(* The offset of the message that was handled is committed.                *)
MoveOffset(w, t) == offset' = [offset EXCEPT ![t] = msg[w][t]]

(* CommitMessages.  The group accepts it from any member: one that lost t  *)
(* meanwhile moves the offset to the message it still held, even if others *)
(* have got further.                                                       *)
Commit(w, t) ==
  /\ At(w, t, "commit") /\ t \notin closed[w]
  /\ MoveOffset(w, t) /\ Drop(w, t)
  /\ Goto(w, t, "fetch")
  /\ UNCHANGED <<arrived, owner, gen, up, closed, pos, counters, faults>>

(* An error that may have come after the commit took effect.               *)
CommitInDoubt(w, t) ==
  /\ At(w, t, "commit")
  /\ Goto(w, t, "returned") /\ Drop(w, t)
  /\ (t \notin closed[w] /\ MoveOffset(w, t)) \/ UNCHANGED offset
  /\ UNCHANGED <<arrived, owner, gen, closed, pos, counters>>

(* The commit fails: Run returns the error.                                *)
CommitFails(w, t) ==
  /\ CommitInDoubt(w, t) /\ up[w] = "running" /\ Disturb
  /\ up' = CancelGroup(w)

(* context.Canceled or io.ErrClosedPipe: Run returns nil.                  *)
CommitCancelled(w, t) ==
  /\ CommitInDoubt(w, t) /\ up[w] = "stopping"
  /\ UNCHANGED <<up, faults>>

-----------------------------------------------------------------------------
(* cmd/worker/main.go.                                                     *)

Start(w) ==
  /\ up[w] = "down"
  /\ up' = [up EXCEPT ![w] = "running"]
  /\ pc' = [pc EXCEPT ![w] = [t \in Topics |-> "fetch"]]
  /\ UNCHANGED <<group, closed, readers, counters, faults>>

(* SIGTERM.                                                                *)
Sigterm(w) ==
  /\ up[w] = "running" /\ Disturb
  /\ up' = [up EXCEPT ![w] = "stopping"]
  /\ UNCHANGED <<group, closed, pc, readers, counters>>

(* Close leaves the group; Run may still be in its handler.                *)
Close(w, t) ==
  /\ up[w] = "stopping" /\ t \notin closed[w]
  /\ closed' = [closed EXCEPT ![w] = @ \cup {t}]
  /\ owner' = [owner EXCEPT ![t] = IF @ = w THEN Nobody ELSE @]
  /\ UNCHANGED <<arrived, offset, gen, up, pc, readers, counters, faults>>

(* Wrong variant: main returns without closing the consumers.              *)
AllReturned(w) == up[w] = "stopping" /\ \A t \in Topics : At(w, t, "returned")

(* The loop of Close calls is over and g.Wait returns.                     *)
MayExit(w) == /\ up[w] = "stopping" /\ closed[w] = Topics
              /\ \A t \in Topics : At(w, t, "returned")

Exit(w) ==
  /\ MayExit(w)
  /\ up' = [up EXCEPT ![w] = "down"]
  /\ closed' = [closed EXCEPT ![w] = {}]
  /\ UNCHANGED <<group, pc, readers, counters, faults>>

(* The process dies; its session times out and the group drops it.         *)
Crash(w) ==
  /\ up[w] # "down" /\ Disturb
  /\ up' = [up EXCEPT ![w] = "down"]
  /\ pc' = [pc EXCEPT ![w] = [t \in Topics |-> "returned"]]
  /\ msg' = [msg EXCEPT ![w] = [t \in Topics |-> 0]]
  /\ closed' = [closed EXCEPT ![w] = {}]
  /\ owner' = [t \in Topics |-> IF owner[t] = w THEN Nobody ELSE owner[t]]
  /\ UNCHANGED <<arrived, offset, gen, pos, counters>>

-----------------------------------------------------------------------------
(* What Run does next when nothing fails.                                  *)
RunGoesOn(w, t) == Fetch(w, t) \/ SkipBroken(w, t) \/ Inc(w, t) \/ Commit(w, t)

(* Run of a worker that stops returns.                                     *)
RunReturns(w, t) == FetchCancelled(w, t) \/ CommitCancelled(w, t)

ConsumerStep(w, t) == \/ RunGoesOn(w, t)
                      \/ RunReturns(w, t)
                      \/ FetchFails(w, t) \/ IncFails(w, t) \/ CommitFails(w, t)
                      \/ Assign(w, t) \/ Close(w, t)

Next == \/ \E t \in Topics : Arrive(t)
        \/ \E w \in Workers, t \in Topics : ConsumerStep(w, t)
        \/ \E w \in Workers : Start(w) \/ Sigterm(w) \/ Exit(w) \/ Crash(w)

Spec == Init /\ [][Next]_vars

(* A process that runs goes on, main as well as its consumers, and the     *)
(* group gives every topic to somebody.  Nothing restarts a worker.        *)
LiveSpec ==
  /\ Spec
  /\ \A w \in Workers, t \in Topics :
       /\ WF_vars(RunGoesOn(w, t)) /\ WF_vars(RunReturns(w, t))
       /\ WF_vars(Close(w, t))
       /\ WF_vars(owner[t] = Nobody /\ Assign(w, t))
  /\ \A w \in Workers : WF_vars(Exit(w))

-----------------------------------------------------------------------------
(* Properties.                                                             *)

(* Nobody commits or reads beyond the end of a topic, and a process that   *)
(* is gone has left the group.                                             *)
TypeOK ==
  /\ arrived \in [Topics -> Nat]
  /\ owner \in [Topics -> Workers \cup {Nobody}]
  /\ up \in [Workers -> {"down", "running", "stopping"}]
  /\ closed \in [Workers -> SUBSET Topics]
  /\ \A w \in Workers : up[w] # "stopping" => closed[w] = {}
  /\ pc \in [Workers -> [Topics -> {"fetch", "handle", "commit", "returned"}]]
  /\ offset \in [Topics -> Nat] /\ gen \in [Topics -> Nat]
  /\ pos \in [Topics -> Nat] /\ msg \in [Workers -> [Topics -> Nat]]
  /\ \A t \in Topics : arrived[t] <= Len(Content[t]) /\ offset[t] <= arrived[t]
                         /\ pos[t] <= arrived[t]
  /\ \A w \in Workers, t \in Topics :
       /\ msg[w][t] <= arrived[t]
       /\ pc[w][t] \in {"handle", "commit"} <=> msg[w][t] > 0
       /\ owner[t] = w => up[w] # "down" /\ t \notin closed[w]
       /\ up[w] = "down" => pc[w][t] = "returned"
  /\ DOMAIN times = Topics /\ \A t \in Topics : times[t] \in [Places(t) -> Nat]
  /\ \A p \in skipped : p[1] \in Topics /\ p[2] \in Places(p[1])
  /\ faults \in 0..MaxFaults

(* The message at place i of t was counted, reported as failed, or broken. *)
Handled(t, i) ==
  Content[t][i] = "event" => times[t][i] > 0 \/ <<t, i>> \in skipped

(* Whatever crashes, rebalances and overlapping owners do, no event is     *)
(* passed over without a trace: one behind the committed offset was        *)
(* counted, or an error of its Inc was logged.  The README promises more,  *)
(* OnlyBrokenSkipped, which does not hold.                                 *)
NoSilentLoss == \A t \in Topics : \A i \in 1..offset[t] : Handled(t, i)

(* README: "at-least-once: the offset is committed after processing; a     *)
(* broken event is logged and skipped".  Then every other event behind the *)
(* committed offset was counted.                                           *)
OnlyBrokenSkipped ==
  \A t \in Topics : \A i \in 1..offset[t] : Content[t][i] = "event" => times[t][i] > 0

(* Repeats come from reassignment only: an event is counted at most once   *)
(* each time its topic is given to a consumer.                             *)
OncePerAssignment == \A t \in Topics : \A i \in Places(t) : times[t][i] <= gen[t]

(* Crashes, rebalances, cancelled contexts and consumers that commit for a *)
(* topic they have lost look from outside like one careful counter, whose  *)
(* offset may go back but never passes a message that is not accounted for.*)
Counting == INSTANCE EventCounting
              WITH counted <- times, excused <- skipped, turns <- gen, settled <- offset
RefinesCounting == Counting!Spec

(* The comment on Run: one broken event does not block its partition.      *)
(* While some worker keeps running, every event is handled.                *)
EverythingProcessed ==
  (\E w \in Workers : <>[](up[w] = "running")) =>
    \A t \in Topics : \A i \in Places(t) : (arrived[t] >= i) ~> Handled(t, i)

(* A consumer that returned takes its process down: no worker goes on      *)
(* without one of its topics.                                              *)
StopsTogether ==
  \A w \in Workers, t \in Topics : At(w, t, "returned") ~> (up[w] = "down")
=============================================================================
