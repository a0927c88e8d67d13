---------------------------- MODULE WorkerProofs ----------------------------
(***************************************************************************)
(* What holds of Worker for any number of workers, topics, messages and    *)
(* failures.                                                               *)
(***************************************************************************)
EXTENDS Worker, FiniteSetTheorems, TLAPS

(* Everything before the message in hand was handled, by whoever had the   *)
(* topic then; so was everything the owner's reader has passed, except the *)
(* message its handler is working on.                                      *)
Behind ==
  \A w \in Workers, t \in Topics :
    /\ \A i \in Places(t) :
         i < msg[w][t] \/ (pc[w][t] = "commit" /\ i = msg[w][t]) => Handled(t, i)
    /\ owner[t] = w =>
         \A i \in Places(t) :
           i <= pos[t] => Handled(t, i) \/ (pc[w][t] = "handle" /\ msg[w][t] = i)

IInv == TypeOK /\ NoSilentLoss /\ Behind

LEMMA ContentType ==
  ASSUME NEW t \in Topics
  PROVE  Len(Content[t]) \in Nat /\ Places(t) = 1..Len(Content[t])
  BY WorkerBoundsAssumption DEF Places

LEMMA InitIInv == Init => IInv
<1> SUFFICES ASSUME Init PROVE IInv
  OBVIOUS
<1>1. TypeOK
  BY ContentType, WorkerBoundsAssumption, NobodyAssumption DEF Init, TypeOK
<1>2. NoSilentLoss /\ Behind
  BY ContentType, NobodyAssumption DEF Init, NoSilentLoss, Behind
<1> QED
  BY <1>1, <1>2 DEF IInv

(* Counters and the log of errors only grow.                               *)
LEMMA HandledStays ==
  ASSUME TypeOK, NEW t \in Topics, NEW i \in Places(t), Handled(t, i),
         times'[t][i] >= times[t][i], times'[t][i] \in Nat, skipped \subseteq skipped'
  PROVE  Handled(t, i)'
  BY DEF TypeOK, Handled

-----------------------------------------------------------------------------
(* Steps outside the handler.                                              *)

(* Kafka's steps.                                                          *)
LEMMA GroupIInv ==
  ASSUME IInv, NEW t \in Topics,
         Arrive(t) \/ (\E w \in Workers : Assign(w, t) \/ Close(w, t))
  PROVE  IInv'
<1>1. TypeOK'
  <2>1. CASE Arrive(t)
    BY <2>1, ContentType
    DEF IInv, TypeOK, Arrive, readers, counters
  <2>2. ASSUME NEW w \in Workers, Assign(w, t) PROVE TypeOK'
    <3>1. faults' \in 0..MaxFaults
      BY <2>2, WorkerBoundsAssumption DEF IInv, TypeOK, Assign, Disturb
    <3>2. t \notin closed[w]
      BY <2>2 DEF IInv, TypeOK, Assign
    <3>3. /\ owner' \in [Topics -> Workers \cup {Nobody}] /\ gen' \in [Topics -> Nat]
          /\ pos' \in [Topics -> Nat] /\ \A u \in Topics : pos'[u] <= arrived[u]
      BY <2>2 DEF IInv, TypeOK, Assign
    <3>4. \A v \in Workers, u \in Topics :
            owner'[u] = v => up[v] # "down" /\ u \notin closed[v]
      BY <2>2, <3>2 DEF IInv, TypeOK, Assign
    <3>5. UNCHANGED <<arrived, offset, up, closed, pc, msg, times, skipped>>
      BY <2>2 DEF Assign, counters
    <3> QED
      BY <3>1, <3>3, <3>4, <3>5, SMTT(30) DEF IInv, TypeOK
  <2>3. ASSUME NEW w \in Workers, Close(w, t) PROVE TypeOK'
    BY <2>3, NobodyAssumption DEF IInv, TypeOK, Close, readers, counters
  <2> QED
    BY <2>1, <2>2, <2>3
<1>2. UNCHANGED counters /\ UNCHANGED offset /\ UNCHANGED pc /\ UNCHANGED msg
  BY DEF Arrive, Assign, Close, readers
<1>3. \A u \in Topics : \A i \in Places(u) : Handled(u, i) => Handled(u, i)'
  BY <1>2 DEF Handled, counters
<1>4. \A u \in Topics : 1..offset[u] \subseteq Places(u)
  <2> SUFFICES ASSUME NEW u \in Topics PROVE 1..offset[u] \subseteq Places(u)
    OBVIOUS
  <2>1. offset[u] \in Nat /\ arrived[u] \in Nat /\ offset[u] <= arrived[u]
        /\ arrived[u] <= Len(Content[u])
    BY DEF IInv, TypeOK
  <2> QED
    BY <2>1, ContentType
<1>5. NoSilentLoss'
  BY <1>2, <1>3, <1>4 DEF IInv, NoSilentLoss
<1>6. Behind'
  <2> SUFFICES ASSUME NEW w \in Workers, NEW u \in Topics
               PROVE  /\ \A i \in Places(u) :
                           i < msg[w][u] \/ (pc[w][u] = "commit" /\ i = msg[w][u])
                             => Handled(u, i)'
                      /\ owner'[u] = w =>
                           \A i \in Places(u) : i <= pos'[u] =>
                             Handled(u, i)' \/ (pc[w][u] = "handle" /\ msg[w][u] = i)
    BY <1>2 DEF Behind
  <2>1. CASE owner'[u] = owner[u] /\ pos'[u] = pos[u]
    BY <1>3, <2>1 DEF IInv, Behind
  <2>2. CASE owner'[u] # w
    BY <1>3, <2>2 DEF IInv, Behind
  <2>3. CASE u = t /\ pos'[t] = offset[t]
    <3>1. offset[t] \in Nat /\ Places(t) = 1..Len(Content[t]) /\ Len(Content[t]) \in Nat
      BY ContentType DEF IInv, TypeOK
    <3>2. \A i \in Places(t) : i <= pos'[t] => Handled(t, i)'
      BY <1>3, <2>3, <3>1 DEF IInv, NoSilentLoss
    <3> QED
      BY <1>3, <2>3, <3>2 DEF IInv, Behind
  <2>4. \/ owner'[u] = owner[u] /\ pos'[u] = pos[u]
        \/ owner'[u] # w
        \/ u = t /\ pos'[t] = offset[t]
    <3>1. CASE Arrive(t)
      BY <3>1 DEF Arrive, readers
    <3>2. ASSUME NEW v \in Workers, Assign(v, t)
          PROVE  \/ owner'[u] = owner[u] /\ pos'[u] = pos[u]
                 \/ owner'[u] # w
                 \/ u = t /\ pos'[t] = offset[t]
      BY <3>2 DEF Assign, IInv, TypeOK
    <3>3. ASSUME NEW v \in Workers, Close(v, t)
          PROVE  \/ owner'[u] = owner[u] /\ pos'[u] = pos[u]
                 \/ owner'[u] # w
      BY <3>3, NobodyAssumption DEF Close, readers, IInv, TypeOK
    <3> QED
      BY <3>1, <3>2, <3>3
  <2> QED
    BY <2>1, <2>2, <2>3, <2>4
<1> QED
  BY <1>1, <1>5, <1>6 DEF IInv

(* The message in hand stays there, or goes, but not from the owner's      *)
(* handler.                                                                *)
Quiet(w, t) ==
  /\ msg'[w][t] \in {0, msg[w][t]}
  /\ pc'[w][t] = "commit" => pc[w][t] = "commit" \/ msg'[w][t] = 0
  /\ owner'[t] = w =>
       /\ owner[t] = w
       /\ pc[w][t] = "handle" => pc'[w][t] = "handle" /\ msg'[w][t] = msg[w][t]

(* Such steps keep what was handled if they touch neither counters nor     *)
(* positions.                                                              *)
LEMMA QuietStep ==
  ASSUME IInv, UNCHANGED <<counters, offset, pos>>,
         \A w \in Workers, t \in Topics : Quiet(w, t)
  PROVE  NoSilentLoss' /\ Behind'
<1>1. \A t \in Topics : \A i \in Places(t) : Handled(t, i) => Handled(t, i)'
  BY DEF Handled, counters
<1>2. \A t \in Topics : Places(t) = 1..Len(Content[t]) /\ Len(Content[t]) \in Nat
  BY ContentType
<1>3. \A t \in Topics : offset[t] \in Nat /\ offset[t] <= Len(Content[t])
  BY <1>2 DEF IInv, TypeOK
<1>4. NoSilentLoss'
  BY <1>1, <1>2, <1>3 DEF IInv, NoSilentLoss
<1>5. \A w \in Workers, t \in Topics : msg[w][t] \in Nat
  BY DEF IInv, TypeOK
<1>6. Behind'
  <2> SUFFICES ASSUME NEW w \in Workers, NEW t \in Topics, NEW i \in Places(t)
               PROVE  /\ i < msg'[w][t] \/ (pc'[w][t] = "commit" /\ i = msg'[w][t])
                            => Handled(t, i)'
                      /\ owner'[t] = w /\ i <= pos'[t] =>
                           Handled(t, i)' \/ (pc'[w][t] = "handle" /\ msg'[w][t] = i)
    BY DEF Behind
  <2>1. i \in Nat /\ i > 0
    BY <1>2
  <2> QED
    BY <1>1, <1>5, <2>1 DEF IInv, Behind, Quiet
<1> QED
  BY <1>4, <1>6

(* main, and the ways Run returns from FetchMessage.                       *)
LEMMA ProcessIInv ==
  ASSUME IInv, NEW w \in Workers,
         \/ Start(w) \/ Sigterm(w) \/ Exit(w) \/ Crash(w)
         \/ \E t \in Topics : FetchFails(w, t) \/ FetchCancelled(w, t)
  PROVE  IInv'
<1>1. TypeOK'
  <2>1. CASE Start(w)
    BY <2>1 DEF IInv, TypeOK, Start, group, readers, counters
  <2>2. CASE Sigterm(w)
    BY <2>2, WorkerBoundsAssumption DEF IInv, TypeOK, Sigterm, Disturb, group, readers, counters
  <2>3. CASE Exit(w)
    <3>1. \A t \in Topics : owner[t] # w /\ pc[w][t] = "returned"
      BY <2>3 DEF IInv, TypeOK, Exit, MayExit, At
    <3> QED
      BY <2>3, <3>1 DEF IInv, TypeOK, Exit, group, readers, counters
  <2>4. CASE Crash(w)
    BY <2>4, WorkerBoundsAssumption, NobodyAssumption
    DEF IInv, TypeOK, Crash, Disturb, group, readers, counters
  <2>5. ASSUME NEW t \in Topics, FetchFails(w, t) PROVE TypeOK'
    <3>1. /\ pc' = [pc EXCEPT ![w][t] = "returned"]
          /\ up' = [up EXCEPT ![w] = "stopping"] /\ pc[w][t] = "fetch" /\ up[w] = "running"
          /\ faults < MaxFaults /\ faults' = faults + 1
          /\ UNCHANGED <<arrived, owner, offset, gen, closed, pos, msg, times, skipped>>
      BY <2>5 DEF FetchFails, At, Goto, CancelGroup, Disturb, group, readers, counters, IInv, TypeOK
    <3> QED
      BY <3>1, WorkerBoundsAssumption, SMTT(30) DEF IInv, TypeOK
  <2>6. ASSUME NEW t \in Topics, FetchCancelled(w, t) PROVE TypeOK'
    BY <2>6 DEF IInv, TypeOK, FetchCancelled, At, Goto, group, readers, counters
  <2> QED
    BY <2>1, <2>2, <2>3, <2>4, <2>5, <2>6
<1>2. UNCHANGED <<counters, offset, pos>>
  BY DEF Start, Sigterm, Exit, Crash, FetchFails, FetchCancelled, group, readers
<1>3. ASSUME NEW v \in Workers, NEW u \in Topics PROVE Quiet(v, u)
  <2>1. CASE Start(w)
    BY <2>1 DEF Quiet, Start, IInv, TypeOK, group, readers
  <2>2. CASE Sigterm(w) \/ Exit(w)
    BY <2>2 DEF Quiet, Sigterm, Exit, group, readers
  <2>3. CASE Crash(w)
    BY <2>3, NobodyAssumption DEF Quiet, Crash, IInv, TypeOK
  <2>4. ASSUME NEW t \in Topics, FetchFails(w, t) \/ FetchCancelled(w, t) PROVE Quiet(v, u)
    <3>1. /\ pc[w][t] = "fetch" /\ pc' = [pc EXCEPT ![w][t] = "returned"]
          /\ UNCHANGED <<msg, owner>>
      BY <2>4 DEF FetchFails, FetchCancelled, At, Goto, group, readers
    <3>2. pc[v][u] = "handle" \/ pc'[v][u] = "commit" => pc'[v][u] = pc[v][u]
      BY <3>1 DEF IInv, TypeOK
    <3>3. msg'[v][u] \in {0, msg[v][u]}
      BY <3>1
    <3> QED
      BY <3>1, <3>2, <3>3 DEF Quiet
  <2> QED
    BY <2>1, <2>2, <2>3, <2>4
<1> QED
  BY <1>1, <1>2, <1>3, QuietStep DEF IInv

-----------------------------------------------------------------------------
(* Steps of Run.                                                           *)

LEMMA FetchIInv ==
  ASSUME IInv, NEW w \in Workers, NEW t \in Topics, Fetch(w, t)
  PROVE  IInv'
<1>1. /\ pc[w][t] = "fetch" /\ owner[t] = w /\ pos[t] < arrived[t]
      /\ pc' = [pc EXCEPT ![w][t] = "handle"]
      /\ msg' = [msg EXCEPT ![w][t] = pos[t] + 1]
      /\ pos' = [pos EXCEPT ![t] = pos[t] + 1]
      /\ UNCHANGED <<arrived, owner, offset, gen, up, closed, times, skipped, faults>>
  BY DEF Fetch, At, Goto, group, counters
<1>2. TypeOK'
  BY <1>1, SMTT(30) DEF IInv, TypeOK
<1>3. \A u \in Topics : \A i \in Places(u) : Handled(u, i) => Handled(u, i)'
  BY <1>1 DEF Handled
<1>4. \A u \in Topics : Places(u) = 1..Len(Content[u]) /\ Len(Content[u]) \in Nat
  BY ContentType
<1>5. \A u \in Topics : offset[u] \in Nat /\ offset[u] <= Len(Content[u])
  BY <1>4 DEF IInv, TypeOK
<1>6. NoSilentLoss'
  BY <1>1, <1>3, <1>4, <1>5 DEF IInv, NoSilentLoss
<1>7. pos[t] \in Nat /\ \A i \in Places(t) : i <= pos[t] => Handled(t, i)
  BY <1>1 DEF IInv, TypeOK, Behind
<1>8. Behind'
  <2> SUFFICES ASSUME NEW v \in Workers, NEW u \in Topics, NEW i \in Places(u)
               PROVE  /\ i < msg'[v][u] \/ (pc'[v][u] = "commit" /\ i = msg'[v][u])
                            => Handled(u, i)'
                      /\ owner'[u] = v /\ i <= pos'[u] =>
                           Handled(u, i)' \/ (pc'[v][u] = "handle" /\ msg'[v][u] = i)
    BY DEF Behind
  <2>1. i \in Nat
    BY <1>4
  <2>2. CASE v = w /\ u = t
    <3>1. pc'[v][u] = "handle" /\ msg'[v][u] = pos[t] + 1 /\ pos'[t] = pos[t] + 1
      BY <1>1, <2>2 DEF IInv, TypeOK
    <3> QED
      BY <1>3, <1>7, <2>1, <2>2, <3>1
  <2>3. CASE ~(v = w /\ u = t)
    <3>1. pc'[v][u] = pc[v][u] /\ msg'[v][u] = msg[v][u]
      BY <1>1, <2>3 DEF IInv, TypeOK
    <3>2. owner'[u] = v => owner[u] = v /\ pos'[u] = pos[u]
      BY <1>1, <2>3 DEF IInv, TypeOK
    <3> QED
      BY <1>3, <3>1, <3>2 DEF IInv, Behind
  <2> QED
    BY <2>2, <2>3
<1> QED
  BY <1>2, <1>6, <1>8 DEF IInv

(* The handler is done with the message: counted, skipped or reported.     *)
LEMMA HandlerIInv ==
  ASSUME IInv, NEW w \in Workers, NEW t \in Topics,
         SkipBroken(w, t) \/ Inc(w, t) \/ IncFails(w, t)
  PROVE  IInv'
<1>1. /\ pc[w][t] = "handle" /\ pc' = [pc EXCEPT ![w][t] = "commit"]
      /\ UNCHANGED <<arrived, owner, offset, gen, up, closed, pos, msg>>
  <2>1. CASE SkipBroken(w, t)
    BY <2>1 DEF SkipBroken, At, Goto, group, readers
  <2>2. CASE Inc(w, t)
    BY <2>2 DEF Inc, At, Goto, group, readers
  <2>3. CASE IncFails(w, t)
    BY <2>3 DEF IncFails, SkipFailed, At, Goto, group, readers
  <2> QED
    BY <2>1, <2>2, <2>3
<1>2. /\ \A u \in Topics : Places(u) = 1..Len(Content[u]) /\ Len(Content[u]) \in Nat
      /\ msg[w][t] \in Places(t)
  <2>1. /\ msg[w][t] \in Nat /\ msg[w][t] > 0 /\ arrived[t] \in Nat
        /\ msg[w][t] <= arrived[t] /\ arrived[t] <= Len(Content[t])
    BY <1>1 DEF IInv, TypeOK
  <2> QED
    BY <2>1, ContentType
<1> PICK m \in Places(t) : m = msg[w][t]
  BY <1>2
<1>3. /\ times' = times \/ times' = [times EXCEPT ![t][m] = times[t][m] + 1]
      /\ skipped' = skipped \/ skipped' = skipped \cup {<<t, m>>}
  BY DEF SkipBroken, Inc, IncFails, SkipFailed, CountOnce, counters
<1>4. /\ DOMAIN times' = Topics
      /\ \A u \in Topics : times'[u] \in [Places(u) -> Nat]
      /\ \A u \in Topics : \A i \in Places(u) : times'[u][i] >= times[u][i]
  <2>1. DOMAIN times = Topics /\ \A u \in Topics : times[u] \in [Places(u) -> Nat]
    BY DEF IInv, TypeOK
  <2>2. times[t][m] \in Nat
    BY <2>1
  <2>3. CASE times' = times
    BY <2>1, <2>3
  <2>4. CASE times' = [times EXCEPT ![t][m] = times[t][m] + 1]
    <3>1. \A u \in Topics : u # t => times'[u] = times[u]
      BY <2>1, <2>4
    <3>2. times'[t] = [times[t] EXCEPT ![m] = times[t][m] + 1]
      BY <2>1, <2>4
    <3>3. times'[t] \in [Places(t) -> Nat]
      BY <2>1, <2>2, <3>2
    <3>4. \A i \in Places(t) : times'[t][i] >= times[t][i]
      BY <2>1, <2>2, <3>2
    <3> QED
      BY <2>1, <2>4, <3>1, <3>3, <3>4
  <2> QED
    BY <1>3, <2>3, <2>4
<1>5. faults' \in 0..MaxFaults
  BY WorkerBoundsAssumption DEF SkipBroken, Inc, IncFails, Disturb, IInv, TypeOK
<1>6. TypeOK'
  <2>1. \A p \in skipped' : p[1] \in Topics /\ p[2] \in Places(p[1])
    BY <1>2, <1>3 DEF IInv, TypeOK
  <2> QED
    BY <1>1, <1>4, <1>5, <2>1 DEF IInv, TypeOK
<1>7. \A u \in Topics : \A i \in Places(u) : Handled(u, i) => Handled(u, i)'
  BY <1>3, <1>4, HandledStays DEF IInv
<1>8. Handled(t, m)'
  <2>1. CASE SkipBroken(w, t)
    <3>1. Content[t][m] = "broken"
      BY <2>1 DEF SkipBroken, InHand
    <3> QED
      BY <3>1 DEF Handled
  <2>2. CASE Inc(w, t)
    <3>1. times[t][m] \in Nat /\ times' = [times EXCEPT ![t][m] = times[t][m] + 1]
      BY <2>2 DEF Inc, CountOnce, IInv, TypeOK
    <3>2. times'[t][m] > 0
      BY <3>1 DEF IInv, TypeOK
    <3> QED
      BY <3>2 DEF Handled
  <2>3. CASE IncFails(w, t)
    <3>1. <<t, m>> \in skipped'
      BY <2>3 DEF IncFails, SkipFailed
    <3> QED
      BY <3>1 DEF Handled
  <2> QED
    BY <2>1, <2>2, <2>3
<1>9. NoSilentLoss'
  <2>1. \A u \in Topics : offset[u] \in Nat /\ offset[u] <= Len(Content[u])
    BY <1>2 DEF IInv, TypeOK
  <2> QED
    BY <1>1, <1>2, <1>7, <2>1 DEF IInv, NoSilentLoss
<1>10. Behind'
  <2> SUFFICES ASSUME NEW v \in Workers, NEW u \in Topics, NEW i \in Places(u)
               PROVE  /\ i < msg[v][u] \/ (pc'[v][u] = "commit" /\ i = msg[v][u])
                            => Handled(u, i)'
                      /\ owner[u] = v /\ i <= pos[u] =>
                           Handled(u, i)' \/ (pc'[v][u] = "handle" /\ msg[v][u] = i)
    BY <1>1 DEF Behind
  <2>1. CASE v = w /\ u = t
    BY <1>1, <1>7, <1>8, <2>1 DEF IInv, TypeOK, Behind
  <2>2. CASE ~(v = w /\ u = t)
    <3>1. pc'[v][u] = pc[v][u]
      BY <1>1, <2>2 DEF IInv, TypeOK
    <3> QED
      BY <1>7, <3>1 DEF IInv, Behind
  <2> QED
    BY <2>1, <2>2
<1> QED
  BY <1>6, <1>9, <1>10 DEF IInv

LEMMA CommitIInv ==
  ASSUME IInv, NEW w \in Workers, NEW t \in Topics,
         Commit(w, t) \/ CommitFails(w, t) \/ CommitCancelled(w, t)
  PROVE  IInv'
<1>1. /\ pc[w][t] = "commit" /\ msg' = [msg EXCEPT ![w][t] = 0]
      /\ \E l \in {"fetch", "returned"} : pc' = [pc EXCEPT ![w][t] = l]
      /\ UNCHANGED <<arrived, owner, gen, closed, pos, times, skipped>>
      /\ offset' = offset \/ offset' = [offset EXCEPT ![t] = msg[w][t]]
  BY DEF Commit, CommitFails, CommitCancelled, CommitInDoubt, MoveOffset, Drop, At, Goto,
         counters
<1>2. faults' \in 0..MaxFaults
  BY WorkerBoundsAssumption
  DEF Commit, CommitFails, CommitCancelled, Disturb, IInv, TypeOK
<1>3. up' = up \/ (up[w] = "running" /\ up' = [up EXCEPT ![w] = "stopping"])
  BY DEF Commit, CommitFails, CommitCancelled, CancelGroup
<1>4. up[w] # "down"
  BY <1>1 DEF IInv, TypeOK
<1>5. TypeOK'
  <2>1. /\ offset' \in [Topics -> Nat]
        /\ \A u \in Topics : offset'[u] <= arrived[u]
    <3>1. msg[w][t] \in Nat /\ msg[w][t] <= arrived[t]
      BY DEF IInv, TypeOK
    <3> QED
      BY <1>1, <3>1 DEF IInv, TypeOK
  <2>2. /\ pc' \in [Workers -> [Topics -> {"fetch", "handle", "commit", "returned"}]]
        /\ msg' \in [Workers -> [Topics -> Nat]]
        /\ \A v \in Workers, u \in Topics :
             /\ msg'[v][u] <= arrived[u]
             /\ pc'[v][u] \in {"handle", "commit"} <=> msg'[v][u] > 0
    BY <1>1 DEF IInv, TypeOK
  <2>3. /\ up' \in [Workers -> {"down", "running", "stopping"}]
        /\ \A v \in Workers : up'[v] # "stopping" => closed[v] = {}
        /\ \A v \in Workers : up'[v] = "down" <=> up[v] = "down"
    BY <1>3 DEF IInv, TypeOK
  <2>4. \A v \in Workers, u \in Topics : up'[v] = "down" => pc'[v][u] = "returned"
    BY <1>1, <1>4, <2>3 DEF IInv, TypeOK
  <2> QED
    BY <1>1, <1>2, <2>1, <2>2, <2>3, <2>4, SMTT(30) DEF IInv, TypeOK
<1>6. \A u \in Topics : \A i \in Places(u) : Handled(u, i) => Handled(u, i)'
  BY <1>1 DEF Handled
<1>7. \A u \in Topics : Places(u) = 1..Len(Content[u]) /\ Len(Content[u]) \in Nat
  BY ContentType
<1>8. NoSilentLoss'
  <2> SUFFICES ASSUME NEW u \in Topics, NEW i \in 1..offset'[u] PROVE Handled(u, i)'
    BY DEF NoSilentLoss
  <2>1. i \in Places(u)
    <3>1. offset'[u] \in Nat /\ offset'[u] <= arrived'[u] /\ arrived'[u] <= Len(Content[u])
          /\ arrived'[u] \in Nat
      BY <1>5 DEF TypeOK
    <3> QED
      BY <1>7, <3>1
  <2>2. CASE offset'[u] = offset[u]
    BY <1>6, <2>1, <2>2 DEF IInv, NoSilentLoss
  <2>3. CASE u = t /\ offset'[t] = msg[w][t]
    <3>1. i \in Nat /\ msg[w][t] \in Nat /\ i <= msg[w][t]
      BY <1>7, <2>1, <2>3 DEF IInv, TypeOK
    <3> QED
      BY <1>1, <1>6, <2>1, <2>3, <3>1 DEF IInv, Behind
  <2> QED
    BY <1>1, <2>2, <2>3 DEF IInv, TypeOK
<1>9. Behind'
  <2> SUFFICES ASSUME NEW v \in Workers, NEW u \in Topics, NEW i \in Places(u)
               PROVE  /\ i < msg'[v][u] \/ (pc'[v][u] = "commit" /\ i = msg'[v][u])
                            => Handled(u, i)'
                      /\ owner[u] = v /\ i <= pos[u] =>
                           Handled(u, i)' \/ (pc'[v][u] = "handle" /\ msg'[v][u] = i)
    BY <1>1 DEF Behind
  <2>1. CASE v = w /\ u = t
    <3>1. msg'[v][u] = 0 /\ pc'[v][u] # "commit"
      BY <1>1, <2>1 DEF IInv, TypeOK
    <3>2. ~(i < 0)
      BY <1>7
    <3> QED
      BY <1>1, <1>6, <2>1, <3>1, <3>2 DEF IInv, Behind
  <2>2. CASE ~(v = w /\ u = t)
    <3>1. pc'[v][u] = pc[v][u] /\ msg'[v][u] = msg[v][u]
      BY <1>1, <2>2 DEF IInv, TypeOK
    <3> QED
      BY <1>6, <3>1 DEF IInv, Behind
  <2> QED
    BY <2>1, <2>2
<1> QED
  BY <1>5, <1>8, <1>9 DEF IInv

-----------------------------------------------------------------------------
LEMMA NextIInv == IInv /\ [Next]_vars => IInv'
<1> SUFFICES ASSUME IInv, [Next]_vars PROVE IInv'
  OBVIOUS
<1>1. CASE \E t \in Topics : Arrive(t)
  BY <1>1, GroupIInv
<1>2. ASSUME NEW w \in Workers, NEW t \in Topics, ConsumerStep(w, t) PROVE IInv'
  BY <1>2, GroupIInv, FetchIInv, HandlerIInv, CommitIInv, ProcessIInv
  DEF ConsumerStep, RunGoesOn, RunReturns
<1>3. ASSUME NEW w \in Workers, Start(w) \/ Sigterm(w) \/ Exit(w) \/ Crash(w)
      PROVE  IInv'
  BY <1>3, ProcessIInv
<1>4. CASE UNCHANGED vars
  BY <1>4 DEF vars, group, readers, counters, IInv, TypeOK, NoSilentLoss, Behind, Handled
<1> QED
  BY <1>1, <1>2, <1>3, <1>4 DEF Next

LEMMA Invariance == Spec => []IInv
  BY InitIInv, NextIInv, PTL DEF Spec

(* Readers, commits and the messages in hand stay within their topics, and *)
(* a process that is gone has left the group, whatever crashes or stops.   *)
THEOREM TypeCorrect == Spec => []TypeOK
<1>1. IInv => TypeOK
  BY DEF IInv
<1> QED
  BY <1>1, Invariance, PTL

(* No number of crashes, rebalances and overlapping owners makes the group *)
(* pass over an event that was neither counted nor reported as failed.     *)
THEOREM AtLeastOnce == Spec => []NoSilentLoss
<1>1. IInv => NoSilentLoss
  BY DEF IInv
<1> QED
  BY <1>1, Invariance, PTL

-----------------------------------------------------------------------------
(* How often a message may still be counted.                               *)

(* The consumers whose handler is about to count message i of t.           *)
Holders(t, i) == {w \in Workers : pc[w][t] = "handle" /\ msg[w][t] = i}

(* Whether the owner of t has yet to fetch message i.                      *)
ToCome(t, i) == IF owner[t] # Nobody /\ pos[t] < i THEN 1 ELSE 0

(* Each assignment of t paid for one count of message i at most: it was    *)
(* counted, is about to be, or the owner's reader is still before it.      *)
PaidFor(t, i) ==
  /\ IsFiniteSet(Holders(t, i))
  /\ times[t][i] + Cardinality(Holders(t, i)) + ToCome(t, i) <= gen[t]

Accounted == \A t \in Topics : \A i \in Places(t) : PaidFor(t, i)

(* What the lemmas below need to know of the numbers.                      *)
LEMMA Numbers ==
  ASSUME TypeOK, NEW t \in Topics, NEW i \in Places(t)
  PROVE  /\ times[t][i] \in Nat /\ gen[t] \in Nat /\ pos[t] \in Nat /\ i \in Nat
         /\ ToCome(t, i) \in {0, 1}
<1>1. times[t][i] \in Nat /\ gen[t] \in Nat /\ pos[t] \in Nat
  BY DEF TypeOK
<1>2. i \in Nat
  BY ContentType
<1>3. ToCome(t, i) \in {0, 1}
  BY DEF ToCome
<1> QED
  BY <1>1, <1>2, <1>3

LEMMA InitAccounted == Init => Accounted
<1> SUFFICES ASSUME Init, NEW t \in Topics, NEW i \in Places(t) PROVE PaidFor(t, i)
  BY DEF Accounted
<1>1. Holders(t, i) = {}
  BY DEF Init, Holders
<1>2. IsFiniteSet(Holders(t, i)) /\ Cardinality(Holders(t, i)) = 0
  BY <1>1, FS_EmptySet
<1>3. times[t][i] = 0 /\ gen[t] = 0 /\ ToCome(t, i) = 0
  BY DEF Init, ToCome
<1> QED
  BY <1>2, <1>3 DEF PaidFor

(* Holders that put the message down, and an owner that goes, do no harm.  *)
LEMMA FewerHolders ==
  ASSUME TypeOK, TypeOK', NEW t \in Topics, NEW i \in Places(t), PaidFor(t, i),
         Holders(t, i)' \subseteq Holders(t, i), ToCome(t, i)' <= ToCome(t, i),
         times'[t][i] = times[t][i], gen'[t] = gen[t]
  PROVE  PaidFor(t, i)'
<1>1. /\ IsFiniteSet(Holders(t, i)')
      /\ Cardinality(Holders(t, i)') <= Cardinality(Holders(t, i))
  BY FS_Subset DEF PaidFor
<1>2. Cardinality(Holders(t, i)) \in Nat /\ Cardinality(Holders(t, i)') \in Nat
  BY <1>1, FS_CardinalityType DEF PaidFor
<1>3. times[t][i] \in Nat /\ gen[t] \in Nat /\ ToCome(t, i) \in {0, 1}
  BY Numbers
<1>4. ToCome(t, i)' \in {0, 1}
  BY DEF ToCome
<1>5. times[t][i] + Cardinality(Holders(t, i)') + ToCome(t, i)' <= gen[t]
  BY <1>1, <1>2, <1>3, <1>4 DEF PaidFor
<1> QED
  BY <1>1, <1>5 DEF PaidFor

(* A new owner may count every message once more.                          *)
LEMMA AssignAccounted ==
  ASSUME IInv, IInv', Accounted, NEW w \in Workers, NEW t \in Topics, Assign(w, t)
  PROVE  Accounted'
<1> USE DEF IInv
<1> SUFFICES ASSUME NEW u \in Topics, NEW i \in Places(u) PROVE PaidFor(u, i)'
  BY DEF Accounted
<1>1. PaidFor(u, i) /\ UNCHANGED <<pc, msg, times>>
  BY DEF Accounted, Assign, counters
<1>2. Holders(u, i)' = Holders(u, i)
  BY <1>1 DEF Holders
<1>3. CASE u # t
  <2>1. gen'[u] = gen[u] /\ owner'[u] = owner[u] /\ pos'[u] = pos[u]
    BY <1>3 DEF Assign, TypeOK
  <2>2. ToCome(u, i)' = ToCome(u, i) /\ ToCome(u, i) \in {0, 1}
    BY <2>1, Numbers DEF ToCome
  <2>3. ToCome(u, i)' <= ToCome(u, i)
    BY <2>2
  <2> QED
    BY <1>1, <1>2, <2>1, <2>3, FewerHolders
<1>4. CASE u = t
  <2>1. gen'[u] = gen[u] + 1
    BY <1>4 DEF Assign, TypeOK
  <2>2. Cardinality(Holders(u, i)) \in Nat
    BY <1>1, FS_CardinalityType DEF PaidFor
  <2>3. times[u][i] \in Nat /\ gen[u] \in Nat /\ ToCome(u, i) \in {0, 1}
    BY Numbers
  <2>4. ToCome(u, i)' \in {0, 1}
    BY DEF ToCome
  <2>5. times[u][i] + Cardinality(Holders(u, i)) + ToCome(u, i)' <= gen'[u]
    BY <1>1, <2>1, <2>2, <2>3, <2>4 DEF PaidFor
  <2> QED
    BY <1>1, <1>2, <2>5 DEF PaidFor
<1> QED
  BY <1>3, <1>4

(* The owner's reader passes a message and its handler has it.             *)
LEMMA FetchAccounted ==
  ASSUME IInv, IInv', Accounted, NEW w \in Workers, NEW t \in Topics, Fetch(w, t)
  PROVE  Accounted'
<1> USE DEF IInv
<1> SUFFICES ASSUME NEW u \in Topics, NEW i \in Places(u) PROVE PaidFor(u, i)'
  BY DEF Accounted
<1>1. /\ PaidFor(u, i) /\ UNCHANGED <<owner, gen, times>>
      /\ pc[w][t] = "fetch" /\ owner[t] = w
      /\ pos' = [pos EXCEPT ![t] = pos[t] + 1]
      /\ msg' = [msg EXCEPT ![w][t] = pos[t] + 1]
      /\ pc' = [pc EXCEPT ![w][t] = "handle"]
  BY DEF Accounted, Fetch, At, Goto, group, counters
<1>2. pos[t] \in Nat /\ i \in Nat /\ w # Nobody
  BY Numbers, NobodyAssumption DEF TypeOK
<1>3. CASE u = t /\ i = pos[t] + 1
  <2>1. Holders(u, i)' \subseteq Holders(u, i) \cup {w}
    BY <1>1 DEF Holders, TypeOK
  <2>2. /\ IsFiniteSet(Holders(u, i) \cup {w})
        /\ Cardinality(Holders(u, i)) \in Nat
        /\ Cardinality(Holders(u, i) \cup {w}) <= Cardinality(Holders(u, i)) + 1
    <3>1. IsFiniteSet(Holders(u, i))
      BY <1>1 DEF PaidFor
    <3>2. Cardinality(Holders(u, i)) \in Nat
      BY <3>1, FS_CardinalityType
    <3>3. /\ IsFiniteSet(Holders(u, i) \cup {w})
          /\ Cardinality(Holders(u, i) \cup {w}) =
               IF w \in Holders(u, i) THEN Cardinality(Holders(u, i))
               ELSE Cardinality(Holders(u, i)) + 1
      BY <3>1, FS_AddElement, Zenon
    <3> QED
      BY <3>2, <3>3
  <2>3. /\ IsFiniteSet(Holders(u, i)')
        /\ Cardinality(Holders(u, i)') <= Cardinality(Holders(u, i) \cup {w})
    BY <2>1, <2>2, FS_Subset
  <2>4. /\ Cardinality(Holders(u, i)') \in Nat
        /\ Cardinality(Holders(u, i) \cup {w}) \in Nat
    BY <2>2, <2>3, FS_CardinalityType
  <2>5. ToCome(u, i) = 1
    BY <1>1, <1>2, <1>3 DEF ToCome
  <2>6. ToCome(u, i)' = 0
    BY <1>1, <1>2, <1>3 DEF ToCome, TypeOK
  <2>7. times[u][i] \in Nat /\ gen[u] \in Nat
    BY Numbers
  <2>8. times[u][i] + Cardinality(Holders(u, i)') + 0 <= gen[u]
    BY <1>1, <2>2, <2>3, <2>4, <2>5, <2>7 DEF PaidFor
  <2> QED
    BY <1>1, <2>3, <2>6, <2>8 DEF PaidFor
<1>4. CASE ~(u = t /\ i = pos[t] + 1)
  <2>1. Holders(u, i)' \subseteq Holders(u, i)
    <3> SUFFICES ASSUME NEW v \in Workers, pc'[v][u] = "handle", msg'[v][u] = i
                 PROVE  pc[v][u] = "handle" /\ msg[v][u] = i
      BY DEF Holders
    <3>1. msg'[w][t] = pos[t] + 1
      BY <1>1 DEF TypeOK
    <3>2. ~(v = w /\ u = t)
      BY <1>4, <3>1
    <3>3. pc'[v][u] = pc[v][u] /\ msg'[v][u] = msg[v][u]
      <4>1. pc'[v] = IF v = w THEN [pc[w] EXCEPT ![t] = "handle"] ELSE pc[v]
        BY <1>1 DEF TypeOK
      <4>2. msg'[v] = IF v = w THEN [msg[w] EXCEPT ![t] = pos[t] + 1] ELSE msg[v]
        BY <1>1 DEF TypeOK
      <4>3. DOMAIN pc[w] = Topics /\ DOMAIN msg[w] = Topics
        BY DEF TypeOK
      <4>4. CASE v # w
        BY <4>1, <4>2, <4>4
      <4>5. CASE v = w /\ u # t
        BY <4>1, <4>2, <4>3, <4>5
      <4> QED
        BY <3>2, <4>4, <4>5
    <3> QED
      BY <3>3
  <2>2. pos[u] <= pos'[u] /\ pos[u] \in Nat /\ pos'[u] \in Nat
    <3>1. pos \in [Topics -> Nat]
      BY DEF TypeOK
    <3> QED
      BY <1>1, <3>1
  <2>3. ToCome(u, i)' <= ToCome(u, i)
    BY <1>1, <1>2, <2>2 DEF ToCome
  <2> QED
    BY <1>1, <2>1, <2>3, FewerHolders
<1> QED
  BY <1>3, <1>4

(* A handler that counts a message is done with it.                        *)
LEMMA HandlerAccounted ==
  ASSUME IInv, IInv', Accounted, NEW w \in Workers, NEW t \in Topics,
         SkipBroken(w, t) \/ Inc(w, t) \/ IncFails(w, t)
  PROVE  Accounted'
<1> USE DEF IInv
<1> SUFFICES ASSUME NEW u \in Topics, NEW i \in Places(u) PROVE PaidFor(u, i)'
  BY DEF Accounted
<1>1. /\ PaidFor(u, i) /\ UNCHANGED <<owner, gen, pos, msg>>
      /\ pc[w][t] = "handle"
      /\ pc' = [pc EXCEPT ![w][t] = "commit"]
      /\ times' = times \/ CountOnce(w, t)
  BY DEF Accounted, SkipBroken, Inc, IncFails, SkipFailed, At, Goto, group, readers, counters
<1>2. Holders(u, i)' \subseteq Holders(u, i)
  BY <1>1 DEF Holders, TypeOK
<1>3. ToCome(u, i)' = ToCome(u, i) /\ ToCome(u, i) \in {0, 1}
  BY <1>1, Numbers DEF ToCome
<1>4. times[u][i] \in Nat /\ gen[u] \in Nat /\ DOMAIN times = Topics
      /\ DOMAIN times[u] = Places(u)
  BY Numbers DEF TypeOK
<1>5. CASE times'[u][i] = times[u][i]
  <2>1. ToCome(u, i)' <= ToCome(u, i)
    BY <1>3
  <2> QED
    BY <1>1, <1>2, <1>5, <2>1, FewerHolders
<1>6. CASE u = t /\ msg[w][t] = i /\ times'[u][i] = times[u][i] + 1
  <2>1. Holders(u, i)' = Holders(u, i) \ {w} /\ w \in Holders(u, i)
    BY <1>1, <1>6 DEF Holders, TypeOK
  <2>2. /\ IsFiniteSet(Holders(u, i) \ {w})
        /\ Cardinality(Holders(u, i) \ {w}) = Cardinality(Holders(u, i)) - 1
    BY <1>1, <2>1, FS_RemoveElement DEF PaidFor
  <2>3. Cardinality(Holders(u, i)) \in Nat
    BY <1>1, FS_CardinalityType DEF PaidFor
  <2>4. times'[u][i] + Cardinality(Holders(u, i) \ {w}) + ToCome(u, i) <= gen[u]
    BY <1>1, <1>3, <1>4, <1>6, <2>2, <2>3 DEF PaidFor
  <2> QED
    BY <1>1, <1>3, <2>1, <2>2, <2>4 DEF PaidFor
<1>7. \/ times'[u][i] = times[u][i]
      \/ u = t /\ msg[w][t] = i /\ times'[u][i] = times[u][i] + 1
  <2>1. ASSUME CountOnce(w, t)
        PROVE  times' = [times EXCEPT ![t] = [times[t] EXCEPT ![msg[w][t]] = @ + 1]]
    BY <2>1 DEF CountOnce
  <2>2. CASE u # t
    BY <1>1, <1>4, <2>1, <2>2
  <2>3. CASE u = t
    <3>1. ASSUME CountOnce(w, t)
          PROVE  times'[u] = [times[u] EXCEPT ![msg[w][t]] = @ + 1]
      BY <1>4, <2>1, <2>3, <3>1
    <3> QED
      BY <1>1, <1>4, <2>3, <3>1
  <2> QED
    BY <2>2, <2>3
<1> QED
  BY <1>5, <1>6, <1>7

(* Everything else takes consumers out of their handlers, or leaves them.  *)
LEMMA QuietAccounted ==
  ASSUME IInv, IInv', Accounted, UNCHANGED <<times, gen, pos>>,
         \A t \in Topics : owner'[t] \in {owner[t], Nobody},
         \A w \in Workers, t \in Topics :
           pc'[w][t] = "handle" => pc[w][t] = "handle" /\ msg'[w][t] = msg[w][t]
  PROVE  Accounted'
<1> USE DEF IInv
<1> SUFFICES ASSUME NEW t \in Topics, NEW i \in Places(t) PROVE PaidFor(t, i)'
  BY DEF Accounted
<1>1. Holders(t, i)' \subseteq Holders(t, i)
  BY DEF Holders
<1>2. ToCome(t, i)' <= ToCome(t, i)
  BY DEF ToCome
<1> QED
  BY <1>1, <1>2, FewerHolders DEF Accounted

LEMMA NextAccounted == IInv /\ IInv' /\ Accounted /\ [Next]_vars => Accounted'
<1> SUFFICES ASSUME IInv, IInv', Accounted, [Next]_vars PROVE Accounted'
  OBVIOUS
<1> DEFINE Done == /\ UNCHANGED <<times, gen, pos>>
                   /\ \A t \in Topics : owner'[t] \in {owner[t], Nobody}
                   /\ \A w \in Workers, t \in Topics :
                        pc'[w][t] = "handle" =>
                          pc[w][t] = "handle" /\ msg'[w][t] = msg[w][t]
<1>1. ASSUME Done PROVE Accounted'
  BY <1>1, QuietAccounted
<1>2. CASE \E t \in Topics : Arrive(t)
  BY <1>1, <1>2 DEF Arrive, readers, counters
<1>3. ASSUME NEW w \in Workers, NEW t \in Topics, ConsumerStep(w, t) PROVE Accounted'
  <2>1. CASE Assign(w, t)
    BY <2>1, AssignAccounted
  <2>2. CASE Fetch(w, t)
    BY <2>2, FetchAccounted
  <2>3. CASE SkipBroken(w, t) \/ Inc(w, t) \/ IncFails(w, t)
    BY <2>3, HandlerAccounted
  <2>4. CASE FetchFails(w, t) \/ FetchCancelled(w, t)
    <3>1. /\ pc' = [pc EXCEPT ![w][t] = "returned"]
          /\ UNCHANGED <<msg, owner, times, gen, pos>>
      BY <2>4 DEF FetchFails, FetchCancelled, Goto, group, readers, counters
    <3>2. Done
      BY <3>1 DEF IInv, TypeOK
    <3> QED
      BY <1>1, <3>2
  <2>5. CASE Commit(w, t) \/ CommitFails(w, t) \/ CommitCancelled(w, t)
    <3>1. /\ \E l \in {"fetch", "returned"} : pc' = [pc EXCEPT ![w][t] = l]
          /\ msg' = [msg EXCEPT ![w][t] = 0]
          /\ UNCHANGED <<owner, times, gen, pos>>
      BY <2>5 DEF Commit, CommitFails, CommitCancelled, CommitInDoubt, Drop, Goto, counters
    <3>2. ASSUME NEW v \in Workers, NEW u \in Topics, pc'[v][u] = "handle"
          PROVE  pc[v][u] = "handle" /\ msg'[v][u] = msg[v][u]
      BY <3>1, <3>2, SMTT(30) DEF IInv, TypeOK
    <3>3. Done
      BY <3>1, <3>2
    <3> QED
      BY <1>1, <3>3
  <2>6. CASE Close(w, t)
    <3>1. Done
      BY <2>6 DEF Close, readers, counters, IInv, TypeOK
    <3> QED
      BY <1>1, <3>1
  <2> QED
    BY <1>3, <2>1, <2>2, <2>3, <2>4, <2>5, <2>6 DEF ConsumerStep, RunGoesOn, RunReturns
<1>4. ASSUME NEW w \in Workers, Start(w) \/ Sigterm(w) \/ Exit(w) PROVE Accounted'
  <2>1. Done
    BY <1>4, SMTT(30) DEF Start, Sigterm, Exit, group, readers, counters, IInv, TypeOK
  <2> QED
    BY <1>1, <2>1
<1>5. ASSUME NEW w \in Workers, Crash(w) PROVE Accounted'
  <2>1. Done
    BY <1>5 DEF Crash, counters, IInv, TypeOK
  <2> QED
    BY <1>1, <2>1
<1>6. CASE UNCHANGED vars
  BY <1>1, <1>6 DEF vars, group, readers, counters
<1> QED
  BY <1>2, <1>3, <1>4, <1>5, <1>6 DEF Next

(* No message is counted more often than its topic was given to somebody,  *)
(* however consumers that lost it overlap with the one that has it.        *)
THEOREM RepeatsNeedReassignment == Spec => []OncePerAssignment
<1>1. TypeOK /\ Accounted => OncePerAssignment
  <2> SUFFICES ASSUME TypeOK, Accounted, NEW t \in Topics, NEW i \in Places(t)
               PROVE  times[t][i] <= gen[t]
    BY DEF OncePerAssignment
  <2>1. PaidFor(t, i) /\ Cardinality(Holders(t, i)) \in Nat
    BY FS_CardinalityType DEF Accounted, PaidFor
  <2> QED
    BY <2>1, Numbers DEF PaidFor
<1>2. IInv => TypeOK
  BY DEF IInv
<1> QED
  BY <1>1, <1>2, Invariance, InitAccounted, NextAccounted, PTL DEF Spec

-----------------------------------------------------------------------------
(* The refinement.                                                         *)

(* What a consumer has in hand is a message of its topic.                  *)
LEMMA HandFull ==
  ASSUME TypeOK, NEW w \in Workers, NEW t \in Topics, pc[w][t] \in {"handle", "commit"}
  PROVE  msg[w][t] \in 1..arrived[t] /\ msg[w][t] \in Places(t)
<1>1. /\ msg[w][t] \in Nat /\ msg[w][t] > 0 /\ arrived[t] \in Nat
      /\ msg[w][t] <= arrived[t] /\ arrived[t] <= Len(Content[t])
  BY DEF TypeOK
<1> QED
  BY <1>1, ContentType

(* A handler at work has its count still to its credit.                    *)
LEMMA CountInCredit ==
  ASSUME TypeOK, Accounted, NEW w \in Workers, NEW t \in Topics, pc[w][t] = "handle"
  PROVE  times[t][msg[w][t]] < gen[t]
<1> DEFINE i == msg[w][t]
<1>1. i \in Places(t)
  BY HandFull
<1>2. w \in Holders(t, i)
  BY DEF Holders
<1> HIDE DEF i
<1>3. PaidFor(t, i) /\ IsFiniteSet(Holders(t, i))
  BY <1>1 DEF Accounted, PaidFor
<1>4. Cardinality(Holders(t, i)) \in Nat /\ Cardinality(Holders(t, i)) # 0
  BY <1>2, <1>3, FS_CardinalityType, FS_EmptySet
<1>5. times[t][i] \in Nat /\ gen[t] \in Nat /\ ToCome(t, i) \in {0, 1}
  BY <1>1, Numbers
<1>6. times[t][i] < gen[t]
  BY <1>3, <1>4, <1>5 DEF PaidFor
<1> QED
  BY <1>6 DEF i

(* A commit settles the topic up to its message, or nothing.               *)
LEMMA CommitSettles ==
  ASSUME IInv, NEW w \in Workers, NEW t \in Topics, pc[w][t] = "commit",
         UNCHANGED <<arrived, gen, counters>>, MoveOffset(w, t)
  PROVE  Counting!Settle(t, msg[w][t])
<1> DEFINE n == msg[w][t]
<1>1. n \in 1..arrived[t] /\ n \in Places(t)
  BY HandFull DEF IInv
<1>2. n \in Nat /\ 1..n \subseteq Places(t)
  BY <1>1, ContentType
<1>3. \A i \in 1..n : Handled(t, i)
  <2> SUFFICES ASSUME NEW i \in 1..n PROVE Handled(t, i)
    OBVIOUS
  <2>1. i \in Places(t) /\ (i < n \/ i = n)
    BY <1>2
  <2> QED
    BY <2>1 DEF IInv, Behind
<1> QED
  BY <1>3 DEF Counting!Settle, Counting!IsEvent, Handled, MoveOffset, counters

LEMMA RunCounts ==
  ASSUME IInv, Accounted, NEW w \in Workers, NEW t \in Topics, ConsumerStep(w, t)
  PROVE  [Counting!Next]_(Counting!vars)
<1>0. TypeOK
  BY DEF IInv
<1>1. CASE Fetch(w, t) \/ SkipBroken(w, t) \/ FetchFails(w, t) \/ FetchCancelled(w, t)
           \/ Close(w, t)
  BY <1>1 DEF Fetch, SkipBroken, FetchFails, FetchCancelled, Close, group, counters,
     Counting!vars
<1>2. CASE Assign(w, t)
  BY <1>2 DEF Assign, counters, Counting!Next, Counting!HandOut
<1>3. CASE Inc(w, t) \/ IncFails(w, t)
  <2>1. /\ pc[w][t] = "handle" /\ Content[t][msg[w][t]] = "event"
        /\ UNCHANGED group
    BY <1>3 DEF Inc, IncFails, At, InHand
  <2>2. msg[w][t] \in 1..arrived[t] /\ times[t][msg[w][t]] < gen[t]
    BY <1>0, <2>1, HandFull, CountInCredit
  <2>3. /\ CountOnce(w, t) \/ UNCHANGED times
        /\ CountOnce(w, t) => skipped' \in {skipped, skipped \cup {<<t, msg[w][t]>>}}
        /\ UNCHANGED times => \/ skipped' = skipped \cup {<<t, msg[w][t]>>}
                              \/ CountOnce(w, t)
    BY <1>3 DEF Inc, IncFails, SkipFailed
  <2>4. CASE CountOnce(w, t)
    <3>1. Counting!Count(t, msg[w][t])
      BY <2>1, <2>2, <2>3, <2>4
      DEF Counting!Count, Counting!IsEvent, CountOnce, group
    <3> QED
      BY <2>2, <3>1 DEF Counting!Next
  <2>5. CASE UNCHANGED times /\ skipped' = skipped \cup {<<t, msg[w][t]>>}
    <3>1. Counting!Excuse(t, msg[w][t])
      BY <2>1, <2>5 DEF Counting!Excuse, Counting!IsEvent, group
    <3> QED
      BY <2>2, <3>1 DEF Counting!Next
  <2> QED
    BY <2>3, <2>4, <2>5
<1>4. CASE Commit(w, t) \/ CommitFails(w, t) \/ CommitCancelled(w, t)
  <2>1. pc[w][t] = "commit" /\ UNCHANGED <<arrived, gen, counters>>
    BY <1>4 DEF Commit, CommitFails, CommitCancelled, CommitInDoubt, At
  <2>2. MoveOffset(w, t) \/ UNCHANGED offset
    BY <1>4 DEF Commit, CommitFails, CommitCancelled, CommitInDoubt
  <2>3. msg[w][t] \in 1..arrived[t]
    BY <1>0, <2>1, HandFull
  <2>4. CASE MoveOffset(w, t)
    BY <2>1, <2>3, <2>4, CommitSettles DEF Counting!Next
  <2>5. CASE UNCHANGED offset
    BY <2>1, <2>5 DEF counters, Counting!vars
  <2> QED
    BY <2>2, <2>4, <2>5
<1> QED
  BY <1>1, <1>2, <1>3, <1>4 DEF ConsumerStep, RunGoesOn, RunReturns

LEMMA NextCounts ==
  ASSUME IInv, Accounted, [Next]_vars
  PROVE  [Counting!Next]_(Counting!vars)
<1>1. ASSUME NEW t \in Topics, Arrive(t) PROVE Counting!Next
  BY <1>1 DEF Arrive, counters, Counting!Next, Counting!Arrive
<1>2. CASE \E w \in Workers, t \in Topics : ConsumerStep(w, t)
  BY <1>2, RunCounts
<1>3. ASSUME NEW w \in Workers, Start(w) \/ Sigterm(w) \/ Exit(w) \/ Crash(w)
      PROVE  UNCHANGED Counting!vars
  BY <1>3 DEF Start, Sigterm, Exit, Crash, group, counters, Counting!vars
<1>4. CASE UNCHANGED vars
  BY <1>4 DEF vars, group, counters, Counting!vars
<1> QED
  BY <1>1, <1>2, <1>3, <1>4 DEF Next

(* Any number of worker processes that crash, lose their topics and commit *)
(* late are together one counter that accounts for every event it passes   *)
(* and counts none twice in a turn.                                        *)
THEOREM Refinement == Spec => RefinesCounting
<1>1. Init => Counting!Init
  BY DEF Init, Counting!Init, Places
<1>2. IInv /\ Accounted /\ [Next]_vars => [Counting!Next]_(Counting!vars)
  BY NextCounts
<1> QED
  BY <1>1, <1>2, Invariance, InitAccounted, NextAccounted, PTL
  DEF Spec, RefinesCounting, Counting!Spec
=============================================================================
