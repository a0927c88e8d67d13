----------------------------- MODULE AuthProofs -----------------------------
(***************************************************************************)
(* What holds of Auth for every set of requests and tokens and any number  *)
(* of failures, lost answers and restarts of Redis.                        *)
(***************************************************************************)
EXTENDS Auth, TLAPS

(* Tokens form chains: one per login, each with one end.                   *)
Chains ==
  /\ \A k \in Tokens : parent[k] # NoToken =>
       /\ k \in Issued /\ parent[k] \in Issued
       /\ root[k] = root[parent[k]]
  /\ \A k \in Issued : root[k] \in Issued
  /\ \A j, k \in Issued :
       root[j] = root[k] /\ IsLatest(j) /\ IsLatest(k) => j = k

(* What Redis accepts, or is about to, is the end of a chain and was not   *)
(* logged out; every token is saved by one request.                        *)
OnlyEndsLive ==
  /\ \A k \in store \cup BeingSaved : IsLatest(k) /\ k \notin loggedOut
  /\ \A r, q \in Requests :
       pc[r] = "save" /\ pc[q] = "save" /\ new[r] = new[q] => r = q

IInv == TypeOK /\ Chains /\ SingleUse /\ OnlyEndsLive

LEMMA InitIInv == Init => IInv
<1> SUFFICES ASSUME Init PROVE IInv
  OBVIOUS
<1>1. Issued = {} /\ BeingSaved = {}
  BY DEF Init, Issued, BeingSaved
<1>2. TypeOK
  BY <1>1, FaultsAssumption DEF Init, TypeOK
<1>3. Chains /\ SingleUse /\ OnlyEndsLive
  BY <1>1 DEF Init, Chains, SingleUse, OnlyEndsLive
<1> QED
  BY <1>2, <1>3 DEF IInv

-----------------------------------------------------------------------------
(* A new token starts a chain or is put behind the end of one.             *)
LEMMA NewEnd ==
  ASSUME IInv, NEW k \in Tokens \ Issued, NEW session, NEW from,
         \/ from = NoToken /\ session = k
         \/ from \in Issued /\ IsLatest(from) /\ session = root[from],
         root' = [root EXCEPT ![k] = session],
         parent' = [parent EXCEPT ![k] = from]
  PROVE  /\ Chains' /\ SingleUse'
         /\ Issued' = Issued \cup {k}
         /\ IsLatest(k)'
         /\ \A j \in Issued : IsLatest(j)' <=> j # from /\ IsLatest(j)
         /\ \A j \in Issued : root'[j] = root[j]
         /\ root'[k] = session
<1> USE NoTokenAssumption
<1>1. /\ root \in [Tokens -> Tokens \cup {NoToken}]
      /\ parent \in [Tokens -> Tokens \cup {NoToken}]
      /\ Issued \subseteq Tokens
  BY DEF IInv, TypeOK, Issued
<1>2. /\ root'[k] = session /\ parent'[k] = from
      /\ \A j \in Tokens : j # k => root'[j] = root[j] /\ parent'[j] = parent[j]
  BY <1>1
<1>3. session \in Tokens
  BY <1>1 DEF IInv, Chains
<1>4. Issued' = Issued \cup {k}
  BY <1>1, <1>2, <1>3 DEF Issued
<1>5. parent[k] = NoToken /\ \A j \in Tokens : parent[j] # k
  BY <1>1 DEF IInv, Chains
<1>6. IsLatest(k)'
  BY <1>2, <1>5 DEF IsLatest
<1>7. \A j \in Issued : j # from /\ IsLatest(j) => IsLatest(j)'
  BY <1>1, <1>2 DEF IsLatest
<1>8. \A j \in Issued : IsLatest(j)' => IsLatest(j) /\ j # from
  BY <1>1, <1>2, <1>5 DEF IsLatest
<1>9. \A j \in Issued : root'[j] = root[j]
  BY <1>1, <1>2
<1>10. Chains'
  <2>1. ASSUME NEW j \in Tokens, parent'[j] # NoToken
        PROVE  /\ j \in Issued' /\ parent'[j] \in Issued'
               /\ root'[j] = root'[parent'[j]]
    <3>1. CASE j = k
      BY <1>2, <1>4, <1>9, <2>1, <3>1
    <3>2. CASE j # k
      BY <1>2, <1>4, <1>9, <2>1, <3>2 DEF IInv, Chains
    <3> QED
      BY <3>1, <3>2
  <2>2. \A j \in Issued' : root'[j] \in Issued'
    BY <1>2, <1>4, <1>9 DEF IInv, Chains
  <2>3. ASSUME NEW j \in Issued, IsLatest(j)'
        PROVE  root'[j] # root'[k]
    <3>1. IsLatest(j) /\ j # from /\ root'[j] = root[j]
      BY <1>8, <1>9, <2>3
    <3>2. CASE from = NoToken /\ session = k
      BY <1>2, <3>1, <3>2 DEF IInv, Chains
    <3>3. CASE from \in Issued /\ IsLatest(from) /\ session = root[from]
      BY <1>2, <3>1, <3>3 DEF IInv, Chains
    <3> QED
      BY <3>2, <3>3
  <2>4. ASSUME NEW i \in Issued', NEW j \in Issued',
               root'[i] = root'[j], IsLatest(i)', IsLatest(j)'
        PROVE  i = j
    <3>1. CASE i = k \/ j = k
      BY <1>4, <2>3, <2>4, <3>1
    <3>2. CASE i # k /\ j # k
      BY <1>4, <1>8, <1>9, <2>4, <3>2 DEF IInv, Chains
    <3> QED
      BY <3>1, <3>2
  <2> QED
    BY <2>1, <2>2, <2>4 DEF Chains
<1>11. SingleUse'
  <2> SUFFICES ASSUME NEW k1 \in Tokens, NEW k2 \in Tokens,
                      parent'[k1] # NoToken, parent'[k1] = parent'[k2]
               PROVE  k1 = k2
    BY DEF SingleUse
  <2>1. CASE k1 # k /\ k2 # k
    BY <1>2, <2>1 DEF IInv, SingleUse
  <2>2. CASE k1 = k \/ k2 = k
    BY <1>2, <2>2 DEF IsLatest
  <2> QED
    BY <2>1, <2>2
<1> QED
  BY <1>2, <1>4, <1>6, <1>7, <1>8, <1>9, <1>10, <1>11

(* generateTokens up to Save: the request holds the end of the chain, and  *)
(* the sessions that were logged out stay the same.                        *)
LEMMA Signed ==
  ASSUME IInv, NEW r \in Requests, pc[r] # "save",
         NEW session, NEW from, Sign(r, session, from),
         \/ from = NoToken /\ session = NoToken
         \/ from \in store /\ session = root[from]
  PROVE  \E k \in Tokens \ Issued :
           /\ new' = [new EXCEPT ![r] = k]
           /\ pc' = [pc EXCEPT ![r] = "save"]
           /\ BeingSaved' = BeingSaved \cup {k}
           /\ loggedOut' = loggedOut /\ Ended' = Ended
           /\ parent' \in [Tokens -> Tokens \cup {NoToken}]
           /\ root' \in [Tokens -> Tokens \cup {NoToken}]
           /\ Chains' /\ SingleUse'
           /\ Issued' = Issued \cup {k}
           /\ IsLatest(k)'
           /\ \A j \in Issued : IsLatest(j)' <=> j # from /\ IsLatest(j)
           /\ \A j \in Issued : root'[j] = root[j]
           /\ from \in store => root'[k] = root[from]
           /\ \A j \in loggedOut : parent'[k] # j
           /\ \A j \in Tokens : j # k => parent'[j] = parent[j]
<1> USE NoTokenAssumption
<1>1. PICK k \in Tokens \ Issued :
        /\ new' = [new EXCEPT ![r] = k]
        /\ root' = [root EXCEPT ![k] = IF session = NoToken THEN k ELSE session]
        /\ parent' = [parent EXCEPT ![k] = from]
        /\ pc' = [pc EXCEPT ![r] = "save"]
        /\ loggedOut' = loggedOut
  BY DEF Sign, NewJTI
<1> DEFINE first == IF session = NoToken THEN k ELSE session
<1>2. /\ store \subseteq Issued /\ Issued \subseteq Tokens
      /\ loggedOut \subseteq Issued /\ loggedOut \cap store = {}
  BY DEF IInv, TypeOK, OnlyEndsLive, Issued
<1>3. /\ from \notin loggedOut
      /\ from \in store => first = root[from]
      /\ \/ from = NoToken /\ first = k
         \/ from \in Issued /\ IsLatest(from) /\ first = root[from]
  BY <1>2 DEF IInv, TypeOK, OnlyEndsLive, Issued
<1>4. /\ Chains' /\ SingleUse'
      /\ Issued' = Issued \cup {k}
      /\ IsLatest(k)'
      /\ \A j \in Issued : IsLatest(j)' <=> j # from /\ IsLatest(j)
      /\ \A j \in Issued : root'[j] = root[j]
      /\ root'[k] = first
  <2> HIDE DEF first
  <2>1. root' = [root EXCEPT ![k] = first]
    BY <1>1 DEF first
  <2> QED
    BY <1>1, <1>3, <2>1, NewEnd
<1>5. BeingSaved' = BeingSaved \cup {k}
  BY <1>1 DEF BeingSaved, IInv, TypeOK
<1>6. first \in Tokens /\ from \in Tokens \cup {NoToken}
  BY <1>2, <1>3 DEF IInv, Chains
<1>7. /\ parent' \in [Tokens -> Tokens \cup {NoToken}]
      /\ root' \in [Tokens -> Tokens \cup {NoToken}]
      /\ parent'[k] = from
      /\ \A j \in Tokens : j # k => parent'[j] = parent[j]
  BY <1>1, <1>6 DEF IInv, TypeOK
<1>8. Ended' = Ended
  <2>1. \A j \in loggedOut : (IsLatest(j)' <=> IsLatest(j)) /\ root'[j] = root[j]
    BY <1>2, <1>3, <1>4
  <2> QED
    BY <1>1, <2>1 DEF Ended
<1>9. /\ from \in store => root'[k] = root[from]
      /\ \A j \in loggedOut : parent'[k] # j
  BY <1>3, <1>4, <1>7
<1> HIDE DEF first
<1> QED
  BY <1>1, <1>4, <1>5, <1>7, <1>8, <1>9

(* The token it was made from is gone from Redis, so its end is the only   *)
(* one of the chain that counts.                                           *)
LEMMA SignIInv ==
  ASSUME IInv, NEW r \in Requests, pc[r] # "save",
         NEW session, NEW from, Sign(r, session, from),
         \/ from = NoToken /\ session = NoToken /\ store' = store
         \/ /\ from \in store /\ session = root[from]
            /\ store' = store \ {from},
         UNCHANGED <<known, expired, old, faultVars>>
  PROVE  IInv'
<1> USE NoTokenAssumption
<1>1. PICK k \in Tokens \ Issued :
        /\ new' = [new EXCEPT ![r] = k]
        /\ pc' = [pc EXCEPT ![r] = "save"]
        /\ BeingSaved' = BeingSaved \cup {k}
        /\ loggedOut' = loggedOut
        /\ parent' \in [Tokens -> Tokens \cup {NoToken}]
        /\ root' \in [Tokens -> Tokens \cup {NoToken}]
        /\ Chains' /\ SingleUse'
        /\ Issued' = Issued \cup {k}
        /\ IsLatest(k)'
        /\ \A j \in Issued : IsLatest(j)' <=> j # from /\ IsLatest(j)
  BY Signed
<1>2. /\ new'[r] = k /\ pc'[r] = "save"
      /\ \A q \in Requests : q # r => new'[q] = new[q] /\ pc'[q] = pc[q]
      /\ Issued \subseteq Tokens
  BY <1>1 DEF IInv, TypeOK, Issued
<1>3. TypeOK'
  <2>1. /\ store' \subseteq Issued' /\ known' \subseteq Issued'
        /\ expired' \subseteq known' /\ loggedOut' \subseteq known'
        /\ lost' \subseteq Issued' /\ faults' \in 0..MaxFaults
    BY <1>1 DEF IInv, TypeOK, faultVars
  <2>2. /\ pc' \in [Requests -> {"idle", "consume", "save", "delete"}]
        /\ old' \in [Requests -> Tokens \cup {NoToken}]
        /\ new' \in [Requests -> Tokens \cup {NoToken}]
        /\ parent' \in [Tokens -> Tokens \cup {NoToken}]
        /\ root' \in [Tokens -> Tokens \cup {NoToken}]
    BY <1>1, <1>2 DEF IInv, TypeOK
  <2>3. ASSUME NEW q \in Requests
        PROVE  /\ pc'[q] \in {"consume", "delete"} => old'[q] \in known'
               /\ pc'[q] = "save" => new'[q] \in Issued' \ (store' \cup known')
    <3>1. CASE q = r
      BY <1>1, <1>2, <3>1 DEF IInv, TypeOK
    <3>2. CASE q # r
      BY <1>1, <1>2, <3>2 DEF IInv, TypeOK
    <3> QED
      BY <3>1, <3>2
  <2> QED
    BY <2>1, <2>2, <2>3 DEF TypeOK
<1>4. OnlyEndsLive'
  <2>1. /\ store \subseteq Issued /\ BeingSaved \subseteq Issued
        /\ BeingSaved \cap store = {}
    BY DEF IInv, TypeOK, BeingSaved
  <2>2. ASSUME NEW j \in store' \cup BeingSaved', j # k
        PROVE  j \in store \cup BeingSaved /\ j # from /\ j \in Issued
    BY <1>1, <1>2, <2>1, <2>2
  <2>3. k \notin loggedOut
    BY <1>1 DEF IInv, TypeOK
  <2>4. \A j \in store' \cup BeingSaved' : IsLatest(j)' /\ j \notin loggedOut'
    BY <1>1, <2>2, <2>3 DEF IInv, OnlyEndsLive
  <2>5. ASSUME NEW p \in Requests, NEW q \in Requests,
               pc'[p] = "save", pc'[q] = "save", new'[p] = new'[q]
        PROVE  p = q
    BY <1>2, <2>5 DEF IInv, TypeOK, OnlyEndsLive
  <2> QED
    BY <2>4, <2>5 DEF OnlyEndsLive
<1> QED
  BY <1>1, <1>3, <1>4 DEF IInv

-----------------------------------------------------------------------------
(* A step that issues no token and logs nobody out, and after which Redis  *)
(* and the requests hold no more than before.                              *)
LEMMA HoldersIInv ==
  ASSUME IInv, TypeOK', UNCHANGED history,
         store' \cup BeingSaved' \subseteq store \cup BeingSaved,
         \A r \in Requests : pc'[r] = "save" => pc[r] = "save" /\ new'[r] = new[r]
  PROVE  IInv'
<1>1. Chains' /\ SingleUse'
  BY DEF IInv, history, Chains, SingleUse, Issued, IsLatest
<1>2. OnlyEndsLive'
  BY DEF IInv, history, OnlyEndsLive, IsLatest
<1> QED
  BY <1>1, <1>2 DEF IInv

(* The handler's end leaves the other requests alone.                      *)
LEMMA FinishKeeps ==
  ASSUME IInv, NEW r \in Requests, Finish(r)
  PROVE  /\ pc' \in [Requests -> {"idle", "consume", "save", "delete"}]
         /\ old' \in [Requests -> Tokens \cup {NoToken}]
         /\ new' \in [Requests -> Tokens \cup {NoToken}]
         /\ pc'[r] = "idle"
         /\ \A q \in Requests : q # r =>
              pc'[q] = pc[q] /\ old'[q] = old[q] /\ new'[q] = new[q]
         /\ BeingSaved' \subseteq BeingSaved
<1>1. /\ pc' \in [Requests -> {"idle", "consume", "save", "delete"}]
      /\ old' \in [Requests -> Tokens \cup {NoToken}]
      /\ new' \in [Requests -> Tokens \cup {NoToken}]
      /\ pc'[r] = "idle"
      /\ \A q \in Requests : q # r =>
           pc'[q] = pc[q] /\ old'[q] = old[q] /\ new'[q] = new[q]
  BY DEF IInv, TypeOK, Finish
<1>2. BeingSaved' \subseteq BeingSaved
  BY <1>1 DEF BeingSaved
<1> QED
  BY <1>1, <1>2

(* The answers of Refresh and Logout that issue nothing: what they leave   *)
(* in Redis was there.                                                     *)
LEMMA AnswerIInv ==
  ASSUME IInv, NEW r \in Requests, Finish(r), store' \subseteq store,
         lost' \subseteq Issued, faults' \in 0..MaxFaults,
         UNCHANGED <<known, expired, history>>
  PROVE  IInv'
<1>1. TypeOK'
  BY FinishKeeps DEF IInv, TypeOK, history, Issued
<1>2. store' \cup BeingSaved' \subseteq store \cup BeingSaved
  BY FinishKeeps
<1>3. \A q \in Requests : pc'[q] = "save" => pc[q] = "save" /\ new'[q] = new[q]
  BY FinishKeeps
<1> QED
  BY <1>1, <1>2, <1>3, HoldersIInv

(* Save, whether or not its answer comes.                                  *)
LEMMA SaveIInv ==
  ASSUME IInv, NEW r \in Requests, pc[r] = "save", Finish(r),
         store' \in {store, store \cup {new[r]}},
         known' \in {known, known \cup {new[r]}},
         lost' \subseteq Issued, faults' \in 0..MaxFaults,
         UNCHANGED <<expired, history>>
  PROVE  IInv'
<1>1. new[r] \in BeingSaved /\ new[r] \in Issued
  BY DEF IInv, TypeOK, BeingSaved
<1>2. TypeOK'
  <2>1. ASSUME NEW q \in Requests
        PROVE  /\ pc'[q] \in {"consume", "delete"} => old'[q] \in known'
               /\ pc'[q] = "save" => new'[q] \in Issued' \ (store' \cup known')
    <3>1. CASE q = r
      BY <3>1, FinishKeeps
    <3>2. CASE q # r
      BY <3>2, FinishKeeps DEF IInv, TypeOK, OnlyEndsLive, history, Issued
    <3> QED
      BY <3>1, <3>2
  <2> QED
    BY <1>1, <2>1, FinishKeeps DEF IInv, TypeOK, history, Issued
<1>3. store' \cup BeingSaved' \subseteq store \cup BeingSaved
  BY <1>1, FinishKeeps
<1>4. \A q \in Requests : pc'[q] = "save" => pc[q] = "save" /\ new'[q] = new[q]
  BY FinishKeeps
<1> QED
  BY <1>2, <1>3, <1>4, HoldersIInv

(* Logout takes the token out of Redis, and no request is about to save    *)
(* it: what is saved has not been with a client.                           *)
LEMMA DeleteIInv ==
  ASSUME IInv, NEW r \in Requests, Delete(r)
  PROVE  IInv'
<1> DEFINE j == old[r]
<1>1. /\ j \in known /\ store' = store \ {j} /\ store \subseteq Issued
      /\ loggedOut' = loggedOut \cup {j}
      /\ Finish(r) /\ UNCHANGED <<known, expired, parent, root, lost, faults>>
  BY DEF IInv, TypeOK, Delete, Revoked, faultVars
<1>2. Issued' = Issued
  BY <1>1 DEF Issued
<1>3. TypeOK'
  BY <1>1, <1>2, FinishKeeps DEF IInv, TypeOK
<1>4. Chains' /\ SingleUse'
  BY <1>1, <1>2 DEF IInv, Chains, SingleUse, IsLatest
<1>5. BeingSaved \subseteq Issued \ known
  BY DEF IInv, TypeOK, BeingSaved
<1>6. ASSUME NEW k \in store' \cup BeingSaved'
      PROVE  IsLatest(k)' /\ k \notin loggedOut'
  <2>1. k \in store \cup BeingSaved /\ k # j
    BY <1>1, <1>5, <1>6, FinishKeeps
  <2> QED
    BY <1>1, <2>1 DEF IInv, OnlyEndsLive, IsLatest
<1>7. \A p, q \in Requests :
        pc'[p] = "save" /\ pc'[q] = "save" /\ new'[p] = new'[q] => p = q
  BY <1>1, FinishKeeps DEF IInv, OnlyEndsLive
<1> QED
  BY <1>3, <1>4, <1>6, <1>7 DEF IInv, OnlyEndsLive

-----------------------------------------------------------------------------
LEMMA NextIInv ==
  ASSUME IInv, [Next]_vars
  PROVE  IInv'
<1>1. ASSUME NEW S \in SUBSET Issued, Disturb(S)
      PROVE  lost' \subseteq Issued /\ faults' \in 0..MaxFaults
  BY <1>1, FaultsAssumption DEF IInv, TypeOK, Disturb
<1>7. Removed \in SUBSET Issued
  BY DEF IInv, TypeOK, Chains, Removed
<1>8. UNCHANGED faultVars => lost' \subseteq Issued /\ faults' \in 0..MaxFaults
  BY DEF IInv, TypeOK, faultVars
<1>2. ASSUME NEW r \in Requests, RequestStep(r)
      PROVE  IInv'
  <2>1. CASE Login(r)
    BY <2>1, SignIInv DEF Login
  <2>2. CASE Present(r)
    <3>1. /\ UNCHANGED <<store, known, expired, new, history, lost, faults>>
          /\ old' \in [Requests -> Tokens \cup {NoToken}]
          /\ pc' \in [Requests -> {"idle", "consume", "save", "delete"}]
          /\ pc'[r] \in {"consume", "delete"} /\ old'[r] \in known
          /\ \A q \in Requests : q # r => pc'[q] = pc[q] /\ old'[q] = old[q]
      BY <2>2 DEF IInv, TypeOK, Present, Issued, faultVars
    <3>2. TypeOK'
      BY <3>1 DEF IInv, TypeOK, history, Issued
    <3>3. /\ BeingSaved' \subseteq BeingSaved
          /\ \A q \in Requests : pc'[q] = "save" => pc[q] = "save" /\ new'[q] = new[q]
      BY <3>1 DEF BeingSaved
    <3> QED
      BY <3>1, <3>2, <3>3, HoldersIInv
  <2>3. CASE Consume(r)
    BY <2>3, SignIInv DEF Consume, Taken
  <2>4. CASE Reject(r)
    BY <1>8, <2>4, AnswerIInv DEF Reject
  <2>5. CASE ConsumeFails(r)
    BY <1>1, <1>7, <2>5, AnswerIInv DEF ConsumeFails
  <2>6. CASE Save(r)
    BY <1>8, <2>6, SaveIInv DEF Save
  <2>7. CASE SaveFails(r)
    <3>1. {root[new[r]]} \in SUBSET Issued
      BY <2>7 DEF SaveFails, IInv, TypeOK, Chains
    <3> QED
      BY <1>1, <2>7, <3>1, SaveIInv DEF SaveFails
  <2>8. CASE Delete(r)
    BY <2>8, DeleteIInv
  <2>9. CASE DeleteFails(r)
    BY <1>1, <1>7, <2>9, AnswerIInv DEF DeleteFails
  <2> QED
    BY <1>2, <2>1, <2>2, <2>3, <2>4, <2>5, <2>6, <2>7, <2>8, <2>9 DEF RequestStep
<1>3. ASSUME store' \subseteq store, UNCHANGED <<known, requestVars, history>>,
             expired' \subseteq known,
             lost' \subseteq Issued, faults' \in 0..MaxFaults
      PROVE  IInv'
  <2>1. TypeOK'
    BY <1>3 DEF IInv, TypeOK, requestVars, history, Issued
  <2>2. BeingSaved' = BeingSaved
    BY <1>3 DEF BeingSaved, requestVars
  <2> QED
    BY <1>3, <2>1, <2>2, HoldersIInv DEF requestVars
<1>4. ASSUME NEW j \in Tokens, PassExp(j) \/ DropKey(j)
      PROVE  IInv'
  BY <1>3, <1>4, <1>8 DEF PassExp, DropKey, IInv, TypeOK
<1>5. CASE Flush
  BY <1>1, <1>3, <1>5, <1>7 DEF Flush, IInv, TypeOK
<1>6. CASE UNCHANGED vars
  BY <1>3, <1>6, <1>8 DEF vars, IInv, TypeOK
<1> QED
  BY <1>2, <1>4, <1>5, <1>6 DEF Next

LEMMA InvHolds == Spec => []IInv
  BY InitIInv, NextIInv, PTL DEF Spec

-----------------------------------------------------------------------------
(* Tokens, requests and sessions stay well formed: what Redis, a client or *)
(* a request has was issued, and nothing is with anybody before its Save.  *)
THEOREM TypeCorrect == Spec => []TypeOK
<1>1. IInv => TypeOK
  BY DEF IInv
<1> QED
  BY <1>1, InvHolds, PTL

(* Refresh: no token has two successors, however many requests present it. *)
THEOREM OneSuccessor == Spec => []SingleUse
<1>1. IInv => SingleUse
  BY DEF IInv
<1> QED
  BY <1>1, InvHolds, PTL

(* Rotation: a session never has two tokens in Redis.                      *)
THEOREM OneTokenPerSession == Spec => []OneLiveToken
<1>1. IInv => OneLiveToken
  BY DEF IInv, TypeOK, Chains, OnlyEndsLive, OneLiveToken
<1> QED
  BY <1>1, InvHolds, PTL

(* Logged-out tokens stay what they are, and none is given a successor.    *)
LEMMA StaysOut ==
  ASSUME IInv, [Next]_vars
  PROVE  /\ loggedOut \subseteq loggedOut'
         /\ \A j \in loggedOut, k \in Tokens : parent'[k] = j => parent[k] = j
<1>1. ASSUME UNCHANGED parent, loggedOut \subseteq loggedOut'
      PROVE  /\ loggedOut \subseteq loggedOut'
             /\ \A j \in loggedOut, k \in Tokens : parent'[k] = j => parent[k] = j
  BY <1>1
<1>2. ASSUME NEW r \in Requests, Login(r) \/ Consume(r)
      PROVE  /\ loggedOut \subseteq loggedOut'
             /\ \A j \in loggedOut, k \in Tokens : parent'[k] = j => parent[k] = j
  <2>1. PICK k \in Tokens :
          /\ loggedOut' = loggedOut
          /\ \A j \in loggedOut : parent'[k] # j
          /\ \A j \in Tokens : j # k => parent'[j] = parent[j]
    <3>1. CASE Login(r)
      BY <3>1, Signed DEF Login
    <3>2. CASE Consume(r)
      BY <3>2, Signed DEF Consume
    <3> QED
      BY <1>2, <3>1, <3>2
  <2> QED
    BY <2>1
<1>3. \/ \E r \in Requests : Login(r) \/ Consume(r)
      \/ UNCHANGED parent /\ loggedOut \subseteq loggedOut'
  BY DEF Next, RequestStep, Present, Reject, ConsumeFails, Save, SaveFails, Delete,
     DeleteFails, PassExp, DropKey, Flush, history, vars
<1> QED
  BY <1>1, <1>2, <1>3

(* Logout: once it is answered the token is not accepted and gets no       *)
(* successor, and unless it had been exchanged before, nothing of its      *)
(* session is accepted or on its way to be.                                *)
THEOREM LogoutIsFinal == Spec => LogoutEndsSession
<1>1. IInv /\ IInv' /\ [Next]_vars =>
        \A j \in loggedOut :
          /\ j \notin store'
          /\ \A k \in Tokens : parent'[k] = j => parent[k] = j
          /\ IsLatest(j) => Session(j)' \cap (store' \cup BeingSaved') = {}
  <2> SUFFICES ASSUME IInv, IInv', [Next]_vars, NEW j \in loggedOut
               PROVE  /\ j \notin store'
                      /\ \A k \in Tokens : parent'[k] = j => parent[k] = j
                      /\ IsLatest(j) => Session(j)' \cap (store' \cup BeingSaved') = {}
    OBVIOUS
  <2>1. \A k \in Tokens : parent'[k] = j => parent[k] = j
    BY StaysOut
  <2>2. j \in loggedOut' /\ j \in Issued'
    BY StaysOut DEF IInv, TypeOK
  <2>3. \A k \in store' \cup BeingSaved' : IsLatest(k)' /\ k # j /\ k \in Issued'
    BY <2>2 DEF IInv, TypeOK, OnlyEndsLive, BeingSaved
  <2>4. IsLatest(j) => IsLatest(j)'
    BY <2>1 DEF IsLatest
  <2>5. ASSUME IsLatest(j), NEW k \in Session(j)', k \in store' \cup BeingSaved'
        PROVE  FALSE
    BY <2>2, <2>3, <2>4, <2>5 DEF Session, IInv, Chains
  <2> QED
    BY <2>1, <2>3, <2>5
<1> QED
  BY <1>1, InvHolds, PTL DEF Spec, LogoutEndsSession

-----------------------------------------------------------------------------
(* Rotation locks nobody out.                                              *)

(* What the client can use or will have, and what it could but for its exp *)
Held == (store \cap known) \cup BeingSaved
Usable == Held \cup {k \in expired : IsLatest(k)}

Kept(j) == root[j] \in Ended \cup lost \/ Session(j) \cap Usable # {}

(* A step that replaces what it takes, or ends or loses its session.       *)
LEMMA ReplacedKept ==
  ASSUME \A j \in Issued : Kept(j),
         Issued \subseteq Issued', \A j \in Issued : root'[j] = root[j],
         Ended \subseteq Ended', lost \subseteq lost',
         \A k \in Issued' \ Issued : k \in Usable',
         \A k \in Usable \cap Issued :
           \/ root[k] \in Ended' \cup lost'
           \/ \E i \in Issued' : root'[i] = root[k] /\ i \in Usable'
  PROVE  \A j \in Issued' : Kept(j)'
<1> SUFFICES ASSUME NEW j \in Issued' PROVE Kept(j)'
  OBVIOUS
<1> Session(j)' = {i \in Issued' : root'[i] = root'[j]}
  BY DEF Session
<1>1. CASE j \notin Issued
  BY <1>1 DEF Kept
<1>2. CASE j \in Issued
  <2>1. root'[j] = root[j] /\ Session(j) \subseteq Session(j)'
    BY <1>2 DEF Session
  <2>2. CASE root[j] \in Ended \cup lost
    BY <2>1, <2>2 DEF Kept
  <2>3. CASE Session(j) \cap Usable # {}
    <3>1. PICK k \in Issued : k \in Usable /\ root[k] = root[j]
      BY <2>3 DEF Session
    <3>2. CASE root[k] \in Ended' \cup lost'
      BY <1>2, <2>1, <3>1, <3>2 DEF Kept
    <3>3. CASE \E i \in Issued' : root'[i] = root[k] /\ i \in Usable'
      BY <1>2, <2>1, <3>1, <3>3 DEF Kept
    <3> QED
      BY <3>1, <3>2, <3>3
  <2> QED
    BY <1>2, <2>2, <2>3 DEF Kept
<1> QED
  BY <1>1, <1>2

(* A new token is with the request that issues it.                         *)
LEMMA SignKept ==
  ASSUME IInv, \A j \in Issued : Kept(j), NEW r \in Requests, pc[r] # "save",
         NEW session, NEW from, Sign(r, session, from),
         \/ from = NoToken /\ session = NoToken /\ store' = store
         \/ /\ from \in store /\ session = root[from]
            /\ store' = store \ {from},
         UNCHANGED <<known, expired, lost>>
  PROVE  \A j \in Issued' : Kept(j)'
<1> USE NoTokenAssumption
<1>1. PICK k \in Tokens \ Issued :
        /\ BeingSaved' = BeingSaved \cup {k} /\ Ended' = Ended
        /\ Issued' = Issued \cup {k}
        /\ \A j \in Issued : IsLatest(j)' <=> j # from /\ IsLatest(j)
        /\ \A j \in Issued : root'[j] = root[j]
        /\ from \in store => root'[k] = root[from]
  BY Signed
<1>2. from \in store => from \in Issued
  BY DEF IInv, TypeOK
<1>3. from \notin store => from \notin Issued
  BY DEF Issued
<1>4. ASSUME NEW i \in Usable \cap Issued
      PROVE  \E q \in Issued' : root'[q] = root[i] /\ q \in Usable'
  <2>1. CASE i # from
    BY <1>1, <1>4, <2>1 DEF Usable, Held
  <2>2. CASE i = from
    BY <1>1, <1>3, <1>4, <2>2 DEF Usable, Held
  <2> QED
    BY <2>1, <2>2
<1>5. \A j \in Issued' \ Issued : j \in Usable'
  BY <1>1 DEF Usable, Held
<1> QED
  BY <1>1, <1>4, <1>5, ReplacedKept

LEMMA NextNoLockout ==
  ASSUME IInv, NoLockout, [Next]_vars
  PROVE  NoLockout'
<1> SUFFICES \A j \in Issued' : Kept(j)'
  BY DEF NoLockout, Kept, Usable, Held
<1>1. \A j \in Issued : Kept(j)
  BY DEF NoLockout, Kept, Usable, Held
<1>2. lost \subseteq lost'
  BY DEF Next, RequestStep, Login, Present, Consume, Reject, ConsumeFails, Save,
     SaveFails, Delete, DeleteFails, PassExp, DropKey, Flush, Disturb, faultVars, vars
<1>3. \A k \in store \ store' : root[k] \in Removed
  BY DEF Removed
<1>4. ASSUME UNCHANGED <<parent, root>>, loggedOut \subseteq loggedOut',
             expired \subseteq expired',
             \A k \in Held : k \in Usable' \/ root[k] \in Ended' \cup lost'
      PROVE  \A j \in Issued' : Kept(j)'
  <2>1. Issued' = Issued
    BY <1>4 DEF Issued
  <2>2. Ended \subseteq Ended'
    BY <1>4 DEF Ended, IsLatest
  <2>3. ASSUME NEW k \in Usable PROVE k \in Usable' \/ root[k] \in Ended' \cup lost'
    BY <1>4, <2>3 DEF Usable, IsLatest
  <2> QED
    BY <1>1, <1>2, <1>4, <2>1, <2>2, <2>3, ReplacedKept
<1>5. ASSUME NEW r \in Requests, Finish(r), pc[r] # "save" PROVE BeingSaved' = BeingSaved
  BY <1>5 DEF Finish, BeingSaved, IInv, TypeOK
<1>6. ASSUME NEW r \in Requests, RequestStep(r)
      PROVE  \A j \in Issued' : Kept(j)'
  <2>1. CASE Login(r)
    BY <1>1, <2>1, SignKept DEF Login, faultVars
  <2>2. CASE Present(r)
    <3>1. BeingSaved \subseteq BeingSaved'
      BY <2>2 DEF Present, BeingSaved, IInv, TypeOK
    <3> QED
      BY <1>4, <2>2, <3>1 DEF Present, history, Usable, Held
  <2>3. CASE Consume(r)
    BY <1>1, <2>3, SignKept DEF Consume, Taken, faultVars
  <2>4. CASE Reject(r)
    BY <1>4, <1>5, <2>4 DEF Reject, history, Usable, Held
  <2>5. CASE Save(r)
    <3>1. BeingSaved \subseteq BeingSaved' \cup {new[r]}
      BY <2>5 DEF Save, Finish, BeingSaved, IInv, TypeOK
    <3> QED
      BY <1>4, <2>5, <3>1 DEF Save, history, Usable, Held
  <2>6. CASE Delete(r)
    <3>1. /\ UNCHANGED <<known, expired, parent, root>> /\ store' = store \ {old[r]}
          /\ loggedOut' = loggedOut \cup {old[r]} /\ BeingSaved' = BeingSaved
      BY <1>5, <2>6 DEF Delete, Revoked
    <3>2. old[r] \in store => root[old[r]] \in Ended'
      BY <3>1 DEF Ended, IInv, OnlyEndsLive, IsLatest
    <3> QED
      BY <1>4, <3>1, <3>2 DEF Usable, Held
  <2>7. CASE ConsumeFails(r) \/ DeleteFails(r)
    <3>1. /\ UNCHANGED <<known, expired, history>> /\ BeingSaved' = BeingSaved
          /\ lost' = lost \cup Removed
      BY <1>5, <2>7 DEF ConsumeFails, DeleteFails, Disturb
    <3> QED
      BY <1>3, <1>4, <3>1 DEF history, Usable, Held
  <2>8. CASE SaveFails(r)
    <3>1. /\ UNCHANGED <<known, expired, history>> /\ store \subseteq store'
          /\ lost' = lost \cup {root[new[r]]}
      BY <2>8 DEF SaveFails, Disturb
    <3>2. BeingSaved \subseteq BeingSaved' \cup {new[r]}
      BY <2>8 DEF SaveFails, Finish, BeingSaved, IInv, TypeOK
    <3> QED
      BY <1>4, <3>1, <3>2 DEF history, Usable, Held
  <2> QED
    BY <1>6, <2>1, <2>2, <2>3, <2>4, <2>5, <2>6, <2>7, <2>8 DEF RequestStep
<1>7. ASSUME NEW j \in Tokens, PassExp(j) \/ DropKey(j)
      PROVE  \A i \in Issued' : Kept(i)'
  <2>1. BeingSaved' = BeingSaved /\ UNCHANGED <<known, history>>
    BY <1>7 DEF PassExp, DropKey, BeingSaved, requestVars
  <2>2. CASE PassExp(j)
    BY <1>4, <2>1, <2>2 DEF PassExp, history, Usable, Held
  <2>3. CASE DropKey(j)
    <3>1. IsLatest(j)'
      BY <2>1, <2>3 DEF DropKey, history, IInv, OnlyEndsLive, IsLatest
    <3> QED
      BY <1>4, <2>1, <2>3, <3>1 DEF DropKey, history, Usable, Held
  <2> QED
    BY <1>7, <2>2, <2>3
<1>8. CASE UNCHANGED vars
  <2>1. BeingSaved' = BeingSaved
    BY <1>8 DEF vars, BeingSaved, requestVars
  <2> QED
    BY <1>4, <1>8, <2>1 DEF vars, history, Usable, Held
<1>9. CASE Flush
  <2>1. /\ UNCHANGED <<known, expired, history>> /\ BeingSaved' = BeingSaved
        /\ lost' = lost \cup Removed
    BY <1>9 DEF Flush, Disturb, BeingSaved, requestVars
  <2> QED
    BY <1>3, <1>4, <2>1 DEF history, Usable, Held
<1> QED
  BY <1>6, <1>7, <1>8, <1>9 DEF Next

(* Refresh and Logout lock nobody out but by a failure of their own        *)
(* session's calls: between GETDEL and SET the next token is with the      *)
(* request that saves it, and no other session's token is touched.         *)
THEOREM RotationKeepsAccess == Spec => []NoLockout
<1>1. Init => NoLockout
  BY DEF Init, NoLockout, Issued
<1> QED
  BY <1>1, NextNoLockout, InvHolds, PTL DEF Spec

-----------------------------------------------------------------------------
(* Auth implements RefreshSessions.                                        *)

LEMMA Holders ==
  ASSUME IInv
  PROVE  /\ store \subseteq Issued /\ BeingSaved \subseteq Issued
         /\ BeingSaved \cap (store \cup known) = {}
         /\ Issued \subseteq Tokens
         /\ \A k \in Issued : root[k] \in Tokens
         /\ \A j, k \in store \cup BeingSaved : root[j] = root[k] => j = k
<1>1. /\ store \subseteq Issued /\ BeingSaved \subseteq Issued
      /\ BeingSaved \cap (store \cup known) = {}
      /\ Issued \subseteq Tokens
  BY DEF IInv, TypeOK, BeingSaved, Issued
<1>2. \A k \in Issued : root[k] \in Tokens
  BY <1>1 DEF IInv, Chains
<1>3. \A j, k \in store \cup BeingSaved : root[j] = root[k] => j = k
  BY <1>1 DEF IInv, Chains, OnlyEndsLive
<1> QED
  BY <1>1, <1>2, <1>3

(* Tokens leave Redis, or nothing happens: a Spend.                        *)
LEMMA SpendStep ==
  ASSUME IInv, NEW S \in SUBSET store, store' = store \ S,
         BeingSaved' = BeingSaved, UNCHANGED <<root, parent, loggedOut>>
  PROVE  Sessions!Next
<1> DEFINE L == {<<root[k], k>> : k \in S}
<1>1. L \subseteq Live /\ Live' = Live \ L
  BY DEF Live
<1>2. Sessions!TokensOf(L) = S
  <2>1. \A k \in S : <<root[k], k>> \in L /\ <<root[k], k>>[2] = k
    OBVIOUS
  <2>2. \A p \in L : p[2] \in S
    OBVIOUS
  <2> QED
    BY <2>1, <2>2 DEF Sessions!TokensOf
<1>3. Spent' = Spent \cup S
  BY Holders DEF Spent, Issued
<1>4. Ended' = Ended
  BY DEF Ended, IsLatest
<1> HIDE DEF L
<1> QED
  BY <1>1, <1>2, <1>3, <1>4 DEF Sessions!Next, Sessions!Spend

(* The token a request is about to save reaches Redis: an Issue.           *)
LEMMA IssueStep ==
  ASSUME IInv, NEW k \in BeingSaved, store' = store \cup {k},
         BeingSaved' = BeingSaved \ {k}, UNCHANGED <<root, parent, loggedOut>>
  PROVE  Sessions!Next
<1>1. /\ k \in Tokens /\ root[k] \in Tokens /\ k \notin Spent
      /\ Ended' = Ended
  BY Holders DEF Spent, Ended, IsLatest
<1>2. \A p \in Live : p[1] # root[k] /\ p[2] # k
  BY Holders DEF Live
<1>3. Live' = Live \cup {<<root[k], k>>}
  BY DEF Live
<1>4. Spent' = Spent
  BY Holders DEF Spent, Issued
<1>5. root[k] \notin Ended
  <2>1. \A j \in loggedOut : IsLatest(j) /\ root[j] = root[k] => j = k
    BY Holders DEF IInv, TypeOK, Chains, OnlyEndsLive
  <2> QED
    BY <2>1 DEF Ended, IInv, OnlyEndsLive
<1>6. Sessions!Issue(root[k], k)
  BY <1>1, <1>2, <1>3, <1>4, <1>5 DEF Sessions!Issue
<1> QED
  BY <1>1, <1>6 DEF Sessions!Next

(* Save never happened: its token is discarded.                            *)
LEMMA DiscardStep ==
  ASSUME IInv, NEW k \in BeingSaved, store' = store,
         BeingSaved' = BeingSaved \ {k}, UNCHANGED <<root, parent, loggedOut>>
  PROVE  Sessions!Next
<1>1. k \in Tokens
  BY Holders
<1>2. \A p \in Live : p[2] # k
  BY Holders DEF Live
<1>3. Live' = Live /\ Spent' = Spent \cup {k}
  BY Holders DEF Live, Spent, Issued
<1>4. Ended' = Ended
  BY DEF Ended, IsLatest
<1>5. Sessions!Discard(k)
  BY <1>2, <1>3, <1>4 DEF Sessions!Discard, Sessions!TokensOf
<1> QED
  BY <1>1, <1>5 DEF Sessions!Next

(* generateTokens up to Save: outside, only the consumed token is gone.    *)
LEMMA SignStep ==
  ASSUME IInv, NEW r \in Requests, pc[r] # "save", NEW S \in SUBSET store,
         store' = store \ S, NEW session, NEW from, Sign(r, session, from),
         \/ from = NoToken /\ session = NoToken
         \/ from \in store /\ session = root[from]
  PROVE  Sessions!Next
<1> DEFINE L == {<<root[k], k>> : k \in S}
<1>1. PICK k \in Tokens \ Issued :
        /\ BeingSaved' = BeingSaved \cup {k} /\ Ended' = Ended
        /\ Issued' = Issued \cup {k}
        /\ \A j \in Issued : root'[j] = root[j]
  BY Signed
<1>2. L \subseteq Live /\ Live' = Live \ L
  BY <1>1, Holders DEF Live
<1>3. Sessions!TokensOf(L) = S
  <2>1. \A j \in S : <<root[j], j>> \in L /\ <<root[j], j>>[2] = j
    OBVIOUS
  <2>2. \A p \in L : p[2] \in S
    OBVIOUS
  <2> QED
    BY <2>1, <2>2, ZenonT(30) DEF Sessions!TokensOf
<1>4. Spent' = Spent \cup S
  BY <1>1, Holders DEF Spent
<1> HIDE DEF L
<1> QED
  BY <1>1, <1>2, <1>3, <1>4 DEF Sessions!Next, Sessions!Spend

(* Logout with a token not exchanged before ends the session.              *)
LEMMA EndStep ==
  ASSUME IInv, NEW j \in Issued, IsLatest(j), j \notin BeingSaved,
         store' = store \ {j}, BeingSaved' = BeingSaved,
         root' = root, Ended' = Ended \cup {root[j]}
  PROVE  Sessions!Next
<1>1. root[j] \in Tokens
  BY Holders
<1>2. \A k \in store : root[k] = root[j] => k = j
  BY Holders DEF IInv, Chains, OnlyEndsLive
<1>3. Live' = {p \in Live : p[1] # root[j]}
  BY <1>2 DEF Live
<1>4. Live \ Live' = IF j \in store THEN {<<root[j], j>>} ELSE {}
  BY <1>2, <1>3 DEF Live
<1>5. Sessions!TokensOf(Live \ Live') = store \cap {j}
  <2>1. CASE j \in store
    <3>1. Live \ Live' = {<<root[j], j>>} /\ <<root[j], j>>[2] = j
      BY <1>4, <2>1
    <3>2. Sessions!TokensOf(Live \ Live') = {j}
      BY <3>1 DEF Sessions!TokensOf
    <3> QED
      BY <2>1, <3>2
  <2>2. CASE j \notin store
    BY <1>4, <2>2 DEF Sessions!TokensOf
  <2> QED
    BY <2>1, <2>2
<1>6. Spent' = Spent \cup (store \cap {j})
  BY Holders DEF Spent, Issued
<1>7. Sessions!End(root[j])
  BY <1>3, <1>5, <1>6 DEF Sessions!End
<1> QED
  BY <1>1, <1>7 DEF Sessions!Next

LEMMA RequestSessionStep ==
  ASSUME IInv, NEW r \in Requests, RequestStep(r)
  PROVE  Sessions!Next
<1>1. Finish(r) /\ pc[r] # "save" => BeingSaved' = BeingSaved
  BY DEF Finish, BeingSaved, IInv, TypeOK
<1>2. Finish(r) /\ pc[r] = "save" =>
        new[r] \in BeingSaved /\ BeingSaved' = BeingSaved \ {new[r]}
  BY DEF Finish, BeingSaved, IInv, TypeOK, OnlyEndsLive
<1>3. CASE Login(r)
  <2>1. pc[r] # "save" /\ store' = store \ {} /\ Sign(r, NoToken, NoToken)
    BY <1>3 DEF Login
  <2> QED
    BY <2>1, SignStep
<1>4. CASE Present(r)
  <2>1. BeingSaved' = BeingSaved /\ store' = store \ {} /\ UNCHANGED <<root, parent, loggedOut>>
    BY <1>4 DEF Present, BeingSaved, IInv, TypeOK, history
  <2> QED
    BY <2>1, SpendStep
<1>5. CASE Consume(r)
  <2>1. /\ pc[r] # "save" /\ old[r] \in store /\ store' = store \ {old[r]}
        /\ Sign(r, root[old[r]], old[r])
    BY <1>5 DEF Consume, Taken
  <2> QED
    BY <2>1, SignStep
<1>6. CASE Reject(r) \/ ConsumeFails(r) \/ DeleteFails(r)
  <2>1. /\ BeingSaved' = BeingSaved /\ UNCHANGED <<root, parent, loggedOut>>
        /\ store' \in {store, store \ {old[r]}}
    BY <1>1, <1>6 DEF Reject, ConsumeFails, DeleteFails, history
  <2>2. PICK S \in {{}, store \cap {old[r]}} : store' = store \ S
    BY <2>1
  <2>3. S \in SUBSET store
    OBVIOUS
  <2> QED
    BY <2>1, <2>2, <2>3, SpendStep
<1>7. CASE Save(r) \/ SaveFails(r)
  <2>1. /\ new[r] \in BeingSaved /\ BeingSaved' = BeingSaved \ {new[r]}
        /\ UNCHANGED <<root, parent, loggedOut>>
        /\ store' \in {store, store \cup {new[r]}}
    BY <1>2, <1>7 DEF Save, SaveFails, history
  <2> QED
    BY <2>1, IssueStep, DiscardStep
<1>8. CASE Delete(r)
  <2>1. /\ BeingSaved' = BeingSaved /\ root' = root
        /\ store' = store \ {old[r]}
        /\ old[r] \in Issued /\ old[r] \notin BeingSaved
    BY <1>1, <1>8, Holders DEF Delete, Revoked, IInv, TypeOK
  <2>2. CASE IsLatest(old[r])
    <3>1. Ended' = Ended \cup {root[old[r]]}
      BY <1>8, <2>2 DEF Delete, Ended, IsLatest
    <3> QED
      BY <2>1, <2>2, <3>1, EndStep
  <2>3. CASE ~IsLatest(old[r])
    <3>1. Live' = Live /\ Spent' = Spent
      BY <2>1, <2>3 DEF IInv, OnlyEndsLive, Live, Spent, Issued
    <3>2. Ended' = Ended
      BY <1>8, <2>3 DEF Delete, Ended, IsLatest
    <3>3. Sessions!Spend({})
      BY <3>1, <3>2 DEF Sessions!Spend, Sessions!TokensOf
    <3> QED
      BY <3>3 DEF Sessions!Next
  <2> QED
    BY <2>2, <2>3
<1> QED
  BY <1>3, <1>4, <1>5, <1>6, <1>7, <1>8 DEF RequestStep

(* However requests race, fail or are lost, clients see sessions with one  *)
(* accepted token at a time, none twice, none after the logout.            *)
THEOREM Refinement == Spec => RefinesSessions
<1>1. Init => Sessions!Init
  BY DEF Init, Sessions!Init, Live, Spent, Issued, BeingSaved, Ended
<1>2. IInv /\ [Next]_vars => [Sessions!Next]_(Sessions!vars)
  <2> SUFFICES ASSUME IInv, [Next]_vars PROVE [Sessions!Next]_(Sessions!vars)
    OBVIOUS
  <2>1. CASE \E r \in Requests : RequestStep(r)
    BY <2>1, RequestSessionStep
  <2>2. ASSUME NEW S \in SUBSET store, store' = store \ S,
               UNCHANGED <<requestVars, history>>
        PROVE  Sessions!Next
    BY <2>2, SpendStep DEF requestVars, history, BeingSaved
  <2>3. ASSUME NEW j \in Tokens, PassExp(j) \/ DropKey(j)
        PROVE  Sessions!Next
    <3>1. /\ UNCHANGED <<requestVars, history>>
          /\ store' = store \ {} \/ (j \in store /\ store' = store \ {j})
      BY <2>3 DEF PassExp, DropKey
    <3> QED
      BY <2>2, <3>1
  <2>4. CASE Flush
    <3>1. UNCHANGED <<requestVars, history>> /\ store' = store \ store
      BY <2>4 DEF Flush
    <3> QED
      BY <2>2, <3>1
  <2>5. CASE UNCHANGED vars
    <3>1. UNCHANGED <<requestVars, history>> /\ store' = store \ {}
      BY <2>5 DEF vars
    <3> QED
      BY <2>2, <3>1
  <2> QED
    BY <2>1, <2>3, <2>4, <2>5 DEF Next
<1> QED
  BY <1>1, <1>2, InvHolds, PTL DEF Spec, RefinesSessions, Sessions!Spec
=============================================================================
