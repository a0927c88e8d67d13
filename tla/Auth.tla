-------------------------------- MODULE Auth --------------------------------
(***************************************************************************)
(* Refresh tokens (internal/auth): Login, Refresh with rotation, Logout,   *)
(* over the token store in Redis.                                          *)
(*                                                                         *)
(* A token stands for its jti and the claims signed with it: only tokens   *)
(* the service issued pass parseRefreshToken, which is why clients present *)
(* nothing else here; who presents a token, its owner or somebody it       *)
(* leaked to, makes no difference to the code.  The user stored under a    *)
(* jti and the user of the claims come from the same call, so storedUID =  *)
(* uid throughout.  A session is the tokens that descend from one login.   *)
(***************************************************************************)
EXTENDS Integers

CONSTANTS Requests,  \* requests in flight
          Tokens,    \* refresh tokens the service may issue
          NoToken,   \* no token
          MaxFaults  \* bound on failures, lost answers and restarts of Redis

ASSUME NoTokenAssumption == NoToken \notin Tokens
ASSUME FaultsAssumption == MaxFaults \in Nat

VARIABLES
  store,    \* the tokens under auth:refresh:* in Redis
  known,    \* tokens that were sent to a client
  expired,  \* tokens whose exp has passed
  pc,       \* where each request stands
  old,      \* the token it presents
  new,      \* the token it was given by generateTokens
  parent,   \* history: the token whose rotation issued this one
  root,     \* history: the first token of its session, NoToken if not issued
  loggedOut, \* history: tokens whose logout was answered
  lost,     \* history: sessions whose token a failure took or never delivered
  faults    \* failures so far

requestVars == <<pc, old, new>>
history == <<parent, root, loggedOut>>
faultVars == <<lost, faults>>
vars == <<store, known, expired, requestVars, history, faultVars>>

Init ==
  /\ store = {} /\ known = {} /\ expired = {}
  /\ pc = [r \in Requests |-> "idle"]
  /\ old = [r \in Requests |-> NoToken]
  /\ new = [r \in Requests |-> NoToken]
  /\ parent = [k \in Tokens |-> NoToken]
  /\ root = [k \in Tokens |-> NoToken]
  /\ loggedOut = {} /\ lost = {}
  /\ faults = 0

Issued == {k \in Tokens : root[k] # NoToken}

(* A failure, and the sessions it harms.                                   *)
Disturb(sessions) == /\ faults < MaxFaults /\ faults' = faults + 1
                     /\ lost' = lost \cup sessions

(* The sessions whose token this step takes out of Redis.                  *)
Removed == {root[k] : k \in store \ store'}

(* The handler answers.                                                    *)
Finish(r) == /\ pc' = [pc EXCEPT ![r] = "idle"]
             /\ old' = [old EXCEPT ![r] = NoToken]
             /\ new' = [new EXCEPT ![r] = NoToken]

-----------------------------------------------------------------------------
(* generateTokens.                                                         *)

(* Wrong variant: the rotated token keeps its jti.                         *)
KeptJTI(r) == IF old[r] = NoToken THEN Tokens \ Issued ELSE {old[r]}

(* 16 random bytes: a jti nobody has had.                                  *)
NewJTI(r) == Tokens \ Issued

(* Both tokens are signed; Save comes next.                                *)
Sign(r, session, from) ==
  \E k \in NewJTI(r) :
    /\ new' = [new EXCEPT ![r] = k]
    /\ root' = [root EXCEPT ![k] = IF session = NoToken THEN k ELSE session]
    /\ parent' = [parent EXCEPT ![k] = from]
    /\ pc' = [pc EXCEPT ![r] = "save"]
    /\ UNCHANGED loggedOut

(* Save, and the pair goes to the client.                                  *)
Save(r) ==
  /\ pc[r] = "save"
  /\ store' = store \cup {new[r]}
  /\ known' = known \cup {new[r]}
  /\ Finish(r)
  /\ UNCHANGED <<expired, history, faultVars>>

(* Save fails and the client gets an error, or it is gone when the answer  *)
(* comes; SET may have been executed.                                      *)
SaveFails(r) ==
  /\ pc[r] = "save" /\ Disturb({root[new[r]]})
  /\ store' \in {store, store \cup {new[r]}}
  /\ Finish(r)
  /\ UNCHANGED <<known, expired, history>>

-----------------------------------------------------------------------------
(* Login: the password was right.                                          *)
Login(r) ==
  /\ pc[r] = "idle"
  /\ Sign(r, NoToken, NoToken)
  /\ UNCHANGED <<store, known, expired, old, faultVars>>

-----------------------------------------------------------------------------
(* Refresh and Logout.                                                     *)

(* parseRefreshToken accepts what was issued and has not expired.          *)
Present(r) ==
  /\ pc[r] = "idle"
  /\ \E j \in known \ expired : old' = [old EXCEPT ![r] = j]
  /\ \E op \in {"consume", "delete"} : pc' = [pc EXCEPT ![r] = op]
  /\ UNCHANGED <<store, known, expired, new, history, faultVars>>

(* Wrong variant: GET instead of GETDEL.                                   *)
ReadOnly(r) == store

(* GETDEL takes the token out.                                             *)
Taken(r) == store \ {old[r]}

(* Consume finds the token, and generateTokens makes the next.             *)
Consume(r) ==
  /\ pc[r] = "consume" /\ old[r] \in store
  /\ store' = Taken(r)
  /\ Sign(r, root[old[r]], old[r])
  /\ UNCHANGED <<known, expired, old, faultVars>>

(* redis.Nil: 401.                                                         *)
Reject(r) ==
  /\ pc[r] = "consume" /\ old[r] \notin store
  /\ Finish(r)
  /\ UNCHANGED <<store, known, expired, history, faultVars>>

(* GETDEL fails, perhaps after it was executed, and there is no new token. *)
ConsumeFails(r) ==
  /\ pc[r] = "consume"
  /\ store' \in {store, store \ {old[r]}} /\ Disturb(Removed)
  /\ Finish(r)
  /\ UNCHANGED <<known, expired, history>>

(* Wrong variants: DEL of nothing, or of the whole session.                *)
KeptTokens(r) == store
OtherSessions(r) == {k \in store : root[k] # root[old[r]]}

(* DEL.                                                                    *)
Revoked(r) == store \ {old[r]}

(* Delete, and 204.                                                        *)
Delete(r) ==
  /\ pc[r] = "delete"
  /\ store' = Revoked(r)
  /\ loggedOut' = loggedOut \cup {old[r]}
  /\ Finish(r)
  /\ UNCHANGED <<known, expired, parent, root, faultVars>>

(* DEL fails, perhaps after it was executed: 500.                          *)
DeleteFails(r) ==
  /\ pc[r] = "delete"
  /\ store' \in {store, store \ {old[r]}} /\ Disturb(Removed)
  /\ Finish(r)
  /\ UNCHANGED <<known, expired, history>>

-----------------------------------------------------------------------------
(* exp passes.                                                             *)
PassExp(j) ==
  /\ j \in known \ expired
  /\ expired' = expired \cup {j}
  /\ UNCHANGED <<store, known, requestVars, history, faultVars>>

(* The key's TTL, counted from Save, ends after exp.                       *)
DropKey(j) ==
  /\ j \in store \cap expired
  /\ store' = store \ {j}
  /\ UNCHANGED <<known, expired, requestVars, history, faultVars>>

(* Redis restarts empty.                                                   *)
Flush ==
  /\ store' = {} /\ Disturb(Removed)
  /\ UNCHANGED <<known, expired, requestVars, history>>

-----------------------------------------------------------------------------
RequestStep(r) == \/ Login(r) \/ Present(r)
                  \/ Consume(r) \/ Reject(r) \/ ConsumeFails(r)
                  \/ Save(r) \/ SaveFails(r)
                  \/ Delete(r) \/ DeleteFails(r)

Next == \/ \E r \in Requests : RequestStep(r)
        \/ \E j \in Tokens : PassExp(j) \/ DropKey(j)
        \/ Flush

Spec == Init /\ [][Next]_vars

-----------------------------------------------------------------------------
(* Properties.                                                             *)

(* A token is neither in Redis nor with a client before its Save, and only *)
(* issued tokens are presented.                                            *)
TypeOK ==
  /\ store \subseteq Issued /\ known \subseteq Issued /\ expired \subseteq known
  /\ pc \in [Requests -> {"idle", "consume", "save", "delete"}]
  /\ old \in [Requests -> Tokens \cup {NoToken}]
  /\ new \in [Requests -> Tokens \cup {NoToken}]
  /\ parent \in [Tokens -> Tokens \cup {NoToken}]
  /\ root \in [Tokens -> Tokens \cup {NoToken}]
  /\ loggedOut \subseteq known
  /\ \A r \in Requests :
       /\ pc[r] \in {"consume", "delete"} => old[r] \in known
       /\ pc[r] = "save" => new[r] \in Issued \ (store \cup known)
  /\ lost \subseteq Issued /\ faults \in 0..MaxFaults

(* README: refresh tokens are single-use.  However many requests present a *)
(* token, at most one of them is given a successor.                        *)
SingleUse ==
  \A k1, k2 \in Tokens :
    parent[k1] # NoToken /\ parent[k1] = parent[k2] => k1 = k2

(* A session never has two tokens that would be accepted, whatever races,  *)
(* is retried or fails.                                                    *)
OneLiveToken == \A j, k \in store : root[j] = root[k] => j = k

Session(j) == {k \in Issued : root[k] = root[j]}
BeingSaved == {new[r] : r \in {q \in Requests : pc[q] = "save"}}
IsLatest(j) == \A k \in Tokens : parent[k] # j

(* service.go:171: after the logout the token cannot refresh the session.  *)
(* Once its 204 was sent, a token is not accepted and gets no successor;   *)
(* and unless it had been exchanged before, the session has no token left  *)
(* and none on its way.  A refresh whose GETDEL came before the DEL is not *)
(* called back: the session goes on with the token it stores.              *)
LogoutEndsSession ==
  [][\A j \in loggedOut :
       /\ j \notin store'
       /\ \A k \in Tokens : parent'[k] = j => parent[k] = j
       /\ IsLatest(j) => Session(j)' \cap (store' \cup BeingSaved') = {}]_vars

(* The sessions that were logged out before their token was exchanged.     *)
Ended == {root[j] : j \in {i \in loggedOut : IsLatest(i)}}

(* Nobody is locked out by rotation, nor by what happens to others: a      *)
(* session that was not logged out, whose latest token has not expired and *)
(* that no failure robbed of its token has one its client knows and Redis  *)
(* accepts, or one that is about to be saved.                              *)
NoLockout ==
  \A j \in Issued :
    \/ root[j] \in Ended \cup lost
    \/ \E k \in Session(j) : \/ IsLatest(k) /\ k \in expired
                            \/ k \in (store \cap known) \cup BeingSaved

(* Seen by its clients the service is RefreshSessions: Redis holds what is *)
(* accepted, and what was issued and is neither there nor on its way there *)
(* has had its time.                                                       *)
Live == {<<root[k], k>> : k \in store}
Spent == Issued \ (store \cup BeingSaved)
Sessions == INSTANCE RefreshSessions WITH live <- Live, spent <- Spent, over <- Ended
RefinesSessions == Sessions!Spec
=============================================================================
