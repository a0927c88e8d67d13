------------------------------- MODULE Boost --------------------------------
(***************************************************************************)
(* POST /listings/:id/boost for one listing (internal/boost): concurrent   *)
(* requests, each a READ COMMITTED transaction that checks for an active   *)
(* boost, inserts one, sets is_boosted and enqueues boost.created, against *)
(* the deletion of the listing, which cascades to its boosts.              *)
(*                                                                         *)
(* Row locks on the listing are those Postgres takes: the foreign key of   *)
(* the INSERT holds FOR KEY SHARE, the UPDATE FOR NO KEY UPDATE; the two   *)
(* are compatible, DELETE conflicts with both.  A statement sees what is   *)
(* committed when it runs; NOW() is the time of the transaction's Begin.   *)
(* Boosts of different listings touch no common row.                       *)
(***************************************************************************)
EXTENDS Integers

CONSTANTS Requests,   \* boost requests for the listing
          Owners,     \* those sent by the listing's owner
          Duration,   \* BOOST_DURATION
          MaxTime,    \* bound on the clock
          MaxFaults   \* bound on failed statements

ASSUME OwnersAssumption == Owners \subseteq Requests
ASSUME BoostBoundsAssumption ==
  Duration \in Nat /\ MaxTime \in Nat /\ MaxFaults \in Nat

VARIABLES
  now,        \* the clock
  exists,     \* the listing is in the table
  isBoosted,  \* its is_boosted column
  boosts,     \* committed rows of its boosts
  events,     \* committed boost.created rows of the outbox
  pc,         \* where each request stands
  result,     \* its answer
  expiresAt,  \* ExpiresAt of the boost it creates
  txNow,      \* NOW() of its transaction
  updating,   \* requests whose open transaction has updated the listing
  told,       \* history: requests answered 201 before this one began
  faults      \* failed statements so far

requestVars == <<pc, result, expiresAt, txNow, told>>
tables == <<exists, isBoosted, boosts, events>>
vars == <<now, tables, requestVars, updating, faults>>

PcStates == {"new", "owner", "begin", "check", "insert", "update", "enqueue",
             "commit", "done"}
Results == {"none", "created", "conflict", "forbidden", "notfound", "error"}

Init ==
  /\ now = 0
  /\ exists = TRUE /\ isBoosted = FALSE
  /\ boosts = {} /\ events = {}
  /\ pc = [r \in Requests |-> "new"]
  /\ result = [r \in Requests |-> "none"]
  /\ expiresAt = [r \in Requests |-> 0]
  /\ txNow = [r \in Requests |-> 0]
  /\ updating = {}
  /\ told = [r \in Requests |-> {}]
  /\ faults = 0

At(r, label) == pc[r] = label
Goto(r, label) == pc' = [pc EXCEPT ![r] = label]

(* Wrong variant: without the deferred Rollback.                           *)
AnswerKeepsTx(r, res) ==
  /\ Goto(r, "done")
  /\ result' = [result EXCEPT ![r] = res]
  /\ updating' = IF res = "error" THEN updating ELSE updating \ {r}

(* The handler answers; an open transaction is rolled back.                *)
Answer(r, res) == /\ Goto(r, "done")
                  /\ result' = [result EXCEPT ![r] = res]
                  /\ updating' = updating \ {r}

-----------------------------------------------------------------------------
(* The rows whose foreign key holds the listing FOR KEY SHARE.             *)
Referencing == {r \in Requests : pc[r] \in {"update", "enqueue", "commit"}}

(* A request arrives.                                                      *)
Arrive(r) ==
  /\ At(r, "new")
  /\ Goto(r, "owner")
  /\ told' = [told EXCEPT ![r] = {q \in Requests : result[q] = "created"}]
  /\ UNCHANGED <<now, tables, result, expiresAt, txNow, updating, faults>>

(* repo.ListingOwner, the ownership check, and ExpiresAt := now + duration. *)
CheckOwner(r) ==
  /\ At(r, "owner")
  /\ \/ /\ exists /\ r \in Owners
        /\ Goto(r, "begin")
        /\ expiresAt' = [expiresAt EXCEPT ![r] = now + Duration]
        /\ UNCHANGED <<result, updating>>
     \/ /\ exists /\ r \notin Owners
        /\ Answer(r, "forbidden")
        /\ UNCHANGED expiresAt
     \/ /\ ~exists
        /\ Answer(r, "notfound")
        /\ UNCHANGED expiresAt
  /\ UNCHANGED <<now, tables, txNow, told, faults>>

Begin(r) ==
  /\ At(r, "begin")
  /\ Goto(r, "check")
  /\ txNow' = [txNow EXCEPT ![r] = now]
  /\ UNCHANGED <<now, tables, result, expiresAt, updating, told, faults>>

(* Wrong variant: only boosts that outlive the new one count.              *)
HasLongerBoost(r) == \E b \in boosts : expiresAt[b] > expiresAt[r]

(* EXISTS (... expires_at > NOW()).                                        *)
HasActive(r) == \E b \in boosts : expiresAt[b] > txNow[r]

CheckActive(r) ==
  /\ At(r, "check")
  /\ \/ /\ HasActive(r)
        /\ Answer(r, "conflict")
     \/ /\ ~HasActive(r)
        /\ Goto(r, "insert")
        /\ UNCHANGED <<result, updating>>
  /\ UNCHANGED <<now, tables, expiresAt, txNow, told, faults>>

(* INSERT INTO boosts: a foreign key violation when the listing is gone,   *)
(* which MapError leaves an internal error.                                *)
Insert(r) ==
  /\ At(r, "insert")
  /\ \/ /\ exists
        /\ Goto(r, "update")
        /\ UNCHANGED <<result, updating>>
     \/ /\ ~exists
        /\ Answer(r, "error")
  /\ UNCHANGED <<now, tables, expiresAt, txNow, told, faults>>

(* Wrong variant: the UPDATE waits for every other lock on the row.        *)
NoOtherLock(r) == Referencing \subseteq {r}

(* FOR NO KEY UPDATE conflicts with itself only.                           *)
MayUpdate(r) == updating \subseteq {r}

(* UPDATE listings SET is_boosted = TRUE.                                  *)
Update(r) ==
  /\ At(r, "update")
  /\ MayUpdate(r)
  /\ updating' = updating \cup {r}
  /\ Goto(r, "enqueue")
  /\ UNCHANGED <<now, tables, result, expiresAt, txNow, told, faults>>

(* Wrong variant: the event is written outside the transaction.            *)
EnqueueOutsideTx(r) ==
  /\ At(r, "enqueue")
  /\ Goto(r, "commit")
  /\ events' = events \cup {r}
  /\ UNCHANGED <<now, exists, isBoosted, boosts, result, expiresAt, txNow, updating,
                 told, faults>>

(* outbox.Enqueue of boost.created.                                        *)
Enqueue(r) ==
  /\ At(r, "enqueue")
  /\ Goto(r, "commit")
  /\ UNCHANGED <<now, tables, result, expiresAt, txNow, updating, told, faults>>

(* The transaction's effect, all of it at once.                            *)
TakeEffect(r) == /\ boosts' = boosts \cup {r}
                 /\ isBoosted' = TRUE
                 /\ events' = events \cup {r}
                 /\ UNCHANGED exists

Commit(r) ==
  /\ At(r, "commit")
  /\ TakeEffect(r)
  /\ Answer(r, "created")
  /\ UNCHANGED <<now, expiresAt, txNow, told, faults>>

(* A statement fails, the request's context is cancelled or the instance   *)
(* dies: the transaction is rolled back.  A Commit that fails may have     *)
(* taken effect.                                                           *)
Fail(r) ==
  /\ pc[r] \notin {"new", "done"}
  /\ faults < MaxFaults /\ faults' = faults + 1
  /\ Answer(r, "error")
  /\ UNCHANGED tables \/ (At(r, "commit") /\ TakeEffect(r))
  /\ UNCHANGED <<now, expiresAt, txNow, told>>

(* Wrong variant: no foreign key lock to wait for.                         *)
NoUpdater == updating = {}

(* What DELETE waits for.                                                  *)
MayDelete == Referencing = {}

(* listing.repo.Delete by the owner; ON DELETE CASCADE takes the boosts.   *)
DeleteListing ==
  /\ exists /\ MayDelete
  /\ exists' = FALSE
  /\ boosts' = {}
  /\ UNCHANGED <<now, isBoosted, events, requestVars, updating, faults>>

Tick == /\ now < MaxTime
        /\ now' = now + 1
        /\ UNCHANGED <<tables, requestVars, updating, faults>>

-----------------------------------------------------------------------------
(* What the handler does with a request that has arrived.                  *)
GoesOn(r) == \/ CheckOwner(r) \/ Begin(r) \/ CheckActive(r) \/ Insert(r)
             \/ Update(r) \/ Enqueue(r) \/ Commit(r)

Next == \/ \E r \in Requests : Arrive(r) \/ GoesOn(r) \/ Fail(r)
        \/ DeleteListing
        \/ Tick

Spec == Init /\ [][Next]_vars

(* Every statement that no lock holds up returns.                          *)
LiveSpec == Spec /\ \A r \in Requests : WF_vars(GoesOn(r))

-----------------------------------------------------------------------------
(* Properties.                                                             *)

(* Only one transaction at a time has updated the listing, one that holds  *)
(* it by its foreign key too, and a request is answered when it is done.   *)
TypeOK ==
  /\ now \in 0..MaxTime /\ faults \in 0..MaxFaults
  /\ exists \in BOOLEAN /\ isBoosted \in BOOLEAN
  /\ boosts \subseteq Requests /\ events \subseteq Requests
  /\ pc \in [Requests -> PcStates]
  /\ result \in [Requests -> Results]
  /\ expiresAt \in [Requests -> Nat]
  /\ txNow \in [Requests -> 0..MaxTime]
  /\ told \in [Requests -> SUBSET Requests]
  /\ updating \subseteq {r \in Requests : pc[r] \in {"enqueue", "commit"}}
  /\ \A q, r \in updating : q = r
  /\ \A r \in Requests : result[r] = "none" <=> pc[r] # "done"

(* Boost row, is_boosted and event are one whole, whatever failed and when *)
(* the listing went: a client told 201 finds all three, no refusal leaves  *)
(* any, and the flag is set exactly while there are boosts.                *)
AllOrNothing ==
  /\ \A r \in Requests : result[r] = "created" => r \in events
  /\ \A r \in events : result[r] \in {"created", "error"}
  /\ exists => boosts = events /\ (isBoosted <=> boosts # {})

(* The foreign key holds up the deletion or fails the INSERT: no boost of  *)
(* a deleted listing stays, however the two interleave.                    *)
NoOrphans == ~exists => boosts = {}

(* A repeat is refused: a request that arrived after another's 201 never   *)
(* gets one of its own while that boost is active.                         *)
RepeatIsRefused ==
  \A r \in Requests : result[r] = "created" =>
    \A q \in told[r] : q \in boosts => expiresAt[q] <= txNow[r]

(* Every request is answered: the locks the statements take in turn never  *)
(* leave two transactions waiting for each other.                          *)
EveryoneAnswered == \A r \in Requests : At(r, "owner") ~> At(r, "done")

(* CreateActive "checks in one transaction that there is no active boost"  *)
(* and README: a repeat boost while one is active is a 409.                *)
AtMostOneActive ==
  \A q, r \in boosts : expiresAt[q] > now /\ expiresAt[r] > now => q = r
=============================================================================
