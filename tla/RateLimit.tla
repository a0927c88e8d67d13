------------------------------ MODULE RateLimit -----------------------------
(***************************************************************************)
(* The fixed-window limit on the /auth routes (pkg/middleware RateLimit    *)
(* over internal/storage's counters in Redis): one counter per address,    *)
(* created with the window's TTL by the first request and incremented by   *)
(* every one, refused requests included.  The counters are shared by all   *)
(* API instances and outlive them.                                         *)
(***************************************************************************)
EXTENDS Integers, FiniteSets, Sequences

CONSTANTS Addresses,  \* client addresses
          Limit,      \* requests let through per window
          Window,     \* its length
          MaxTime,    \* bound on the clock
          MaxOutages  \* bound on failed calls and restarts of Redis

ASSUME RateLimitAssumption ==
  /\ Limit \in Nat \ {0} /\ Window \in Nat \ {0}
  /\ MaxTime \in Nat /\ MaxOutages \in Nat

VARIABLES
  clock,    \* the time
  hits,     \* the counter rl:auth:<address>; 0: no key, Limit + 1: that or more
  expires,  \* when the key expires
  passed,   \* history: when the address's requests were let through
  outages   \* failures of Redis so far

limitVars == <<clock, hits, expires, passed, outages>>

LimitInit ==
  /\ clock = 0
  /\ hits = [a \in Addresses |-> 0]
  /\ expires = [a \in Addresses |-> 0]
  /\ passed = [a \in Addresses |-> <<>>]
  /\ outages = 0

Outage == outages < MaxOutages /\ outages' = outages + 1

(* c.Next().                                                               *)
LetThrough(a) == passed' = [passed EXCEPT ![a] = Append(@, clock)]

(* Wrong variant: EXPIRE without NX.                                       *)
ProlongedExpiry(a) == clock + Window

(* EXPIRE NX: only a key without a TTL, a new one, is given the window.    *)
Expiry(a) == IF hits[a] = 0 THEN clock + Window ELSE expires[a]

(* INCR and EXPIRE NX in one MULTI.                                        *)
Incr(a) ==
  /\ hits' = [hits EXCEPT ![a] = IF @ > Limit THEN @ ELSE @ + 1]
  /\ expires' = [expires EXCEPT ![a] = Expiry(a)]

(* Wrong variant: n > limit + 1.                                           *)
OneMore(a) == hits[a] + 1 <= Limit + 1

(* The counter after INCR is not above the limit.                          *)
WithinLimit(a) == hits[a] + 1 <= Limit

Admit(a) ==
  /\ WithinLimit(a)
  /\ Incr(a)
  /\ LetThrough(a)
  /\ UNCHANGED <<clock, outages>>

(* 429.                                                                    *)
Refuse(a) ==
  /\ ~WithinLimit(a)
  /\ Incr(a)
  /\ UNCHANGED <<clock, passed, outages>>

(* The pipeline fails, executed or not: the request is let through.        *)
FailOpen(a) ==
  /\ Outage
  /\ Incr(a) \/ UNCHANGED <<hits, expires>>
  /\ LetThrough(a)
  /\ UNCHANGED clock

(* Time passes, and with it the keys' TTLs.                                *)
Tick ==
  /\ clock < MaxTime
  /\ clock' = clock + 1
  /\ hits' = [a \in Addresses |-> IF expires[a] <= clock' THEN 0 ELSE hits[a]]
  /\ UNCHANGED <<expires, passed, outages>>

(* Redis restarts empty.                                                   *)
Flush ==
  /\ Outage
  /\ hits' = [a \in Addresses |-> 0]
  /\ UNCHANGED <<clock, expires, passed>>

LimitNext == \/ \E a \in Addresses : Admit(a) \/ Refuse(a) \/ FailOpen(a)
             \/ Tick \/ Flush

LimitSpec == LimitInit /\ [][LimitNext]_limitVars

-----------------------------------------------------------------------------
(* Properties.                                                             *)

LimitTypeOK ==
  /\ clock \in 0..MaxTime /\ outages \in 0..MaxOutages
  /\ hits \in [Addresses -> 0..(Limit + 1)]
  /\ expires \in [Addresses -> Nat]
  /\ passed \in [Addresses -> Seq(0..MaxTime)]

(* Nobody is refused who keeps to the limit: when the next request would   *)
(* be refused, Limit requests were let through within the last Window, and *)
(* refused ones do not make it longer.  "TTL only when the key is created, *)
(* so that requests do not prolong the window" (ratelimit.go).             *)
Recent(a) == {i \in DOMAIN passed[a] : passed[a][i] > clock - Window}
RefusalEarned ==
  \A a \in Addresses : ~WithinLimit(a) => Cardinality(Recent(a)) >= Limit

(* A fixed window lets through twice its limit around a boundary, and      *)
(* every outage of Redis at most one Limit more, whether a call fails or   *)
(* all counters are lost: longer runs of requests take longer than Window. *)
AtMostTwiceLimit ==
  \A a \in Addresses : \A i, j \in DOMAIN passed[a] :
    j - i = (2 + outages) * Limit => passed[a][j] - passed[a][i] > Window
=============================================================================
