--------------------------- MODULE RateLimitProofs --------------------------
(***************************************************************************)
(* What the fixed-window limit promises for every limit, window and number *)
(* of addresses.                                                           *)
(***************************************************************************)
EXTENDS RateLimit, FiniteSetTheorems, TLAPS

(* The requests since the window opened, and how many of them count.       *)
InWindow(a) == {i \in DOMAIN passed[a] : passed[a][i] >= expires[a] - Window}
Used(a) == IF hits[a] > Limit THEN Limit ELSE hits[a]

(* A key with hits is alive, and lives no longer than a window.            *)
Alive(a) == /\ hits[a] > 0 => clock < expires[a]
            /\ expires[a] <= clock + Window
            /\ \A i \in DOMAIN passed[a] : passed[a][i] <= clock

(* The counter never counts more than was let through.                     *)
Counted(a) == Cardinality(InWindow(a)) >= Used(a)

(* When the current window opened, or would open now.                      *)
Start(a) == IF hits[a] = 0 THEN clock ELSE expires[a] - Window

(* What outages let through besides.                                       *)
Extra == outages * Limit

(* How many requests have been let through since Start, at most.           *)
Since(a) == Used(a) + Extra

(* They are the last ones; those of the Window before Start are the Limit  *)
(* before them at most.                                                    *)
Spaced(a) ==
  \A i \in DOMAIN passed[a] :
    /\ i <= Len(passed[a]) - Since(a) => passed[a][i] < Start(a)
    /\ i <= Len(passed[a]) - Since(a) - Limit => passed[a][i] < Start(a) - Window

TwiceAtMost(a) ==
  \A i, j \in DOMAIN passed[a] :
    j - i >= 2 * Limit + Extra => passed[a][j] - passed[a][i] > Window

LimitInv ==
  /\ LimitTypeOK
  /\ \A a \in Addresses : Alive(a) /\ Counted(a) /\ Spaced(a) /\ TwiceAtMost(a)

LEMMA InitLimitInv == LimitInit => LimitInv
<1> SUFFICES ASSUME LimitInit PROVE LimitInv
  OBVIOUS
<1> USE RateLimitAssumption
<1>1. LimitTypeOK
  BY DEF LimitInit, LimitTypeOK
<1>2. ASSUME NEW a \in Addresses PROVE Alive(a) /\ Counted(a) /\ Spaced(a) /\ TwiceAtMost(a)
  <2>1. hits[a] = 0 /\ expires[a] = 0 /\ clock = 0 /\ DOMAIN passed[a] = {}
    BY DEF LimitInit
  <2>2. InWindow(a) = {} /\ Used(a) = 0
    BY <2>1 DEF InWindow, Used
  <2>3. Counted(a)
    BY <2>2, FS_EmptySet DEF Counted
  <2> QED
    BY <2>1, <2>3 DEF Alive, Spaced, TwiceAtMost
<1> QED
  BY <1>1, <1>2 DEF LimitInv

-----------------------------------------------------------------------------
LEMMA Numbers == /\ Limit \in Nat /\ Limit >= 1 /\ Limit \in Int
                 /\ Window \in Nat /\ Window >= 1 /\ Window \in Int
BY RateLimitAssumption

(* The values of one address.                                              *)

LEMMA Values ==
  ASSUME LimitTypeOK, NEW a \in Addresses
  PROVE  /\ clock \in Nat /\ hits[a] \in 0..(Limit + 1) /\ expires[a] \in Nat
         /\ passed[a] \in Seq(Nat) /\ Len(passed[a]) \in Nat
         /\ DOMAIN passed[a] = 1..Len(passed[a])
         /\ \A i \in DOMAIN passed[a] : passed[a][i] \in Nat
         /\ IsFiniteSet(DOMAIN passed[a])
         /\ IsFiniteSet(InWindow(a)) /\ Cardinality(InWindow(a)) \in Nat
         /\ Used(a) \in 0..Limit
<1>1. /\ clock \in Nat /\ hits[a] \in 0..(Limit + 1) /\ expires[a] \in Nat
      /\ passed[a] \in Seq(0..MaxTime)
  BY RateLimitAssumption DEF LimitTypeOK
<1>2. /\ passed[a] \in Seq(Nat) /\ Len(passed[a]) \in Nat
      /\ DOMAIN passed[a] = 1..Len(passed[a])
      /\ \A i \in DOMAIN passed[a] : passed[a][i] \in Nat
  BY <1>1, RateLimitAssumption
<1>3. /\ IsFiniteSet(DOMAIN passed[a])
      /\ IsFiniteSet(InWindow(a)) /\ Cardinality(InWindow(a)) \in Nat
  <2>1. IsFiniteSet(DOMAIN passed[a]) /\ InWindow(a) \subseteq DOMAIN passed[a]
    BY <1>2, FS_Interval DEF InWindow
  <2> QED
    BY <2>1, FS_Subset, FS_CardinalityType
<1> QED
  BY <1>1, <1>2, <1>3, RateLimitAssumption DEF Used

(* Each outage adds a Limit.                                               *)
LEMMA ExtraNumbers ==
  ASSUME LimitTypeOK
  PROVE  /\ Extra \in Nat
         /\ UNCHANGED outages => Extra' = Extra
         /\ Outage => Extra' = Extra + Limit
<1>1. outages \in Nat /\ Limit \in Nat
  BY Numbers, RateLimitAssumption DEF LimitTypeOK
<1>2. \A o, k \in Nat : o * k \in Nat /\ (o + 1) * k = o * k + k
  OBVIOUS
<1> QED
  BY <1>1, <1>2 DEF Extra, Outage

(* A step keeps the spacing that opens no earlier window and makes no      *)
(* more room in it than a request takes up.                                *)
LEMMA SpacedKept ==
  ASSUME LimitTypeOK, LimitTypeOK', NEW a \in Addresses,
         Spaced(a), TwiceAtMost(a), Extra' >= Extra,
         Start(a)' \in Int, Start(a) \in Int,
         Start(a) <= Start(a)', Start(a)' <= clock',
         \/ passed'[a] = passed[a] /\ Since(a)' >= Since(a)
         \/ LetThrough(a) /\ UNCHANGED clock /\ Since(a)' >= Since(a) + 1
  PROVE  Spaced(a)' /\ TwiceAtMost(a)'
<1>1. /\ Used(a) \in 0..Limit /\ Used(a)' \in 0..Limit
      /\ Extra \in Nat /\ Extra' \in Nat /\ clock \in Int
  <2>1. hits'[a] \in 0..(Limit + 1) /\ outages' \in Nat /\ Limit \in Nat
    BY RateLimitAssumption DEF LimitTypeOK
  <2>2. Used(a)' \in 0..Limit
    BY <2>1 DEF Used
  <2>3. Extra' \in Nat
    <3>1. \A o, k \in Nat : o * k \in Nat
      OBVIOUS
    <3> QED
      BY <2>1, <3>1 DEF Extra
  <2> QED
    BY <2>2, <2>3, Values, ExtraNumbers
<1>2. PICK n \in Nat : n = Len(passed[a])
  BY Values
<1>3. PICK u \in Nat : u = Since(a)
  BY <1>1, Numbers DEF Since
<1>4. PICK v \in Nat : v = Since(a)'
  BY <1>1, Numbers DEF Since
<1>5. PICK e \in Nat : e = Extra
  BY <1>1
<1>6. PICK f \in Nat : f = Extra'
  BY <1>1
<1>7. f >= e /\ v <= Limit + f
  BY <1>1, <1>4, <1>5, <1>6, Numbers DEF Since
<1>8. DOMAIN passed[a] = 1..n /\ \A i \in 1..n : passed[a][i] \in Int
  BY <1>2, Values
<1>9. ASSUME NEW i \in 1..n
      PROVE  /\ i <= n - u => passed[a][i] < Start(a)'
             /\ i <= n - u - Limit => passed[a][i] < Start(a)' - Window
  <2>1. /\ i <= n - u => passed[a][i] < Start(a)
        /\ i <= n - u - Limit => passed[a][i] < Start(a) - Window
    BY <1>2, <1>3, <1>8 DEF Spaced
  <2>2. passed[a][i] \in Int
    BY <1>8
  <2> QED
    BY <2>1, <2>2, Numbers
<1>10. ASSUME NEW i \in 1..n, NEW j \in 1..n, j - i >= 2 * Limit + f
       PROVE  passed[a][j] - passed[a][i] > Window
  <2>1. j - i >= 2 * Limit + e
    BY <1>7, <1>10, Numbers
  <2> QED
    BY <1>5, <1>8, <2>1 DEF TwiceAtMost
<1>11. CASE passed'[a] = passed[a] /\ v >= u
  <2>1. ASSUME NEW i \in 1..n
        PROVE  /\ i <= n - v => passed[a][i] < Start(a)'
               /\ i <= n - v - Limit => passed[a][i] < Start(a)' - Window
    <3>1. (i <= n - v => i <= n - u) /\ (i <= n - v - Limit => i <= n - u - Limit)
      BY <1>11, Numbers
    <3> QED
      BY <1>9, <3>1
  <2>2. Spaced(a)'
    BY <1>2, <1>4, <1>8, <1>11, <2>1 DEF Spaced
  <2>3. TwiceAtMost(a)'
    BY <1>6, <1>8, <1>10, <1>11 DEF TwiceAtMost
  <2> QED
    BY <2>2, <2>3
<1>12. CASE LetThrough(a) /\ UNCHANGED clock /\ v >= u + 1
  <2> PICK k \in Nat : k = n + 1
    OBVIOUS
  <2>1. /\ DOMAIN passed'[a] = 1..k /\ k = Len(passed'[a])
        /\ passed'[a][k] = clock
        /\ \A i \in 1..n : passed'[a][i] = passed[a][i]
    <3>1. passed'[a] = Append(passed[a], clock)
      BY <1>12 DEF LetThrough, LimitTypeOK
    <3> QED
      BY <1>2, <3>1, Values
  <2>2. ASSUME NEW i \in 1..k
        PROVE  /\ i <= k - v => passed'[a][i] < Start(a)'
               /\ i <= k - v - Limit => passed'[a][i] < Start(a)' - Window
    <3>1. /\ i <= k - v => i <= n - u /\ i \in 1..n
          /\ i <= k - v - Limit => i <= n - u - Limit /\ i \in 1..n
      BY <1>12, Numbers
    <3> QED
      BY <1>9, <2>1, <3>1
  <2>3. Spaced(a)'
    BY <1>4, <2>1, <2>2 DEF Spaced
  <2>4. ASSUME NEW i \in 1..k, NEW j \in 1..k, j - i >= 2 * Limit + f
        PROVE  passed'[a][j] - passed'[a][i] > Window
    <3>1. i \in 1..n
      BY <2>4, Numbers
    <3>2. passed'[a][i] = passed[a][i] /\ passed[a][i] \in Int
      BY <1>8, <2>1, <3>1
    <3>3. CASE j \in 1..n
      BY <1>10, <2>1, <2>4, <3>1, <3>2, <3>3
    <3>4. CASE j = k
      <4>1. i <= k - v - Limit
        BY <1>7, <2>4, <3>4, Numbers
      <4>2. passed'[a][i] < Start(a)' - Window
        BY <2>2, <4>1
      <4>3. passed'[a][j] = clock /\ Start(a)' <= clock
        BY <1>12, <2>1, <3>4
      <4> QED
        BY <1>1, <3>2, <4>2, <4>3, Numbers
    <3> QED
      BY <3>3, <3>4
  <2>5. TwiceAtMost(a)'
    BY <1>6, <2>1, <2>4 DEF TwiceAtMost
  <2> QED
    BY <2>3, <2>5
<1> QED
  BY <1>3, <1>4, <1>11, <1>12

(* A request is let through, counted or not.                               *)
LEMMA ThroughCounted ==
  ASSUME LimitTypeOK, NEW a \in Addresses, Alive(a), Counted(a),
         LetThrough(a), UNCHANGED clock,
         \/ hits'[a] = hits[a] /\ expires'[a] = expires[a]
         \/ /\ hits'[a] = (IF hits[a] > Limit THEN hits[a] ELSE hits[a] + 1)
            /\ expires'[a] = Expiry(a)
  PROVE  Alive(a)' /\ Counted(a)'
<1> USE Numbers
<1>n. PICK n \in Nat : n = Len(passed[a])
  BY Values
<1>1. /\ clock \in Nat /\ hits[a] \in 0..(Limit + 1) /\ expires[a] \in Nat
      /\ DOMAIN passed[a] = 1..n
      /\ IsFiniteSet(InWindow(a)) /\ Cardinality(InWindow(a)) \in Nat
      /\ \A i \in 1..n : passed[a][i] \in Nat
  BY <1>n, Values
<1>2. passed'[a] = Append(passed[a], clock)
  BY DEF LetThrough, LimitTypeOK
<1>3. /\ DOMAIN passed'[a] = 1..(n + 1) /\ passed'[a][n + 1] = clock
      /\ \A i \in 1..n : passed'[a][i] = passed[a][i]
  BY <1>n, <1>2, Values
<1>4. Alive(a)'
  <2>1. \A i \in DOMAIN passed'[a] : passed'[a][i] <= clock
    <3>1. \A i \in 1..n : passed'[a][i] <= clock
      BY <1>1, <1>3, Zenon DEF Alive
    <3>2. passed'[a][n + 1] <= clock
      BY <1>1, <1>3
    <3>3. \A i \in 1..(n + 1) : i \in 1..n \/ i = n + 1
      OBVIOUS
    <3> QED
      BY <1>3, <3>1, <3>2, <3>3, Zenon
  <2>2. hits'[a] > 0 => clock < expires'[a]
    BY <1>1 DEF Alive, Expiry
  <2>3. expires'[a] <= clock + Window
    BY <1>1 DEF Alive, Expiry
  <2> QED
    BY <2>1, <2>2, <2>3 DEF Alive
<1>5. CASE hits[a] > 0 \/ hits'[a] = hits[a]
  <2>1. expires'[a] = expires[a]
    BY <1>1, <1>5 DEF Expiry
  <2>2. InWindow(a)' = InWindow(a) \cup {n + 1}
    BY <1>1, <1>3, <2>1, SMTT(30) DEF InWindow, Alive
  <2>3. n + 1 \notin InWindow(a)
    BY <1>1 DEF InWindow
  <2>4. Cardinality(InWindow(a)') = Cardinality(InWindow(a)) + 1
    BY <1>1, <2>2, <2>3, FS_AddElement
  <2> QED
    BY <1>1, <1>4, <2>4 DEF Counted, Used
<1>6. CASE hits[a] = 0 /\ hits'[a] = 1
  <2>1. expires'[a] = clock + Window
    BY <1>1, <1>6 DEF Expiry
  <2>2. n + 1 \in InWindow(a)'
    BY <1>1, <1>3, <2>1 DEF InWindow
  <2>3. InWindow(a)' \subseteq 1..(n + 1) /\ IsFiniteSet(1..(n + 1))
    BY <1>1, <1>3, FS_Interval DEF InWindow
  <2>4. IsFiniteSet(InWindow(a)')
    BY <2>3, FS_Subset
  <2>5. Cardinality(InWindow(a)') \in Nat /\ Cardinality(InWindow(a)') # 0
    BY <2>2, <2>4, FS_CardinalityType, FS_EmptySet
  <2> QED
    BY <1>4, <1>6, <2>5 DEF Counted, Used
<1> QED
  BY <1>1, <1>4, <1>5, <1>6

-----------------------------------------------------------------------------
(* Every step.                                                             *)

LEMMA NextLimitTypeOK ==
  ASSUME LimitTypeOK, [LimitNext]_limitVars
  PROVE  LimitTypeOK'
<1> USE RateLimitAssumption
<1>1. ASSUME NEW a \in Addresses, Incr(a), UNCHANGED clock
      PROVE  /\ hits' \in [Addresses -> 0..(Limit + 1)]
             /\ expires' \in [Addresses -> Nat]
  <2>1. Expiry(a) \in Nat
    BY DEF LimitTypeOK, Expiry
  <2> QED
    BY <1>1, <2>1 DEF LimitTypeOK, Incr
<1>2. ASSUME NEW a \in Addresses, LetThrough(a)
      PROVE  passed' \in [Addresses -> Seq(0..MaxTime)]
  <2>1. Append(passed[a], clock) \in Seq(0..MaxTime)
    BY DEF LimitTypeOK
  <2> QED
    BY <1>2, <2>1 DEF LimitTypeOK, LetThrough
<1>3. Outage => outages' \in 0..MaxOutages
  BY DEF LimitTypeOK, Outage
<1>4. CASE \E a \in Addresses : Admit(a) \/ Refuse(a) \/ FailOpen(a)
  BY <1>1, <1>2, <1>3, <1>4 DEF LimitTypeOK, Admit, Refuse, FailOpen
<1>5. CASE Tick
  BY <1>5 DEF LimitTypeOK, Tick
<1>6. CASE Flush
  BY <1>3, <1>6 DEF LimitTypeOK, Flush
<1>7. CASE UNCHANGED limitVars
  BY <1>7 DEF LimitTypeOK, limitVars
<1> QED
  BY <1>4, <1>5, <1>6, <1>7 DEF LimitNext

(* What an increment makes of the counter.                                 *)
LEMMA IncrNumbers ==
  ASSUME LimitTypeOK, NEW a \in Addresses, Incr(a), UNCHANGED clock
  PROVE  /\ hits'[a] = (IF hits[a] > Limit THEN hits[a] ELSE hits[a] + 1)
         /\ expires'[a] = Expiry(a)
         /\ Start(a)' = Start(a)
         /\ Used(a)' = (IF hits[a] < Limit THEN Used(a) + 1 ELSE Used(a))
<1>1. /\ hits'[a] = (IF hits[a] > Limit THEN hits[a] ELSE hits[a] + 1)
      /\ expires'[a] = Expiry(a)
  BY DEF Incr, LimitTypeOK
<1>2. hits[a] \in 0..(Limit + 1) /\ clock \in Nat
  BY Values
<1> QED
  BY <1>1, <1>2, Numbers DEF Start, Used, Expiry

(* The window of an address opened by now.                                 *)
LEMMA StartBounds ==
  ASSUME LimitTypeOK, NEW a \in Addresses, Alive(a)
  PROVE  Start(a) \in Int /\ Start(a) <= clock
BY Values, Numbers DEF Start, Alive

LEMMA RequestInv ==
  ASSUME LimitInv, LimitTypeOK', NEW a \in Addresses,
         Admit(a) \/ Refuse(a) \/ FailOpen(a)
  PROVE  Alive(a)' /\ Counted(a)' /\ Spaced(a)' /\ TwiceAtMost(a)'
<1> USE Numbers
<1>1. LimitTypeOK /\ Alive(a) /\ Counted(a) /\ Spaced(a) /\ TwiceAtMost(a)
  BY DEF LimitInv
<1>2. /\ clock \in Nat /\ hits[a] \in 0..(Limit + 1) /\ Used(a) \in 0..Limit
      /\ Start(a) \in Int /\ Start(a) <= clock /\ Extra \in Nat
      /\ UNCHANGED outages => Extra' = Extra
      /\ Outage => Extra' = Extra + Limit
  BY <1>1, Values, StartBounds, ExtraNumbers
<1>3. UNCHANGED clock
  BY DEF Admit, Refuse, FailOpen
<1>4. CASE Admit(a)
  <2>1. Alive(a)' /\ Counted(a)'
    BY <1>1, <1>3, <1>4, IncrNumbers, ThroughCounted DEF Admit
  <2>2. LetThrough(a) /\ Extra' = Extra /\ Incr(a) /\ hits[a] < Limit
    BY <1>2, <1>4 DEF Admit, WithinLimit
  <2>3. Start(a)' = Start(a) /\ Since(a)' >= Since(a) + 1
    BY <1>1, <1>2, <1>3, <2>2, IncrNumbers DEF Since
  <2> QED
    BY <1>1, <1>2, <1>3, <2>1, <2>2, <2>3, SpacedKept
<1>5. CASE Refuse(a)
  <2>1. /\ Incr(a) /\ passed'[a] = passed[a] /\ Extra' = Extra /\ hits[a] >= Limit
        /\ InWindow(a)' = {i \in DOMAIN passed[a] : passed[a][i] >= expires'[a] - Window}
    BY <1>2, <1>5 DEF Refuse, WithinLimit, InWindow
  <2>2. /\ hits'[a] = Limit + 1 /\ expires'[a] = expires[a]
        /\ Start(a)' = Start(a) /\ Used(a)' = Used(a)
    BY <1>1, <1>2, <1>3, <2>1, IncrNumbers DEF Expiry
  <2>3. Counted(a)'
    BY <1>1, <2>1, <2>2 DEF Counted, InWindow
  <2>4. Alive(a)'
    BY <1>1, <1>2, <1>3, <2>1, <2>2 DEF Alive
  <2>5. Since(a)' >= Since(a)
    BY <1>2, <2>1, <2>2 DEF Since
  <2> QED
    BY <1>1, <1>2, <1>3, <2>1, <2>2, <2>3, <2>4, <2>5, SpacedKept
<1>6. CASE FailOpen(a)
  <2>1. Alive(a)' /\ Counted(a)'
    BY <1>1, <1>3, <1>6, IncrNumbers, ThroughCounted DEF FailOpen
  <2>2. LetThrough(a) /\ Extra' = Extra + Limit
    BY <1>2, <1>6 DEF FailOpen
  <2>3. Start(a)' = Start(a) /\ Used(a)' \in {Used(a), Used(a) + 1}
    <3>1. CASE Incr(a)
      BY <1>1, <1>3, <3>1, IncrNumbers
    <3>2. CASE UNCHANGED <<hits, expires>>
      BY <1>3, <3>2 DEF Start, Used
    <3> QED
      BY <1>6, <3>1, <3>2 DEF FailOpen
  <2>4. Since(a)' >= Since(a) + 1 /\ Extra' >= Extra
    BY <1>2, <2>2, <2>3 DEF Since
  <2> QED
    BY <1>1, <1>2, <1>3, <2>1, <2>2, <2>3, <2>4, SpacedKept
<1> QED
  BY <1>4, <1>5, <1>6

LEMMA TickInv ==
  ASSUME LimitInv, LimitTypeOK', NEW a \in Addresses, Tick
  PROVE  Alive(a)' /\ Counted(a)' /\ Spaced(a)' /\ TwiceAtMost(a)'
<1> USE Numbers
<1>0. LimitTypeOK /\ Alive(a) /\ Counted(a) /\ Spaced(a) /\ TwiceAtMost(a)
  BY DEF LimitInv
<1>2. /\ clock \in Nat /\ hits[a] \in 0..(Limit + 1) /\ expires[a] \in Nat
      /\ Len(passed[a]) \in Nat /\ DOMAIN passed[a] = 1..Len(passed[a])
      /\ \A i \in DOMAIN passed[a] : passed[a][i] \in Nat
      /\ Cardinality(InWindow(a)) \in Nat /\ Used(a) \in 0..Limit
      /\ Start(a) \in Int /\ Start(a) <= clock /\ Extra \in Nat
  BY <1>0, Values, StartBounds, ExtraNumbers
<1>1. /\ clock' = clock + 1 /\ UNCHANGED <<expires, passed, outages>>
      /\ hits'[a] = IF expires[a] <= clock + 1 THEN 0 ELSE hits[a]
      /\ Extra' = Extra
  BY DEF Tick, Extra
<1>3. Alive(a)'
  <2>1. clock' \in Nat /\ clock < clock' /\ expires'[a] = expires[a] /\ passed' = passed
    BY <1>1, <1>2
  <2>2. hits'[a] > 0 => clock' < expires'[a]
    BY <1>1, <1>2, <2>1
  <2>3. expires'[a] <= clock' + Window
    BY <1>0, <1>2, <2>1 DEF Alive
  <2>4. ASSUME NEW i \in DOMAIN passed'[a] PROVE passed'[a][i] <= clock'
    <3>1. passed[a][i] <= clock /\ passed[a][i] \in Nat
      BY <1>0, <1>2, <2>1 DEF Alive
    <3> QED
      BY <1>2, <2>1, <3>1
  <2> QED
    BY <2>2, <2>3, <2>4 DEF Alive
<1>4. Counted(a)'
  <2>1. InWindow(a)' = InWindow(a) /\ Used(a)' <= Used(a)
        /\ Used(a)' \in Int /\ Used(a) \in Int
    BY <1>1, <1>2 DEF InWindow, Used
  <2> QED
    BY <1>0, <1>2, <2>1 DEF Counted
<1>5. CASE hits'[a] = hits[a]
  <2>1. Used(a)' = Used(a)
    BY <1>5 DEF Used
  <2>2. Start(a)' \in Int /\ Start(a) <= Start(a)' /\ Start(a)' <= clock'
    BY <1>1, <1>2, <1>5 DEF Start
  <2>3. /\ passed'[a] = passed[a] /\ Extra' >= Extra
        /\ Since(a)' >= Since(a)
    BY <1>1, <1>2, <2>1 DEF Since
  <2> QED
    BY <1>0, <1>2, <1>3, <1>4, <2>2, <2>3, SpacedKept
<1>6. CASE hits'[a] = 0 /\ hits[a] > 0
  <2>1. expires[a] = clock'
    BY <1>0, <1>1, <1>2, <1>6 DEF Alive
  <2>2. Start(a)' = clock' /\ Start(a) = clock' - Window /\ Used(a)' = 0
    BY <1>2, <1>6, <2>1 DEF Start, Used
  <2>3. Spaced(a)'
    <3> DEFINE n == Len(passed[a])
    <3>0. Since(a) <= Limit + Extra /\ Since(a) \in Nat /\ Since(a)' = Extra /\ n \in Nat
      BY <1>1, <1>2, <2>2 DEF Since
    <3> HIDE DEF n
    <3>1. ASSUME NEW i \in DOMAIN passed[a]
          PROVE  /\ passed[a][i] < clock'
                 /\ i <= n - Extra - Limit => passed[a][i] < clock' - Window
      <4>1. passed[a][i] <= clock /\ passed[a][i] \in Nat /\ i \in Nat
        BY <1>0, <1>2 DEF Alive
      <4>2. i <= n - Since(a) => passed[a][i] < clock' - Window
        BY <1>0, <2>2 DEF Spaced, n
      <4>3. i <= n - Extra - Limit => i <= n - Since(a)
        BY <1>2, <3>0, <4>1
      <4> QED
        BY <1>1, <1>2, <4>1, <4>2, <4>3
    <3> QED
      BY <1>1, <2>2, <3>0, <3>1 DEF Spaced, n
  <2>4. TwiceAtMost(a)'
    BY <1>0, <1>1 DEF TwiceAtMost
  <2> QED
    BY <1>3, <1>4, <2>3, <2>4
<1> QED
  BY <1>1, <1>2, <1>5, <1>6

(* A restart of Redis, or an outage at another address.                    *)
LEMMA ElsewhereInv ==
  ASSUME LimitInv, LimitTypeOK', NEW a \in Addresses,
         UNCHANGED <<clock, expires[a], passed[a]>>,
         \/ hits'[a] = hits[a] /\ (UNCHANGED outages \/ Outage)
         \/ hits'[a] = 0 /\ Outage
  PROVE  Alive(a)' /\ Counted(a)' /\ Spaced(a)' /\ TwiceAtMost(a)'
<1> USE Numbers
<1>1. LimitTypeOK /\ Alive(a) /\ Counted(a) /\ Spaced(a) /\ TwiceAtMost(a)
  BY DEF LimitInv
<1>2. /\ clock \in Nat /\ hits[a] \in 0..(Limit + 1) /\ expires[a] \in Nat
      /\ Cardinality(InWindow(a)) \in Nat /\ Used(a) \in 0..Limit
      /\ Start(a) \in Int /\ Start(a) <= clock /\ Extra \in Nat
      /\ UNCHANGED outages => Extra' = Extra
      /\ Outage => Extra' = Extra + Limit
  BY <1>1, Values, StartBounds, ExtraNumbers
<1>3. InWindow(a)' = InWindow(a) /\ Used(a)' \in {0, Used(a)}
  BY DEF InWindow, Used
<1>4. Alive(a)'
  BY <1>1 DEF Alive
<1>5. Counted(a)'
  BY <1>1, <1>2, <1>3 DEF Counted
<1>6. Start(a)' \in Int /\ Start(a) <= Start(a)' /\ Start(a)' <= clock'
  BY <1>2 DEF Start
<1>7. Extra' >= Extra /\ Since(a)' >= Since(a)
  <2>1. CASE hits'[a] = hits[a]
    <3>1. Used(a)' = Used(a)
      BY <2>1 DEF Used
    <3> QED
      BY <1>2, <2>1, <3>1 DEF Since
  <2>2. CASE Outage
    BY <1>2, <1>3, <2>2 DEF Since
  <2> QED
    BY <2>1, <2>2
<1> QED
  BY <1>1, <1>2, <1>4, <1>5, <1>6, <1>7, SpacedKept

LEMMA NextLimitInv ==
  ASSUME LimitInv, [LimitNext]_limitVars
  PROVE  LimitInv'
<1>0. LimitTypeOK /\ LimitTypeOK'
  BY NextLimitTypeOK DEF LimitInv
<1> SUFFICES ASSUME NEW a \in Addresses
             PROVE  Alive(a)' /\ Counted(a)' /\ Spaced(a)' /\ TwiceAtMost(a)'
  BY <1>0 DEF LimitInv
<1>1. ASSUME NEW b \in Addresses, b # a, Admit(b) \/ Refuse(b) \/ FailOpen(b)
      PROVE  Alive(a)' /\ Counted(a)' /\ Spaced(a)' /\ TwiceAtMost(a)'
  <2>1. UNCHANGED <<clock, hits[a], expires[a], passed[a]>>
    BY <1>0, <1>1 DEF LimitTypeOK, Admit, Refuse, FailOpen, Incr, LetThrough
  <2>2. UNCHANGED outages \/ Outage
    BY <1>1 DEF Admit, Refuse, FailOpen
  <2> QED
    BY <1>0, <2>1, <2>2, ElsewhereInv
<1>2. CASE Admit(a) \/ Refuse(a) \/ FailOpen(a)
  BY <1>0, <1>2, RequestInv
<1>3. CASE Tick
  BY <1>0, <1>3, TickInv
<1>4. CASE Flush
  <2>1. Outage /\ hits'[a] = 0 /\ UNCHANGED <<clock, expires[a], passed[a]>>
    BY <1>4 DEF Flush
  <2> QED
    BY <1>0, <2>1, ElsewhereInv
<1>5. CASE UNCHANGED limitVars
  BY <1>0, <1>5, ElsewhereInv DEF limitVars
<1> QED
  BY <1>1, <1>2, <1>3, <1>4, <1>5 DEF LimitNext

LEMMA LimitInvHolds == LimitSpec => []LimitInv
BY InitLimitInv, NextLimitInv, PTL DEF LimitSpec

LEMMA LimitInvProperties ==
  ASSUME LimitInv
  PROVE  LimitTypeOK /\ RefusalEarned /\ AtMostTwiceLimit
<1> USE Numbers
<1>1. LimitTypeOK
  BY DEF LimitInv
<1>2. AtMostTwiceLimit
  <2> SUFFICES ASSUME NEW a \in Addresses, NEW i \in DOMAIN passed[a],
                      NEW j \in DOMAIN passed[a], j - i = (2 + outages) * Limit
               PROVE  passed[a][j] - passed[a][i] > Window
    BY DEF AtMostTwiceLimit
  <2>1. outages \in Nat /\ i \in Int /\ j \in Int
    <3>1. DOMAIN passed[a] = 1..Len(passed[a])
      BY <1>1, Values
    <3> QED
      BY <1>1, <3>1, RateLimitAssumption DEF LimitTypeOK
  <2>2. \A o, k \in Nat : (2 + o) * k = 2 * k + o * k /\ o * k \in Nat
    OBVIOUS
  <2>3. j - i >= 2 * Limit + Extra
    BY <2>1, <2>2 DEF Extra
  <2> QED
    BY <2>3 DEF LimitInv, TwiceAtMost
<1>3. RefusalEarned
  <2> SUFFICES ASSUME NEW a \in Addresses, ~WithinLimit(a)
               PROVE  Cardinality(Recent(a)) >= Limit
    BY DEF RefusalEarned
  <2>1. /\ clock \in Nat /\ hits[a] \in 0..(Limit + 1) /\ expires[a] \in Nat
        /\ Len(passed[a]) \in Nat /\ DOMAIN passed[a] = 1..Len(passed[a])
        /\ \A i \in DOMAIN passed[a] : passed[a][i] \in Nat
        /\ Cardinality(InWindow(a)) \in Nat
    BY <1>1, Values
  <2>2. Cardinality(InWindow(a)) >= Limit /\ clock < expires[a]
    BY <2>1 DEF LimitInv, Counted, Used, Alive, WithinLimit
  <2>3. InWindow(a) \subseteq Recent(a)
    BY <2>1, <2>2 DEF InWindow, Recent
  <2>4. IsFiniteSet(Recent(a))
    BY <1>1, Values, FS_Subset DEF Recent
  <2>5. /\ Cardinality(InWindow(a)) <= Cardinality(Recent(a))
        /\ Cardinality(Recent(a)) \in Nat
    BY <2>3, <2>4, FS_Subset, FS_CardinalityType
  <2> QED
    BY <2>1, <2>2, <2>5
<1> QED
  BY <1>1, <1>2, <1>3

(* RateLimit's 429 (pkg/middleware/ratelimit.go) is always earned: Limit   *)
(* requests of the address were let through within the last Window, though *)
(* refused requests are counted too and Redis may fail or lose its keys.   *)
THEOREM NeverRefusedEarly == LimitSpec => []RefusalEarned
<1>1. LimitInv => RefusalEarned
  BY LimitInvProperties
<1> QED
  BY <1>1, LimitInvHolds, PTL

(* The fixed window of rateLimitStore.Incr lets through at most 2 * Limit  *)
(* in any Window, and Limit more for each outage of Redis.                 *)
THEOREM BurstBounded == LimitSpec => []AtMostTwiceLimit
<1>1. LimitInv => AtMostTwiceLimit
  BY LimitInvProperties
<1> QED
  BY <1>1, LimitInvHolds, PTL
=============================================================================
