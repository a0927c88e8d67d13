------------------------- MODULE ListingCacheProofs -------------------------
(***************************************************************************)
(* Read your writes of the cached feed, for every number of readers,       *)
(* writers, filters, writes and faults.                                    *)
(***************************************************************************)
EXTENDS ListingCache, SequenceTheorems, TLAPS

(* Typing, with the fact that no reader holds a page from the future.      *)
TypeInv == /\ TypeOK
           /\ \A r \in Readers : page[r].at \in Int /\ page[r].at <= db

WritersTyped == /\ acked \in 0..db
                /\ wpc \in [Writers -> {"idle", "committed"}]
                /\ wn \in [Writers -> 0..db]

FaultsTyped == flushed \in BOOLEAN /\ faults \in 0..MaxFaults

LEMMA FaultsTypedStep ==
  ASSUME FaultsTyped, faults' = faults \/ Disturb, flushed' \in BOOLEAN
  PROVE  FaultsTyped'
<1>1. faults' \in 0..MaxFaults
  BY BoundsAssumption DEF FaultsTyped, Disturb
<1> QED
  BY <1>1 DEF FaultsTyped

LEMMA PageOfType ==
  ASSUME TypeOK, NEW f \in Filters
  PROVE  /\ PageOf(f) \in PageType
         /\ PageOf(f).at = db
  BY DEF PageOf, PageType, TypeOK

LEMMA InitTypeInv == Init => TypeInv
<1> SUFFICES ASSUME Init PROVE TypeInv
  OBVIOUS
<1>1. \A r \in Readers : page[r] = NoPage /\ page[r].at = -1 /\ rpc[r] = "idle"
  BY DEF Init, NoPage
<1>2. page \in [Readers -> PageType \cup {NoPage}]
  BY DEF Init
<1>3. /\ wn \in [Writers -> 0..db] /\ wpc \in [Writers -> {"idle", "committed"}]
      /\ need \in [Readers -> 0..db]
      /\ acked \in 0..db /\ db \in Nat /\ db >= 0
  BY DEF Init
<1>4. /\ rpc \in [Readers -> {"idle", "lookup", "query", "fill", "done"}]
      /\ filter \in [Readers -> Filters] /\ rver \in [Readers -> Nat]
      /\ cache = {} /\ boosts \in Nat /\ ver \in Nat
  BY DEF Init
<1>5. faults \in 0..MaxFaults
  BY BoundsAssumption DEF Init
<1>6. flushed \in BOOLEAN
  BY DEF Init
<1> QED
  BY <1>1, <1>2, <1>3, <1>4, <1>5, <1>6 DEF TypeInv, TypeOK

(* Steps of writers, of boosts and of Redis leave the readers alone.       *)
LEMMA OthersTypeInv ==
  ASSUME TypeInv,
         \/ \E w \in Writers : WriterStep(w)
         \/ \E k \in Keys : Expire(k)
         \/ BoostChange \/ Flush \/ UNCHANGED vars
  PROVE  TypeInv'
<1>1. UNCHANGED readerVars
  BY DEF WriterStep, CommitWrite, Invalidate, InvalidateFails, Raise, Answer, Abandon,
         Expire, BoostChange, Flush, vars
<1>2. /\ db' \in Nat /\ db' >= db /\ boosts' \in Nat /\ boosts' >= boosts
      /\ ver' \in Nat
  BY DEF WriterStep, CommitWrite, Invalidate, InvalidateFails, Raise, Answer, Abandon,
         Expire, BoostChange, Flush, vars, faultVars, readerVars, TypeInv, TypeOK
<1>3. cache' \subseteq cache
  BY DEF WriterStep, CommitWrite, Invalidate, InvalidateFails, Raise, Answer, Abandon,
         Expire, BoostChange, Flush, vars
<1>4. WritersTyped'
  <2>1. ASSUME NEW w \in Writers, CommitWrite(w)
        PROVE  WritersTyped'
    BY <2>1 DEF CommitWrite, TypeInv, TypeOK, WritersTyped
  <2>2. ASSUME NEW w \in Writers, Invalidate(w) \/ InvalidateFails(w)
        PROVE  WritersTyped'
    BY <2>2 DEF Invalidate, InvalidateFails, Raise, Answer, TypeInv, TypeOK, WritersTyped
  <2>3. ASSUME NEW w \in Writers, Abandon(w)
        PROVE  WritersTyped'
    BY <2>3 DEF Abandon, TypeInv, TypeOK, WritersTyped
  <2>4. CASE \/ \E k \in Keys : Expire(k)
             \/ BoostChange \/ Flush \/ UNCHANGED vars
    <3>1. UNCHANGED <<acked, wpc, wn, db>>
      BY <2>4 DEF Expire, BoostChange, Flush, vars, writerVars
    <3> QED
      BY <3>1 DEF TypeInv, TypeOK, WritersTyped
  <2>5. CASE \E w \in Writers : WriterStep(w)
    BY <2>1, <2>2, <2>3, <2>5 DEF WriterStep
  <2> QED
    BY <2>4, <2>5
<1>5. FaultsTyped'
  <2>1. FaultsTyped
    BY DEF TypeInv, TypeOK, FaultsTyped
  <2>2. faults' = faults \/ Disturb
    BY DEF WriterStep, CommitWrite, Invalidate, InvalidateFails, Raise, Answer, Abandon,
           Expire, BoostChange, Flush, vars, faultVars
  <2>3. flushed' \in {flushed, TRUE}
    BY DEF WriterStep, CommitWrite, Invalidate, InvalidateFails, Raise, Answer, Abandon,
           Expire, BoostChange, Flush, vars, faultVars
  <2>4. flushed' \in BOOLEAN
    BY <2>1, <2>3 DEF FaultsTyped
  <2> QED
    BY <2>1, <2>2, <2>4, FaultsTypedStep
<1>6. /\ UNCHANGED <<rpc, filter, rver, page>>
      /\ need' \in [Readers -> 0..db']
  BY <1>1, <1>2 DEF readerVars, TypeInv, TypeOK
<1>7. \A e \in cache' : e.page \in PageType /\ e.page.at <= db'
  BY <1>2, <1>3 DEF TypeInv, TypeOK, PageType
<1>8. \A r \in Readers : page'[r].at \in Int /\ page'[r].at <= db'
  BY <1>2, <1>6 DEF TypeInv, TypeOK
<1>9. TypeOK'
  BY <1>2, <1>3, <1>4, <1>5, <1>6, <1>7
  DEF TypeInv, TypeOK, WritersTyped, FaultsTyped
<1> QED
  BY <1>8, <1>9 DEF TypeInv
(* A reader's page comes from the cache or from a query, the cache's from  *)
(* a reader.                                                               *)
LEMMA ReaderTypeInv ==
  ASSUME TypeInv, NEW r \in Readers, ReaderStep(r)
  PROVE  TypeInv'
<1>1. UNCHANGED <<db, boosts, ver, writerVars>>
  BY DEF ReaderStep, ReaderGoesOn, ReadVersion, ReadVersionFails, ReadVersionAs,
         Hit, Miss, GetFails, ToQuery, Query, QueryFails, Fill, FillFails
<1>2. FaultsTyped'
  <2>1. FaultsTyped
    BY DEF TypeInv, TypeOK, FaultsTyped
  <2>2. faults' = faults \/ Disturb
    BY DEF ReaderStep, ReaderGoesOn, ReadVersion, ReadVersionFails, Hit, Miss,
           GetFails, Query, QueryFails, Fill, FillFails, faultVars
  <2>3. flushed' = flushed
    BY DEF ReaderStep, ReaderGoesOn, ReadVersion, ReadVersionFails, Hit, Miss,
           GetFails, Query, QueryFails, Fill, FillFails, faultVars
  <2>4. flushed' \in BOOLEAN
    BY <2>1, <2>3 DEF FaultsTyped
  <2> QED
    BY <2>1, <2>2, <2>4, FaultsTypedStep
<1>3. ASSUME NEW v \in Nat, ReadVersionAs(r, v)
      PROVE  TypeInv'
  <2>1. /\ rpc' \in [Readers -> {"idle", "lookup", "query", "fill", "done"}]
        /\ filter' \in [Readers -> Filters]
        /\ rver' \in [Readers -> Nat]
        /\ page' \in [Readers -> PageType \cup {NoPage}]
    BY <1>3 DEF ReadVersionAs, TypeInv, TypeOK
  <2>2. need' \in [Readers -> 0..db]
    BY <1>3 DEF ReadVersionAs, TypeInv, TypeOK
  <2>3. \A q \in Readers : rpc'[q] \in {"fill", "done"} => page'[q] \in PageType
    BY <1>3 DEF ReadVersionAs, TypeInv, TypeOK
  <2>4. \A q \in Readers : page'[q].at \in Int /\ page'[q].at <= db
    <3>1. NoPage.at = -1
      BY DEF NoPage
    <3> QED
      BY <1>3, <3>1 DEF ReadVersionAs, TypeInv, TypeOK
  <2>5. cache' = cache
    BY <1>3 DEF ReadVersionAs
  <2> QED
    BY <1>1, <1>2, <2>1, <2>2, <2>3, <2>4, <2>5
    DEF TypeInv, TypeOK, FaultsTyped, writerVars
<1>4. CASE Hit(r) \/ ToQuery(r) \/ QueryFails(r) \/ FillFails(r)
  <2>1. UNCHANGED <<cache, filter, rver, need>>
    BY <1>4 DEF Hit, ToQuery, QueryFails, FillFails
  <2>2. rpc' \in [Readers -> {"idle", "lookup", "query", "fill", "done"}]
    BY <1>4 DEF Hit, ToQuery, QueryFails, FillFails, TypeInv, TypeOK
  <2>3. \/ UNCHANGED page
        \/ \E e \in cache : page' = [page EXCEPT ![r] = e.page]
    BY <1>4 DEF Hit, ToQuery, QueryFails, FillFails
  <2>4. page' \in [Readers -> PageType \cup {NoPage}]
    BY <2>3 DEF TypeInv, TypeOK
  <2>5. \A q \in Readers : rpc'[q] \in {"fill", "done"} => page'[q] \in PageType
    BY <1>4 DEF Hit, ToQuery, QueryFails, FillFails, TypeInv, TypeOK
  <2>6. \A q \in Readers : page'[q].at \in Int /\ page'[q].at <= db
    BY <2>3 DEF TypeInv, TypeOK, PageType
  <2> QED
    BY <1>1, <1>2, <2>1, <2>2, <2>4, <2>5, <2>6
    DEF TypeInv, TypeOK, FaultsTyped, writerVars
<1>5. CASE Query(r)
  <2>1. UNCHANGED <<cache, filter, rver, need>>
    BY <1>5 DEF Query
  <2>2. PageOf(filter[r]) \in PageType /\ PageOf(filter[r]).at = db
    BY PageOfType DEF TypeInv, TypeOK
  <2>3. /\ rpc' \in [Readers -> {"idle", "lookup", "query", "fill", "done"}]
        /\ page' \in [Readers -> PageType \cup {NoPage}]
        /\ \A q \in Readers : rpc'[q] \in {"fill", "done"} => page'[q] \in PageType
    BY <1>5, <2>2 DEF Query, TypeInv, TypeOK
  <2>4. \A q \in Readers : page'[q].at \in Int /\ page'[q].at <= db
    BY <1>5, <2>2 DEF Query, TypeInv, TypeOK
  <2> QED
    BY <1>1, <1>2, <2>1, <2>3, <2>4 DEF TypeInv, TypeOK, FaultsTyped, writerVars
<1>6. CASE Fill(r)
  <2>1. UNCHANGED <<page, filter, rver, need>>
    BY <1>6 DEF Fill
  <2>2. /\ rpc' \in [Readers -> {"idle", "lookup", "query", "fill", "done"}]
        /\ \A q \in Readers : rpc'[q] \in {"fill", "done"} => page'[q] \in PageType
    BY <1>6 DEF Fill, TypeInv, TypeOK
  <2>3. page[r] \in PageType /\ page[r].at <= db
    BY <1>6 DEF Fill, TypeInv, TypeOK
  <2>4. /\ \A e \in cache' : e.page \in PageType /\ e.page.at <= db
        /\ \A e1, e2 \in cache' : e1.key = e2.key => e1 = e2
    BY <1>6, <2>3 DEF Fill, CacheWith, TypeInv, TypeOK
  <2> QED
    BY <1>1, <1>2, <2>1, <2>2, <2>4 DEF TypeInv, TypeOK, FaultsTyped, writerVars
<1> QED
  BY <1>3, <1>4, <1>5, <1>6
  DEF ReaderStep, ReaderGoesOn, ReadVersion, ReadVersionFails, Miss, GetFails,
      TypeInv, TypeOK

LEMMA NextTypeInv == TypeInv /\ [Next]_vars => TypeInv'
  BY OthersTypeInv, ReaderTypeInv DEF Next

(* Type correctness: one page per key, none from the future.               *)
THEOREM TypeCorrect == Spec => []TypeOK
<1>1. Spec => []TypeInv
  BY InitTypeInv, NextTypeInv, PTL DEF Spec
<1>2. TypeInv => TypeOK
  BY DEF TypeInv
<1> QED
  BY <1>1, <1>2, PTL
-----------------------------------------------------------------------------
(* Why the feed is fresh.  As long as Redis keeps its data, a page that    *)
(* can still be read, or is still to be stored, under some version is at   *)
(* least as new as what any reader of that version needs, and under the    *)
(* current version as new as every acknowledged write whose INCR took      *)
(* effect: the acknowledgement comes after the INCR, the INCR after the    *)
(* commit, and a page is queried after its version was read.  A reader     *)
(* that fell back to version 0 fills pages under an old version, newer     *)
(* than anybody who reads that version needs.                              *)
Floor == /\ \A e \in cache : e.key[1] \in 0..ver
         /\ \A r \in Readers : rver[r] \in 0..ver

CurrentFloor ==
  /\ \A e \in cache : e.key[1] = ver => e.page.at >= acked
  /\ \A r \in Readers : rpc[r] = "fill" /\ rver[r] = ver => page[r].at >= acked

ReadersFloor ==
  /\ \A e \in cache, r \in Readers :
       rpc[r] = "lookup" /\ e.key[1] = rver[r] => e.page.at >= need[r]
  /\ \A q, r \in Readers :
       rpc[q] = "fill" /\ rpc[r] = "lookup" /\ rver[q] = rver[r] =>
         page[q].at >= need[r]
  /\ \A r \in Readers : rpc[r] \in {"fill", "done"} => page[r].at >= need[r]

FreshInv == Floor /\ CurrentFloor /\ ReadersFloor

LEMMA InitFreshInv == Init => FreshInv
  BY DEF Init, FreshInv, Floor, CurrentFloor, ReadersFloor

(* An acknowledged write leaves no page under the version it created.      *)
LEMMA InvalidateFresh ==
  ASSUME TypeInv, FreshInv, NEW w \in Writers, Raise(w)
  PROVE  FreshInv'
<1>1. UNCHANGED <<cache, rpc, rver, page, need>> /\ ver \in Nat
  BY DEF Raise, Answer, readerVars, TypeInv, TypeOK
<1>2. Floor'
  BY <1>1 DEF Raise, FreshInv, Floor
<1>3. CurrentFloor'
  BY <1>1 DEF Raise, FreshInv, Floor, CurrentFloor
<1>4. ReadersFloor'
  BY <1>1 DEF FreshInv, ReadersFloor
<1> QED
  BY <1>2, <1>3, <1>4 DEF FreshInv

(* Pages only go, or nothing a page is compared with changes.              *)
LEMMA QuietFresh ==
  ASSUME FreshInv, cache' \subseteq cache,
         UNCHANGED <<ver, acked, rpc, rver, page, need>>
  PROVE  FreshInv'
  BY DEF FreshInv, Floor, CurrentFloor, ReadersFloor

LEMMA ReadVersionFresh ==
  ASSUME TypeInv, FreshInv, NEW r \in Readers, NEW v \in 0..ver, ReadVersionAs(r, v)
  PROVE  FreshInv'
<1>1. /\ \A q \in Readers \ {r} : /\ rpc'[q] = rpc[q] /\ rver'[q] = rver[q]
                                 /\ page'[q] = page[q] /\ need'[q] = need[q]
      /\ rpc'[r] = "lookup" /\ rver'[r] = v
      /\ need'[r] = IF v = ver THEN acked ELSE 0
      /\ UNCHANGED <<cache, ver, acked>> /\ ver \in Nat
  BY DEF ReadVersionAs, TypeInv, TypeOK, writerVars
<1>2. Floor'
  BY <1>1 DEF FreshInv, Floor
<1>3. CurrentFloor'
  BY <1>1 DEF FreshInv, CurrentFloor
<1>4. /\ \A e \in cache : e.page.at \in Nat
      /\ \A q \in Readers : rpc[q] = "fill" => page[q].at \in Nat
  BY DEF TypeInv, TypeOK, PageType
<1>5. ReadersFloor'
  <2>1. \A e \in cache : e.key[1] = v => e.page.at >= need'[r]
    BY <1>1, <1>4 DEF FreshInv, CurrentFloor
  <2>2. \A q \in Readers : rpc[q] = "fill" /\ rver[q] = v => page[q].at >= need'[r]
    BY <1>1, <1>4 DEF FreshInv, CurrentFloor
  <2> QED
    BY <1>1, <2>1, <2>2 DEF FreshInv, ReadersFloor
<1> QED
  BY <1>2, <1>3, <1>5 DEF FreshInv

LEMMA LookupFresh ==
  ASSUME TypeInv, FreshInv, NEW r \in Readers,
         Hit(r) \/ ToQuery(r) \/ QueryFails(r) \/ FillFails(r)
  PROVE  FreshInv'
<1>1. UNCHANGED <<cache, ver, acked, rver, need>>
  BY DEF Hit, ToQuery, QueryFails, FillFails, writerVars
<1>2. \A q \in Readers \ {r} : rpc'[q] = rpc[q] /\ page'[q] = page[q]
  BY DEF Hit, ToQuery, QueryFails, FillFails, TypeInv, TypeOK
<1>3. \/ rpc'[r] \in {"query", "idle"}
      \/ rpc'[r] = "done" /\ page'[r].at >= need[r]
  <2>1. CASE Hit(r)
    <3>1. PICK e \in cache : e.key = Key(r) /\ page' = [page EXCEPT ![r] = e.page]
      BY <2>1 DEF Hit
    <3>2. e.key[1] = rver[r]
      BY <3>1 DEF Key, CacheKey
    <3>3. page'[r] = e.page /\ rpc[r] = "lookup" /\ rpc'[r] = "done"
      BY <2>1, <3>1 DEF Hit, TypeInv, TypeOK
    <3> QED
      BY <3>2, <3>3 DEF FreshInv, ReadersFloor
  <2>2. CASE FillFails(r)
    BY <2>2 DEF FillFails, TypeInv, TypeOK, FreshInv, ReadersFloor
  <2>3. CASE ToQuery(r) \/ QueryFails(r)
    BY <2>3 DEF ToQuery, QueryFails, TypeInv, TypeOK
  <2> QED
    BY <2>1, <2>2, <2>3
<1>4. Floor'
  BY <1>1 DEF FreshInv, Floor
<1>5. CurrentFloor'
  BY <1>1, <1>2, <1>3 DEF FreshInv, CurrentFloor
<1>6. ReadersFloor'
  BY <1>1, <1>2, <1>3 DEF FreshInv, ReadersFloor
<1> QED
  BY <1>4, <1>5, <1>6 DEF FreshInv

LEMMA QueryFresh ==
  ASSUME TypeInv, FreshInv, NEW r \in Readers, Query(r)
  PROVE  FreshInv'
<1>1. UNCHANGED <<cache, ver, acked, rver, need>>
  BY DEF Query, writerVars
<1>2. /\ \A q \in Readers \ {r} : rpc'[q] = rpc[q] /\ page'[q] = page[q]
      /\ rpc'[r] = "fill" /\ page'[r].at = db
  BY DEF Query, PageOf, TypeInv, TypeOK
<1>3. db \in Nat /\ acked \in 0..db /\ \A q \in Readers : need[q] \in 0..db
  BY DEF TypeInv, TypeOK
<1>4. Floor'
  BY <1>1 DEF FreshInv, Floor
<1>5. CurrentFloor'
  BY <1>1, <1>2, <1>3 DEF FreshInv, CurrentFloor
<1>6. ReadersFloor'
  BY <1>1, <1>2, <1>3 DEF FreshInv, ReadersFloor
<1> QED
  BY <1>4, <1>5, <1>6 DEF FreshInv

LEMMA FillFresh ==
  ASSUME TypeInv, FreshInv, NEW r \in Readers, Fill(r)
  PROVE  FreshInv'
<1>1. UNCHANGED <<ver, acked, rver, need, page>>
  BY DEF Fill, writerVars
<1>2. /\ \A q \in Readers \ {r} : rpc'[q] = rpc[q]
      /\ rpc[r] = "fill" /\ rpc'[r] = "done"
  BY DEF Fill, TypeInv, TypeOK
<1>3. \A e \in cache' :
        e \in cache \/ (e.key[1] = rver[r] /\ e.page = page[r])
  BY DEF Fill, CacheWith, FillKey, Key, CacheKey
<1>4. Floor'
  BY <1>1, <1>3 DEF FreshInv, Floor
<1>5. CurrentFloor'
  BY <1>1, <1>2, <1>3 DEF FreshInv, CurrentFloor
<1>6. ReadersFloor'
  BY <1>1, <1>2, <1>3 DEF FreshInv, ReadersFloor
<1> QED
  BY <1>4, <1>5, <1>6 DEF FreshInv

LEMMA NextFreshInv ==
  TypeInv /\ (~flushed => FreshInv) /\ [Next]_vars => (~flushed => FreshInv)'
<1> SUFFICES ASSUME TypeInv, ~flushed => FreshInv, [Next]_vars, ~flushed'
             PROVE  FreshInv'
  OBVIOUS
<1>1. CASE \E r \in Readers : ReaderStep(r)
  <2>1. PICK r \in Readers : ReaderStep(r)
    BY <1>1
  <2>2. FreshInv
    BY <2>1 DEF ReaderStep, ReaderGoesOn, ReadVersion, ReadVersionFails, Hit, Miss,
       GetFails, Query, QueryFails, Fill, FillFails, faultVars
  <2>3. CASE ReadVersion(r) \/ ReadVersionFails(r)
    <3>1. ver \in 0..ver /\ 0 \in 0..ver
      BY DEF TypeInv, TypeOK
    <3> QED
      BY <2>2, <2>3, <3>1, ReadVersionFresh DEF ReadVersion, ReadVersionFails
  <2>4. CASE Hit(r) \/ Miss(r) \/ GetFails(r) \/ QueryFails(r) \/ FillFails(r)
    BY <2>2, <2>4, LookupFresh DEF Miss, GetFails
  <2>5. CASE Query(r) \/ Fill(r)
    BY <2>2, <2>5, QueryFresh, FillFresh
  <2> QED
    BY <2>1, <2>3, <2>4, <2>5 DEF ReaderStep, ReaderGoesOn
<1>2. CASE \E w \in Writers : Raise(w)
  <2>1. PICK w \in Writers : Raise(w)
    BY <1>2
  <2>2. ~flushed
    BY <2>1 DEF Raise, Answer
  <2> QED
    BY <2>1, <2>2, InvalidateFresh
<1>3. ASSUME cache' \subseteq cache, UNCHANGED <<ver, acked, rpc, rver, page, need, flushed>>
      PROVE  FreshInv'
  BY <1>3, QuietFresh
<1>4. CASE \E w \in Writers : WriterStep(w)
  <2>1. PICK w \in Writers : WriterStep(w)
    BY <1>4
  <2>2. CASE Raise(w)
    BY <1>2, <2>2
  <2>3. CASE CommitWrite(w) \/ Abandon(w)
    BY <1>3, <2>3 DEF CommitWrite, Abandon, readerVars, faultVars
  <2>4. CASE Answer(w) /\ UNCHANGED <<ver, acked>>
    BY <1>3, <2>4 DEF Answer, readerVars
  <2> QED
    BY <2>1, <2>2, <2>3, <2>4 DEF WriterStep, Invalidate, InvalidateFails
<1>5. CASE (\E k \in Keys : Expire(k)) \/ BoostChange \/ UNCHANGED vars
  BY <1>3, <1>5 DEF Expire, BoostChange, vars, writerVars, readerVars, faultVars
<1>6. ~Flush
  BY DEF Flush
<1> QED
  BY <1>1, <1>4, <1>5, <1>6 DEF Next

(* Read your writes: a feed request that starts after a listing write was  *)
(* acknowledged shows it, for any number of concurrent requests and any    *)
(* failed calls to Redis but a restart without its data.                   *)
THEOREM ReadYourWrites == Spec => []Freshness
<1>1. Spec => []TypeInv
  BY InitTypeInv, NextTypeInv, PTL DEF Spec
<1>2. Init => (~flushed => FreshInv)
  BY InitFreshInv
<1>3. (~flushed => FreshInv) => Freshness
  BY DEF FreshInv, ReadersFloor, Freshness
<1> QED
  BY <1>1, <1>2, <1>3, NextFreshInv, PTL DEF Spec

-----------------------------------------------------------------------------
(* Pages and the filters they were asked with.                             *)

(* Two filters with one key select the same rows.                          *)
KeysTell == \A f, g \in Filters : FilterKey(f) = FilterKey(g) => Selection(f) = Selection(g)

(* A page is cached under, and held for, a filter that selects its rows.   *)
PagesFit ==
  /\ \A e \in cache : \E f \in Filters : /\ \E v : e.key = CacheKey(v, f)
                                        /\ e.page.selection = Selection(f)
  /\ \A r \in Readers :
       rpc[r] \in {"fill", "done"} => page[r].selection = Selection(filter[r])

(* Rounding to two decimals loses nothing of a price in whole cents.       *)
LEMMA CentsTell ==
  ASSUME NEW p \in Price, NEW q \in Price, p = NoPrice \/ p % 10 = 0,
         q = NoPrice \/ q % 10 = 0, FmtPrice(p) = FmtPrice(q)
  PROVE  p = q
<1>1. ASSUME NEW m \in Nat, NEW n \in Nat, m % 10 = 0, n % 10 = 0,
             (m + 5) \div 10 = (n + 5) \div 10
      PROVE  m = n
  BY <1>1
<1>2. ASSUME NEW m \in Nat, m % 10 = 0
      PROVE  FmtPrice(m) = (m + 5) \div 10 /\ (m + 5) \div 10 # NoPrice
  BY <1>2 DEF FmtPrice, NoPrice
<1>3. \A m \in Nat : m # NoPrice
  BY DEF NoPrice
<1>4. CASE p \in Nat /\ q \in Nat
  BY <1>1, <1>2, <1>3, <1>4
<1>5. CASE p = NoPrice \/ q = NoPrice
  BY <1>2, <1>3, <1>5 DEF FmtPrice, Price
<1> QED
  BY <1>4, <1>5 DEF Price

(* A category of one piece is the key's first piece, four numbers follow,  *)
(* and the rest is the query.                                              *)
LEMMA KeyParts ==
  ASSUME NEW f \in Filters, Len(f.category) = 1
  PROVE  /\ Len(FilterKey(f)) = 5 + Len(f.query)
         /\ FilterKey(f)[1] = f.category[1]
         /\ \A i \in 1..4 : FilterKey(f)[i + 1] = Numbers(f)[i]
         /\ \A i \in 1..Len(f.query) : FilterKey(f)[i + 5] = f.query[i]
<1> DEFINE Any == Piece \cup {Numbers(f)[i] : i \in 1..4}
<1>1. /\ f.category \in Seq(Any) /\ f.query \in Seq(Any)
  BY FiltersAssumption, SeqMonotonic DEF Filter, Text
<1>2. Numbers(f) \in Seq(Any) /\ Len(Numbers(f)) = 4
  BY DEF Numbers
<1> HIDE DEF Any
<1> DEFINE head == f.category \o Numbers(f)
<1>3. /\ head \in Seq(Any) /\ Len(head) = 5
      /\ \A i \in 1..5 : head[i] = IF i <= 1 THEN f.category[i] ELSE Numbers(f)[i - 1]
  <2>1. /\ head \in Seq(Any) /\ Len(head) = Len(f.category) + Len(Numbers(f))
        /\ \A i \in 1..Len(f.category) + Len(Numbers(f)) :
             head[i] = IF i <= Len(f.category) THEN f.category[i]
                       ELSE Numbers(f)[i - Len(f.category)]
    BY <1>1, <1>2, ConcatProperties, Zenon
  <2> HIDE DEF head
  <2> QED
    BY <1>2, <2>1
<1>4. FilterKey(f) = head \o f.query
  BY DEF FilterKey
<1>5. Len(f.query) \in Nat
  BY <1>1, LenProperties
<1> HIDE DEF head
<1>6. /\ Len(FilterKey(f)) = 5 + Len(f.query)
      /\ \A i \in 1..(5 + Len(f.query)) :
           FilterKey(f)[i] = IF i <= 5 THEN head[i] ELSE f.query[i - 5]
  <2>1. /\ Len(head \o f.query) = Len(head) + Len(f.query)
        /\ \A i \in 1..Len(head) + Len(f.query) :
             (head \o f.query)[i] = IF i <= Len(head) THEN head[i]
                                   ELSE f.query[i - Len(head)]
    BY <1>1, <1>3, ConcatProperties, Zenon
  <2> QED
    BY <1>3, <1>4, <2>1
<1>7. FilterKey(f)[1] = f.category[1]
  BY <1>3, <1>5, <1>6
<1>8. ASSUME NEW i \in 1..4
      PROVE  FilterKey(f)[i + 1] = Numbers(f)[i]
  BY <1>3, <1>5, <1>6
<1>9. ASSUME NEW i \in 1..Len(f.query)
      PROVE  FilterKey(f)[i + 5] = f.query[i]
  BY <1>5, <1>6
<1> QED
  BY <1>6, <1>7, <1>8, <1>9

(* So keys tell filters apart whose prices are whole cents and whose       *)
(* categories contain no separator.                                        *)
LEMMA FieldsTell ==
  ASSUME \A f \in Filters : Len(f.category) = 1,
         \A f \in Filters : \A p \in {f.minPrice, f.maxPrice} : p = NoPrice \/ p % 10 = 0
  PROVE  KeysTell
<1> SUFFICES ASSUME NEW f \in Filters, NEW g \in Filters, FilterKey(f) = FilterKey(g)
             PROVE  f = g
  BY DEF KeysTell
<1>1. /\ f \in [category : Text, minPrice : Price, maxPrice : Price,
                limit : Nat, offset : Nat, query : Text]
      /\ g \in [category : Text, minPrice : Price, maxPrice : Price,
                limit : Nat, offset : Nat, query : Text]
  BY FiltersAssumption DEF Filter
<1>2. f.category = g.category
  <2>1. f.category \in Seq(Piece) /\ g.category \in Seq(Piece)
    BY <1>1 DEF Text
  <2>2. \A i \in 1..1 : f.category[i] = g.category[i]
    BY KeyParts
  <2>3. Len(f.category) = 1 /\ Len(g.category) = 1
    OBVIOUS
  <2> QED
    BY <2>1, <2>2, <2>3, SeqEqual
<1>3. f.query = g.query
  <2>1. f.query \in Seq(Piece) /\ g.query \in Seq(Piece)
    BY <1>1 DEF Text
  <2>2. Len(f.query) \in Nat /\ Len(g.query) \in Nat
    BY <2>1, LenProperties
  <2>3. 5 + Len(f.query) = 5 + Len(g.query)
    BY KeyParts
  <2>4. Len(f.query) = Len(g.query)
    BY <2>2, <2>3
  <2>5. \A i \in 1..Len(f.query) : f.query[i] = g.query[i]
    BY <2>4, KeyParts
  <2> QED
    BY <2>1, <2>4, <2>5, SeqEqual
<1>4. /\ FmtPrice(f.minPrice) = FmtPrice(g.minPrice)
      /\ FmtPrice(f.maxPrice) = FmtPrice(g.maxPrice)
      /\ f.limit = g.limit /\ f.offset = g.offset
  <2>1. \A i \in 1..4 : Numbers(f)[i] = Numbers(g)[i]
    BY KeyParts
  <2> QED
    BY <2>1 DEF Numbers
<1>5. f.minPrice = g.minPrice /\ f.maxPrice = g.maxPrice
  BY <1>1, <1>4, CentsTell
<1> QED
  BY <1>1, <1>2, <1>3, <1>4, <1>5

LEMMA NextPagesFit ==
  ASSUME TypeInv, KeysTell, PagesFit, [Next]_vars
  PROVE  PagesFit'
<1>1. ASSUME cache' \subseteq cache, UNCHANGED readerVars
      PROVE  PagesFit'
  BY <1>1 DEF PagesFit, readerVars
<1>2. CASE \/ \E w \in Writers : WriterStep(w)
           \/ \E k \in Keys : Expire(k)
           \/ BoostChange \/ Flush \/ UNCHANGED vars
  BY <1>1, <1>2 DEF WriterStep, CommitWrite, Invalidate, InvalidateFails, Raise, Answer, Abandon,
     Expire, BoostChange, Flush, vars
<1>3. ASSUME NEW r \in Readers, ReaderStep(r)
      PROVE  PagesFit'
  <2> DEFINE Cached == \A e \in cache' : \E f \in Filters :
                         (\E v : e.key = CacheKey(v, f)) /\ e.page.selection = Selection(f)
             Held(q) == rpc'[q] \in {"fill", "done"} =>
                          page'[q].selection = Selection(filter'[q])
  <2>1. ASSUME NEW q \in Readers, q # r PROVE Held(q)
    <3>1. rpc'[q] = rpc[q] /\ page'[q] = page[q] /\ filter'[q] = filter[q]
      BY <1>3, <2>1 DEF TypeInv, TypeOK, ReaderStep, ReadVersion, ReadVersionFails,
         ReadVersionAs, ReaderGoesOn, Hit, Miss, ToQuery, GetFails, Query, QueryFails,
         Fill, FillFails
    <3> QED
      BY <3>1 DEF PagesFit
  <2>2. Cached /\ Held(r)
    <3>1. CASE Hit(r)
      <4>1. PICK e \in cache : e.key = Key(r) /\ page' = [page EXCEPT ![r] = e.page]
        BY <3>1 DEF Hit
      <4>2. filter[r] \in Filters /\ page'[r] = e.page /\ cache' = cache /\ filter' = filter
        BY <3>1, <4>1 DEF Hit, TypeInv, TypeOK
      <4>3. PICK f \in Filters : /\ \E v : e.key = CacheKey(v, f)
                                 /\ e.page.selection = Selection(f)
        BY DEF PagesFit
      <4>4. FilterKey(f) = FilterKey(filter[r])
        BY <4>1, <4>3 DEF Key, CacheKey
      <4> QED
        BY <4>2, <4>3, <4>4 DEF KeysTell, PagesFit
    <3>2. CASE Query(r)
      BY <3>2 DEF Query, PageOf, PagesFit, TypeInv, TypeOK
    <3>3. CASE Fill(r)
      <4>1. /\ cache' = {e \in cache : e.key # Key(r)} \cup {[key |-> Key(r), page |-> page[r]]}
            /\ UNCHANGED <<page, filter>> /\ filter[r] \in Filters
            /\ page[r].selection = Selection(filter[r])
        BY <3>3 DEF Fill, CacheWith, FillKey, PagesFit, TypeInv, TypeOK
      <4>2. ASSUME NEW e \in cache'
            PROVE  \E f \in Filters :
                     (\E v : e.key = CacheKey(v, f)) /\ e.page.selection = Selection(f)
        <5>1. CASE e \in cache
          BY <5>1 DEF PagesFit
        <5>2. CASE e = [key |-> Key(r), page |-> page[r]]
          BY <4>1, <5>2 DEF Key
        <5> QED
          BY <4>1, <5>1, <5>2
      <4> QED
        BY <4>1, <4>2
    <3>4. CASE FillFails(r)
      BY <3>4 DEF FillFails, PagesFit
    <3>5. CASE ReadVersion(r) \/ ReadVersionFails(r) \/ Miss(r) \/ GetFails(r) \/ QueryFails(r)
      <4>1. cache' = cache /\ rpc'[r] \notin {"fill", "done"}
        BY <3>5 DEF ReadVersion, ReadVersionFails, ReadVersionAs, Miss, GetFails, ToQuery,
           QueryFails, TypeInv, TypeOK
      <4> QED
        BY <4>1 DEF PagesFit
    <3> QED
      BY <1>3, <3>1, <3>2, <3>3, <3>4, <3>5 DEF ReaderStep, ReaderGoesOn
  <2> QED
    BY <2>1, <2>2 DEF PagesFit
<1> QED
  BY <1>2, <1>3 DEF Next

(* Results of different requests never mix (the comment on List's key), as *)
(* long as clients give prices with at most two decimals and categories    *)
(* without ":"; what they search for is free.  The code asks neither of    *)
(* them, and without either there are filters that share a key (run        *)
(* cache_mixup and theorem ColonsCollide).                                 *)
THEOREM KeysDoNotCollide ==
  ASSUME \A f \in Filters : Len(f.category) = 1,
         \A f \in Filters : \A p \in {f.minPrice, f.maxPrice} : p = NoPrice \/ p % 10 = 0
  PROVE  Spec => []NoMixUp
<1>1. KeysTell
  BY FieldsTell
<1>2. Spec => []TypeInv
  BY InitTypeInv, NextTypeInv, PTL DEF Spec
<1>3. Init => PagesFit
  BY DEF Init, PagesFit
<1>4. TypeInv /\ PagesFit /\ [Next]_vars => PagesFit'
  BY <1>1, NextPagesFit
<1>5. PagesFit => NoMixUp
  BY DEF PagesFit, NoMixUp
<1> QED
  BY <1>2, <1>3, <1>4, <1>5, PTL DEF Spec

-----------------------------------------------------------------------------
(* The separator that no field escapes.                                    *)

(* The same text as the end of the search string and as the end of the     *)
(* category: category=a, q=x:-:-:20:0:y and category=a:-:-:20:0:x, q=y.    *)
InQuery(f, x, y) == [f EXCEPT !.query = x \o (Numbers(f) \o y)]
InCategory(f, x, y) ==
  [f EXCEPT !.category = (f.category \o Numbers(f)) \o x, !.query = y]

(* Whatever the prices and the page: two requests whose category and q     *)
(* contain ":" in the right places have one key and different selections,  *)
(* although the comment on List's key says that results cannot mix.        *)
THEOREM ColonsCollide ==
  ASSUME NEW f \in Filter, NEW x \in Text, NEW y \in Text
  PROVE  /\ InQuery(f, x, y) \in Filter /\ InCategory(f, x, y) \in Filter
         /\ FilterKey(InQuery(f, x, y)) = FilterKey(InCategory(f, x, y))
         /\ Selection(InQuery(f, x, y)) # Selection(InCategory(f, x, y))
<1> DEFINE a == f.category
           n == Numbers(f)
<1>1. a \in Seq(Piece) /\ x \in Seq(Piece) /\ y \in Seq(Piece)
  BY DEF Filter, Text
<1>2. ASSUME NEW p \in Price PROVE FmtPrice(p) \in Price
  BY <1>2 DEF FmtPrice, Price, NoPrice
<1>3. n \in Seq(Piece) /\ Len(n) = 4
  <2>1. /\ <<"price", FmtPrice(f.minPrice)>> \in Piece
        /\ <<"price", FmtPrice(f.maxPrice)>> \in Piece
        /\ <<"number", f.limit>> \in Piece /\ <<"number", f.offset>> \in Piece
    BY <1>2 DEF Filter, Piece
  <2> QED
    BY <2>1 DEF Numbers
<1>4. /\ Numbers(InQuery(f, x, y)) = n /\ Numbers(InCategory(f, x, y)) = n
      /\ InQuery(f, x, y).category = a /\ InCategory(f, x, y).query = y
      /\ InQuery(f, x, y).query = x \o (n \o y)
      /\ InCategory(f, x, y).category = (a \o n) \o x
  BY DEF InQuery, InCategory, Filter, Numbers
<1> HIDE DEF a, n
<1>5. FilterKey(InQuery(f, x, y)) = FilterKey(InCategory(f, x, y))
  <2>1. a \o n \in Seq(Piece) /\ n \o y \in Seq(Piece) /\ (a \o n) \o x \in Seq(Piece)
    BY <1>1, <1>3, ConcatProperties
  <2>2. ASSUME NEW p \in Seq(Piece), NEW q \in Seq(Piece)
        PROVE  (p \o x) \o q = p \o (x \o q)
    BY <1>1, SMT
  <2>3. ASSUME NEW p \in Seq(Piece)
        PROVE  (p \o n) \o y = p \o (n \o y)
    BY <1>1, <1>3, SMT
  <2>4. ((a \o n) \o x) \o (n \o y) = (a \o n) \o (x \o (n \o y))
    BY <2>1, <2>2
  <2>5. (((a \o n) \o x) \o n) \o y = ((a \o n) \o x) \o (n \o y)
    BY <2>1, <2>3
  <2> QED
    BY <1>4, <2>4, <2>5 DEF FilterKey
<1>6. /\ (a \o n) \o x \in Seq(Piece) /\ x \o (n \o y) \in Seq(Piece)
      /\ Len((a \o n) \o x) = Len(a) + 4 + Len(x)
      /\ Len(x \o (n \o y)) = Len(x) + 4 + Len(y)
      /\ Len(a) \in Nat /\ Len(x) \in Nat /\ Len(y) \in Nat
  <2>1. /\ a \o n \in Seq(Piece) /\ n \o y \in Seq(Piece)
        /\ Len(a \o n) = Len(a) + Len(n) /\ Len(n \o y) = Len(n) + Len(y)
    BY <1>1, <1>3, ConcatProperties, Zenon
  <2>2. /\ (a \o n) \o x \in Seq(Piece) /\ x \o (n \o y) \in Seq(Piece)
        /\ Len((a \o n) \o x) = Len(a \o n) + Len(x)
        /\ Len(x \o (n \o y)) = Len(x) + Len(n \o y)
    BY <1>1, <2>1, ConcatProperties
  <2>3. Len(a) \in Nat /\ Len(x) \in Nat /\ Len(y) \in Nat
    BY <1>1, LenProperties
  <2> QED
    BY <1>3, <2>1, <2>2, <2>3
<1>7. /\ (a \o n) \o x \in Text /\ x \o (n \o y) \in Text
      /\ (a \o n) \o x # a
  <2>1. Len(<<>>) = 0
    OBVIOUS
  <2> QED
    BY <1>6, <2>1 DEF Text
<1>8. InQuery(f, x, y) \in Filter /\ InCategory(f, x, y) \in Filter
  BY <1>4, <1>7 DEF InQuery, InCategory, Filter, a, n
<1>9. /\ Selection(InQuery(f, x, y)).category = a
      /\ Selection(InCategory(f, x, y)).category = (a \o n) \o x
  BY <1>4, <1>8 DEF Selection, Filter
<1> QED
  BY <1>5, <1>7, <1>8, <1>9
=============================================================================
