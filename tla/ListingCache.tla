---------------------------- MODULE ListingCache ----------------------------
(***************************************************************************)
(* The versioned cache-aside of the listing feed (internal/listing).       *)
(*                                                                         *)
(* Writers are requests that create, update or delete a listing: they      *)
(* commit in Postgres, then raise the cache version in Redis, then answer. *)
(* Readers are requests for the feed: they read the version, look their    *)
(* key up, and on a miss query Postgres and store the page under the       *)
(* version they read first.  The table is represented by the number of     *)
(* listing writes committed (db) and of changes to the boosts shown in the *)
(* feed (boosts); a page by the rows it selects and both numbers at the    *)
(* moment of its query.  Redis is best effort: any call may fail.          *)
(***************************************************************************)
EXTENDS Integers, Sequences

CONSTANTS Filters,    \* requests for a page of the feed
          Readers,    \* feed requests in flight
          Writers,    \* listing writes in flight
          MaxWrites,  \* bound on committed listing writes
          MaxBoosts,  \* bound on boosts committed or expired
          MaxFaults,  \* bound on failed Redis calls and Redis restarts
          RoundsUp    \* prices at half a cent that FormatFloat rounds up

NoPrice == -1

(* Prices of filters are in thousandths: a query string may have more      *)
(* digits than the NUMERIC(10,2) column.                                   *)
Price == Nat \cup {NoPrice}

(* A text of a client is the sequence of its pieces between the separators *)
(* ":" of keys.  A piece is what the key makes of a number or of a price,  *)
(* which a client may well type himself, or a word: any other text.        *)
Piece == ({"word"} \X STRING) \cup ({"number"} \X Nat) \cup ({"price"} \X Price)
Text == Seq(Piece) \ {<<>>}

Filter == [category : Text, minPrice : Price, maxPrice : Price,
           limit : Nat, offset : Nat, query : Text]

ASSUME FiltersAssumption == Filters \subseteq Filter

ASSUME BoundsAssumption ==
  MaxWrites \in Nat /\ MaxBoosts \in Nat /\ MaxFaults \in Nat

ASSUME RoundsUpAssumption == RoundsUp \subseteq Nat

VARIABLES
  db,        \* listing writes committed so far
  boosts,    \* boosts committed or expired so far
  ver,       \* listings:ver in Redis; 0 when the key is absent
  cache,     \* cached pages: [key, page]
  wpc,       \* where each writer stands
  wn,        \* the number of each writer's own commit
  rpc,       \* where each reader stands
  filter,    \* the filter of each reader's request
  rver,      \* the version the reader read
  page,      \* the page the reader holds
  acked,     \* history: the latest commit a client was told of whose INCR took
             \* effect
  need,      \* history: acked when the reader read the version, 0 if it fell
             \* back to version 0
  flushed,   \* history: Redis came back without its data
  faults     \* faults so far

writerVars == <<wpc, wn, acked>>
readerVars == <<rpc, filter, rver, page, need>>
faultVars == <<flushed, faults>>
vars == <<db, boosts, ver, cache, writerVars, readerVars, faultVars>>

-----------------------------------------------------------------------------
(* Keys and pages.                                                         *)

(* fmtPrice: two decimals of the float64, which lies above or below a      *)
(* decimal half.                                                           *)
FmtPrice(p) == IF p = NoPrice THEN NoPrice
               ELSE IF p % 10 = 5 /\ p \notin RoundsUp THEN p \div 10
               ELSE (p + 5) \div 10

(* The key's fields between category and query.                            *)
Numbers(f) == <<<<"price", FmtPrice(f.minPrice)>>, <<"price", FmtPrice(f.maxPrice)>>,
                <<"number", f.limit>>, <<"number", f.offset>>>>

(* Wrong variant: the key without the search string.                       *)
KeyWithoutQuery(f) == f.category \o Numbers(f)

(* The key's part that depends on the filter: Sprintf joins the fields by  *)
(* ":" and escapes nothing, so the boundaries of the fields are lost.      *)
FilterKey(f) == f.category \o Numbers(f) \o f.query

CacheKey(v, f) == <<v, FilterKey(f)>>

(* What the WHERE clause makes of the filter: stored prices are whole      *)
(* cents, so price >= p means price >= p rounded up, and price <= p means  *)
(* price <= p rounded down.                                                *)
Selection(f) ==
  [f EXCEPT !.minPrice = IF @ = NoPrice THEN NoPrice ELSE (@ + 9) \div 10,
            !.maxPrice = IF @ = NoPrice THEN NoPrice ELSE @ \div 10]

(* repo.List at this moment.                                               *)
PageOf(f) == [selection |-> Selection(f), at |-> db, boosts |-> boosts]

NoPage == [at |-> -1]

Init ==
  /\ db = 0 /\ boosts = 0 /\ ver = 0 /\ cache = {}
  /\ wpc = [w \in Writers |-> "idle"]
  /\ wn = [w \in Writers |-> 0]
  /\ rpc = [r \in Readers |-> "idle"]
  /\ filter \in [Readers -> Filters]
  /\ rver = [r \in Readers |-> 0]
  /\ page = [r \in Readers |-> NoPage]
  /\ acked = 0
  /\ need = [r \in Readers |-> 0]
  /\ flushed = FALSE
  /\ faults = 0

Disturb == faults < MaxFaults /\ faults' = faults + 1

-----------------------------------------------------------------------------
(* Service.Create, Update and Delete; boosts.                              *)

(* repo.Create, repo.Update or repo.Delete commits.                        *)
CommitWrite(w) ==
  /\ wpc[w] = "idle" /\ db < MaxWrites
  /\ db' = db + 1
  /\ wn' = [wn EXCEPT ![w] = db + 1]
  /\ wpc' = [wpc EXCEPT ![w] = "committed"]
  /\ UNCHANGED <<boosts, ver, cache, acked, readerVars, faultVars>>

(* The handler answers the client.                                         *)
Answer(w) ==
  /\ wpc[w] = "committed"
  /\ wpc' = [wpc EXCEPT ![w] = "idle"]
  /\ UNCHANGED <<db, boosts, wn, cache, readerVars, flushed>>

(* INCR, and the answer.                                                   *)
Raise(w) ==
  /\ Answer(w)
  /\ ver' = ver + 1
  /\ acked' = IF wn[w] > acked THEN wn[w] ELSE acked

(* cache.Invalidate, and the answer.                                       *)
Invalidate(w) == Raise(w) /\ UNCHANGED faults

(* INCR fails and is only logged: the version may or may not have risen.   *)
InvalidateFails(w) ==
  /\ Disturb
  /\ Raise(w) \/ (Answer(w) /\ UNCHANGED <<ver, acked>>)

(* The client disconnects, which cancels the context INCR runs on, or the  *)
(* instance dies: the write stays, nobody was told of it.                  *)
Abandon(w) ==
  /\ wpc[w] = "committed"
  /\ wpc' = [wpc EXCEPT ![w] = "idle"]
  /\ UNCHANGED <<db, boosts, ver, cache, wn, acked, readerVars, faultVars>>

(* boost.Service.Boost commits, or a boost expires: the feed's order       *)
(* changes and nothing touches the cache.                                  *)
BoostChange ==
  /\ boosts < MaxBoosts
  /\ boosts' = boosts + 1
  /\ UNCHANGED <<db, ver, cache, writerVars, readerVars, faultVars>>
-----------------------------------------------------------------------------
(* Service.List.                                                           *)

(* A request arrives and reads the version.  Taking both in one step only  *)
(* asks more of the answer: whatever was acknowledged on arrival still is. *)
ReadVersionAs(r, v) ==
  /\ rpc[r] \in {"idle", "done"}
  /\ \E f \in Filters : filter' = [filter EXCEPT ![r] = f]
  /\ rver' = [rver EXCEPT ![r] = v]
  /\ rpc' = [rpc EXCEPT ![r] = "lookup"]
  /\ page' = [page EXCEPT ![r] = NoPage]
  /\ need' = [need EXCEPT ![r] = IF v = ver THEN acked ELSE 0]
  /\ UNCHANGED <<db, boosts, ver, cache, writerVars>>

ReadVersion(r) == ReadVersionAs(r, ver) /\ UNCHANGED faultVars

(* Version returns 0 when Redis fails.                                     *)
ReadVersionFails(r) == /\ ReadVersionAs(r, 0)
                       /\ Disturb /\ UNCHANGED flushed

Key(r) == CacheKey(rver[r], filter[r])

(* cache.Get finds the page, which is the answer.                          *)
Hit(r) ==
  /\ rpc[r] = "lookup"
  /\ \E e \in cache : e.key = Key(r) /\ page' = [page EXCEPT ![r] = e.page]
  /\ rpc' = [rpc EXCEPT ![r] = "done"]
  /\ UNCHANGED <<db, boosts, ver, cache, writerVars, filter, rver, need, faultVars>>

ToQuery(r) ==
  /\ rpc[r] = "lookup"
  /\ rpc' = [rpc EXCEPT ![r] = "query"]
  /\ UNCHANGED <<db, boosts, ver, cache, writerVars, filter, rver, page, need>>

Miss(r) == /\ \A e \in cache : e.key # Key(r)
           /\ ToQuery(r)
           /\ UNCHANGED faultVars

(* A failed GET counts as a miss.                                          *)
GetFails(r) == ToQuery(r) /\ Disturb /\ UNCHANGED flushed

(* repo.List: one statement, one snapshot.                                 *)
Query(r) ==
  /\ rpc[r] = "query"
  /\ page' = [page EXCEPT ![r] = PageOf(filter[r])]
  /\ rpc' = [rpc EXCEPT ![r] = "fill"]
  /\ UNCHANGED <<db, boosts, ver, cache, writerVars, filter, rver, need, faultVars>>

(* Wrong variant: the error is logged and List goes on to the SET.         *)
QueryFailsGoesOn(r) ==
  /\ rpc[r] = "query" /\ Disturb
  /\ rpc' = [rpc EXCEPT ![r] = "fill"]
  /\ UNCHANGED <<db, boosts, ver, cache, writerVars, filter, rver, page, need, flushed>>

(* The query fails: an error answer, nothing cached.                       *)
QueryFails(r) ==
  /\ rpc[r] = "query" /\ Disturb
  /\ rpc' = [rpc EXCEPT ![r] = "idle"]
  /\ UNCHANGED <<db, boosts, ver, cache, writerVars, filter, rver, page, need, flushed>>

(* Wrong variant: the version is read again for the SET.                   *)
LateFillKey(r) == CacheKey(ver, filter[r])

(* The SET uses the key computed before the lookup.                        *)
FillKey(r) == Key(r)

(* SET replaces the key's value.                                           *)
CacheWith(k, p) == {e \in cache : e.key # k} \cup {[key |-> k, page |-> p]}

(* cache.Set, and the answer.                                              *)
Fill(r) ==
  /\ rpc[r] = "fill"
  /\ cache' = CacheWith(FillKey(r), page[r])
  /\ rpc' = [rpc EXCEPT ![r] = "done"]
  /\ UNCHANGED <<db, boosts, ver, writerVars, filter, rver, page, need, faultVars>>

(* The SET fails and is only logged.                                       *)
FillFails(r) ==
  /\ rpc[r] = "fill" /\ Disturb
  /\ rpc' = [rpc EXCEPT ![r] = "done"]
  /\ UNCHANGED <<db, boosts, ver, cache, writerVars, filter, rver, page, need, flushed>>

-----------------------------------------------------------------------------
(* Redis.                                                                  *)

Keys == {CacheKey(v, f) : v \in 0..MaxWrites, f \in Filters}

(* Wrong variant: SET without a TTL.                                       *)
ExpireNever(k) == FALSE /\ UNCHANGED vars

(* listCacheTTL after the SET the page goes.                               *)
Expire(k) ==
  /\ \E e \in cache : e.key = k
  /\ cache' = {e \in cache : e.key # k}
  /\ UNCHANGED <<db, boosts, ver, writerVars, readerVars, faultVars>>

(* Redis comes back without its data: the version starts over.             *)
Flush ==
  /\ Disturb
  /\ ver' = 0 /\ cache' = {}
  /\ flushed' = TRUE
  /\ UNCHANGED <<db, boosts, writerVars, readerVars>>

-----------------------------------------------------------------------------
WriterStep(w) == CommitWrite(w) \/ Invalidate(w) \/ InvalidateFails(w) \/ Abandon(w)

(* What a request for the feed does once it has arrived.                   *)
ReaderGoesOn(r) == Hit(r) \/ Miss(r) \/ Query(r) \/ Fill(r)

ReaderStep(r) == \/ ReadVersion(r) \/ ReadVersionFails(r)
                 \/ ReaderGoesOn(r)
                 \/ GetFails(r) \/ QueryFails(r) \/ FillFails(r)

Next == \/ \E w \in Writers : WriterStep(w)
        \/ \E r \in Readers : ReaderStep(r)
        \/ \E k \in Keys : Expire(k)
        \/ BoostChange \/ Flush

Spec == Init /\ [][Next]_vars

(* Every call a feed request makes returns, and time passes.  Writers are  *)
(* not fair: a request may hang between its commit and its INCR.           *)
LiveSpec == /\ Spec
            /\ \A r \in Readers : WF_vars(ReaderGoesOn(r))
            /\ \A k \in Keys : WF_vars(Expire(k))

-----------------------------------------------------------------------------
(* Properties.                                                             *)

PageType == [selection : {Selection(f) : f \in Filters}, at : Nat, boosts : Nat]

(* A key holds one page, no page comes from the future, and a reader holds *)
(* one as soon as it has queried.                                          *)
TypeOK ==
  /\ db \in Nat /\ boosts \in Nat /\ ver \in Nat /\ acked \in 0..db
  /\ wpc \in [Writers -> {"idle", "committed"}]
  /\ wn \in [Writers -> 0..db]
  /\ rpc \in [Readers -> {"idle", "lookup", "query", "fill", "done"}]
  /\ filter \in [Readers -> Filters]
  /\ rver \in [Readers -> Nat]
  /\ need \in [Readers -> 0..db]
  /\ page \in [Readers -> PageType \cup {NoPage}]
  /\ \A r \in Readers : rpc[r] \in {"fill", "done"} => page[r] \in PageType
  /\ \A e \in cache : e.page \in PageType /\ e.page.at <= db
  /\ \A e1, e2 \in cache : e1.key = e2.key => e1 = e2
  /\ flushed \in BOOLEAN
  /\ faults \in 0..MaxFaults

(* Read your writes: a feed request that starts after a listing write was  *)
(* acknowledged shows that write, whatever other requests had in flight    *)
(* and whatever calls of theirs to Redis failed: a lost INCR is made good  *)
(* by the next that takes effect, a reader that fell back to version 0     *)
(* spoils nothing for the others.  Nothing is promised of a write whose    *)
(* own INCR was lost or never sent, to a reader that fell back, and after  *)
(* Redis restarted empty.                                                  *)
Freshness ==
  \A r \in Readers : rpc[r] = "done" /\ ~flushed => page[r].at >= need[r]

(* Results of different requests never mix (the comment on List's key).    *)
(* It holds of filters whose prices are whole cents and whose categories   *)
(* are free of ":"; q is the last field and may be any text.  The code     *)
(* guarantees neither: run cache_mixup shows the first collision, theorem  *)
(* ColonsCollide of ListingCacheProofs the second.                         *)
NoMixUp ==
  \A r \in Readers : rpc[r] = "done" => page[r].selection = Selection(filter[r])

(* Whatever failed, an outdated page does not stay readable: once writes,  *)
(* boosts and failures are over, the TTL and the version leave only        *)
(* current pages under the current version.                                *)
Current(e) == e.page.at = db /\ e.page.boosts = boosts
StaleEnds == <>[](\A e \in cache : e.key[1] = ver => Current(e))
=============================================================================
