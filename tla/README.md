# Avigo: TLA+ models and proofs

Specifications of the concurrent core of the Avigo marketplace backend
(`src/backend`), the TLC instances that check them and the TLAPS proofs about them.

## The system

`cmd/api` serves HTTP over Postgres and Redis and runs one outbox relay per process.
`cmd/worker` consumes the relay's Kafka topics and counts events in Redis. Several API
instances may share one Postgres, Redis and Kafka.

| Component | State | Operations | Interacts with | Hard behaviour | Correct when |
|---|---|---|---|---|---|
| Outbox (`internal/outbox`) | table `outbox`, relay goroutine, Kafka writer | Enqueue, claim, publish, mark; tick, drain, shutdown | domain transactions, Kafka, other relays | crash and failure between publish and commit, several relays, cancelled context, id order against commit order | no event lost or invented, repeats bounded, order kept, backlog drained |
| Listings (`internal/listing`) | table `listings`, cached pages and `listings:ver` in Redis | Create, Update, Delete, List, GetByID | outbox, boosts, Redis | write committed before INCR, page stored after it, failed Redis calls, TTL | read your writes, no mixed-up pages, staleness ends |
| Boost (`internal/boost`) | table `boosts`, `is_boosted` | owner check, CreateActive | listings, outbox, clock | check-then-insert, row locks, deletion, ambiguous commit | one active boost, all or nothing, no orphans, no deadlock |
| Worker (`internal/kafka`, `internal/analytics`, `cmd/worker`) | committed offsets, daily counters | fetch, handle, commit, close | Kafka, Redis, outbox | redelivery, skipped failures, one consumer stopping the other | every event counted at least once |
| Auth (`internal/auth`, `internal/user`) | refresh tokens in Redis, users | Register, Login, Refresh, Logout | Redis, Postgres | rotation in two steps, concurrent refresh and logout | a token works once and not after its logout, at most one successor |
| Rate limiter (`internal/storage`, `pkg/middleware`) | counter per address in Redis | Incr, refuse, let through | Redis, the auth routes | window boundary, expiry, fail-open | at most twice `limit` in any window, nobody refused who keeps to it |
| Chat (`internal/chat`) | table `messages` | Send, GetForUser | listings, users | checks and insert in separate statements, paging by offset | owner answers only those who wrote; nothing outlives the listing; paging skips nothing |
| Lifecycle (`cmd/api`) | context, HTTP server, pool, producer | start, stop, drain, close | all | order of closing, requests in flight, timeout, pool limit | a stop in time cuts nobody off and always ends |
| Health, HTTP helpers, middleware, storage, config | none of their own | probes, mapping, validation | | | |

`PROJECT.json` lists for every component what is modelled, and every hazard at its line.

## Modules

| Module | Contents |
|---|---|
| `EventDelivery` | abstract: an event is accepted, delivered after that, settled only once delivered |
| `Outbox` | API transactions and relays; implements `EventDelivery`; `MCOutbox` for TLC; `OutboxProofs` |
| `ListingCache` | the cached feed; `MCListingCache`; `ListingCacheProofs` |
| `Boost` | boosts of one listing; `MCBoost`; `BoostProofs` |
| `EventCounting` | abstract: topics are handed out in turns, an event is counted at most once in a turn, and what is settled was counted or excused |
| `Worker` | consumer group, offsets and counters; implements `EventCounting`; `MCWorker`; `WorkerProofs` |
| `RefreshSessions` | abstract: a session has one accepted token or none, and never comes back |
| `Auth` | refresh tokens; implements `RefreshSessions`; `MCAuth`; `AuthProofs` |
| `Conversation` | abstract: a message is checked and stored in one step; all of them go with the listing |
| `Chat` | the conversations about one listing; implements `Conversation`; `MCChat`; `ChatProofs` |
| `RateLimit` | the fixed-window limit; `RateLimitProofs` |
| `ApiServer` | extends `RateLimit`: the HTTP server, its pool and `POST /auth/register`; `ApiServerProofs` |

Each component module declares its parameters as CONSTANTS with named assumptions, has one
action per step of the code that other processes can observe, and states its properties at
its end. Operators introduced by "Wrong variant" are not part of a specification: each is
the form a plausible bug would give the definition that follows it, and is used to show
that the property it threatens notices.

### Outbox

One element of `Events` is one API transaction that writes a domain row and its event:
`listing.repo.Create` or the tail of `boost.repo.CreateActive`. It goes through `InsertDomainRow`,
`Enqueue` (which draws `outbox.id` from the sequence), `Commit` or `Rollback`; rows become
visible only at `Commit`, so ids need not appear in order.

A relay's `pc` follows `Relay.Run`, `drain` and `PgStore.ProcessPending`: `idle` (in the
select), `claim` (Begin, SELECT ... FOR UPDATE SKIP LOCKED), `publish` (the loop), `mark`
(UPDATE and Commit), `returned`. `msgs` and `ids` are the variables of that name; `msgs` is
also the set of row locks, which live as long as the transaction. `AfterBatch` is drain's
decision to go on. The claim, which is one statement, is one action; so are UPDATE and
Commit together, since nobody can see between them, with `MarkFails` for a failure of
either and for a Commit that failed after taking effect.

Failures (`Disturb`, bounded by `MaxFaults`): a failed claim, a failed publish with or
without the broker having the message, a failed mark, SIGTERM (`Cancel`), a crash. On a
cancelled context Begin, UPDATE and Commit fail (`RunReturns`); a publish may
still succeed or return the context's error and leave its message to the Kafka writer, which
delivers it later (`WriterFlush`). `main` does not wait for `Run`, but `producer.Close` waits for the
writer and `pool.Close` for the relay's connection (`Exit`). So a shutdown in the middle of a batch keeps none of its marks,
and the next relay sends the published rows again, as store.go:37-38 says of a crash; `DuplicatesBounded` limits that to the one batch.
`Publish` is one attempt: the retries kafka-go makes inside it are not modelled, and each lost acknowledgement counts as a failure.

`backlog` and `stalled` are history variables for two properties and affect nothing.

### ListingCache

The table is represented by `db`, the number of listing writes committed; a page by what it
selects and `db` at its query. A writer commits, raises the version and is answered; it may
be abandoned in between, because `Invalidate` runs on the request's context. A reader reads
the version, looks up, queries and stores under the key it computed first. `Selection` is
what the WHERE clause makes of a filter (stored prices are whole cents) and `FmtPrice` what the
key makes of it; prices of filters are integers in thousandths, and `RoundsUp` says which prices at half a cent
`FormatFloat` rounds up, which depends on their binary value. The key joins its fields by ":" and escapes nothing, and
`category` and `q` are whatever the client sent. So a text is the sequence of its pieces between colons, some of which look like a
price or a number, and `FilterKey` is the concatenation of category, `Numbers` and query, without the boundaries between them.
Two kinds of filters share a key because of this: prices that round to the same cents, and texts with
colons in the right places. `NoMixUp` holds of all others. `Expire` may remove a page at any time: TLC is not told how long
five minutes are. `acked` is the latest write whose client was answered and whose INCR took effect: a lost INCR
leaves it where it was, and the next one that takes effect makes good for it. `need` is what a reader may rely on:
`acked` at its version read, nothing if that read failed and fell back to 0. So `Freshness` holds through failed calls of any
request; only after a restart of Redis without its data (`flushed`) does it claim nothing, because version numbers are then used a second
time, and `StaleEnds` claims that this passes. `ReadVersion` joins arrival and version read, which only strengthens
`Freshness`: everything acknowledged at arrival is still acknowledged at the read.

The model does not claim that successive reads are monotonic: a slow reader may replace a
newer page of the same version by an older one while a write is between its commit and INCR.

### Boost

Requests for one listing, each a process through `Service.Boost` and `repo.CreateActive`, one
action per statement. A statement sees what is committed when it runs (READ COMMITTED) and
`NOW()` is the time of Begin. `Referencing` are the transactions whose foreign key holds the
listing FOR KEY SHARE, `updating` those that hold it FOR NO KEY UPDATE; UPDATE waits for
another updater, DELETE for both. Deletion is one autocommitted statement, and its cascade takes
the boosts. `Fail` is a failed statement, a gone client or a crash at any point, and a Commit
that reports an error may have taken effect. `told` is a history variable. One clock stands
for the application's and the database's, and their skew is not modelled.

### Worker

Instances of `cmd/worker`, each with one `Run` per topic. `pc` follows `Run`: `fetch`, `handle`,
`commit`, `returned`; `msg` is `m`, `pos` the position of the reader that owns the topic. `up` is `stopping` once
`gctx` is cancelled, by SIGTERM or by the first error (`CancelGroup`), and `main` then closes the
consumers, waits and exits (`Close`, `Exit`). A topic is one partition; what the group does is
external and represented by what `Run` can see: a partition has one owner, a new owner starts behind
the committed offset, and a member may lose a partition with a message in hand. It then still commits
that message, because the group checks membership and not ownership; the offset
may move back. A message is an `event` or `broken` (not decodable, or without its ids). A failed
`Inc` may have been executed, and a failed commit too.

`skipped` is a history variable: the events whose `Inc` returned an error. `Run` logs the error and
commits, so such an event may be lost. The repository's README promises that only broken events are skipped: that is
`OnlyBrokenSkipped`, which run `worker_loss` shows violated. `NoSilentLoss` is what the code does keep: an event is passed over only with a logged error. `times` counts executions of `INCR` per message instead of
per day.

`RefinesCounting` forgets processes, readers and messages in hand: `gen` is the number of turns, `skipped` the excuses, the committed offset what is
settled. `Inc` with its outcome is one abstract step, a commit of a former owner settles a topic at an earlier place.

### Auth

`Login`, `Refresh` and `Logout` as requests that make one Redis call per step: GETDEL (`Consume`),
SET (`Save`), DEL (`Delete`), each of which may fail before or after it took effect, or lose its answer.
A token stands for its jti and signed claims; a request presents any token that was sent to a
client and has not expired, so the owner, a retry and somebody the token leaked to are all
covered. The user stored under a jti and the one in the claims come from the same call, so
`storedUID != uid` never holds. Redis may restart empty; a restart from an older snapshot, which would
revive tokens that were used, is not modelled. `parent`, `root` and `loggedOut` are history variables: the chain of
tokens that descends from a login is its session. `lost` is one too: the sessions whose token a failed step
took out of Redis, or did not deliver.

What `Logout` promises (service.go:171) concerns the token: it cannot refresh the session afterwards. `LogoutEndsSession` says so of
every token whose 204 was sent, and more of one that had not been exchanged: then the whole session, `Ended`, has no token in Redis or on its way.
A refresh whose GETDEL came before the DEL is not called back: it stores its token after the logout was
answered, and the session goes on with it. The model has this behaviour, and nothing in the repository excludes it.

A failure between GETDEL and SET, or a lost answer of `Refresh`, leaves the client without a session
until it logs in again; `NoLockout` states that nothing else does, neither rotation nor what happens to other sessions.

`RefinesSessions` reads a session as its chain and calls a token live while it is in Redis or with the request that
is about to store it: GETDEL with signing of the successor is one abstract step from token to token, a failed SET discards the
new one, a session is over once it is `Ended`, and a consumed, expired or deleted token is spent for ever.

### Chat

Requests of `POST /messages`, one action per statement: `ListingOwner` with the choice of the receiver,
`CheckConversation` (EXISTS), `Insert`, `Commit`. Only the last two are one SQL statement: an INSERT draws its id and
`NOW()` before its row is visible, so rows become visible in another order than the pages' `created_at, id`, and its
foreign key holds the listing until it commits, which `MayDelete` waits for. `Fail` is a failed statement or
a gone client at any point. One reader pages through his history by `LIMIT`/`OFFSET`; `Pages` gives every answer that
ORDER BY leaves open, so that an order with ties would show. `had` and `seen` are history variables. A page may
repeat messages when a row slips in before the offset; `OldMessagesSeen` claims that none is skipped. The text of a message and
its length check are left out.

`RefinesConversation` takes the step in which a row becomes visible for the whole request: the owner check and the permission check, made earlier,
must still be right then, which is what the foreign key and the fact that messages are never deleted one by one are for.

### RateLimit

`Incr` is the MULTI of INCR and EXPIRE NX: the counter and its expiry are set together. A
counter above the limit is kept at `Limit + 1`. `FailOpen` is a pipeline that failed, executed or not, `Flush` a restart of Redis.
`passed` is the history of what was let through. Time is an integer clock with keys expiring at its ticks. `AtMostTwiceLimit` counts the
outages so far: each may cost the counter once, and with it one more limit in a window.

### ApiServer

`Arrive` is `authLimit`, with the three ways it ends; `ReadBody` the binding, which waits for the client (no ReadTimeout is
configured); `Acquire`, `Insert` and `Reply` the handler with its connection and the INSERT on a UNIQUE email. All
requests register the same email; `user` is the hash stored for it, so it also tells whose
account it is. `main` follows `cmd/api/main.go`: `Stop` (SIGTERM or a failed listener), `ShutdownReturns` (drained, or after its
timeout), `Exit` (`pool.Close` waits for its connections; whatever is still in flight is cut off),
`Crash`, `Restart`. `timedOut` is history and belongs to one process: `GracefulStop` speaks of the step in which a request is cut off. The relay of the same process is in `Outbox`; the two share only the order of the deferred calls, which
both respect.

## Runs

| Run | Instance | Shows |
|---|---|---|
| `outbox` | 2 relays, 2 events, batch 2, 2 faults | nothing lost or invented, no repeat without a fault and at most a batch per fault, refinement of `EventDelivery`; every committed event is eventually delivered and marked |
| `outbox_single` | 1 relay, 4 events, batch 2, 2 faults | no overtaking; a tick drains several batches |
| `outbox_overtake` | 2 relays, 3 events, 1 fault | violated: a failed message is overtaken |
| `cache` | 2 readers, 2 filters, 1 writer, 1 write, 1 boost, 1 fault | an acknowledged write is seen, whatever call failed; pages of the feed and of a search in it do not mix; staleness ends |
| `cache_mixup` | filters from 9.99 and 9.994 | violated: one key, two selections |
| `boost` | 2 owner requests, 1 stranger, time 0..3, 1 fault | all or nothing, no orphans, repeats refused, no deadlock |
| `boost_race` | 2 owner requests | violated: two active boosts |
| `worker` | 2 workers, a topic with a broken message before an event and an idle topic, 2 faults | events are counted at least once unless their `Inc` failed and at most once per assignment; refinement of `EventCounting`; a broken message blocks nothing; a worker does not go on with one consumer |
| `worker_loss` | 1 worker, the same topics, 1 fault | violated: a valid event whose `Inc` failed is passed over |
| `auth` | 3 requests, 4 tokens, 1 fault | one successor per token, one live token per session, a logged-out token buys nothing, nobody is locked out but by a fault of their own session; refinement of `RefreshSessions` |
| `chat` | 2 requests, owner and 2 buyers, pages of 1, 3 messages, time 0..1, 1 fault | the owner answers only writers, paging skips nothing; refinement of `Conversation`, by which no message outlives the listing |
| `api` | 3 requests from 1 address, limit 1, window 2, time 0..3, pool of 1, 1 fault, 1 outage | the limit is earned and at most doubled; one account, its owner's; a stop cuts nobody off in time and always ends; everyone is served |

Why the bounds are enough to be interesting: two relays let one take over the rows another gave up, and a batch of two can fail after its
first message; two faults, in `outbox` and `worker`, allow a failure during the recovery from another one; four events make a tick of one relay
take several batches, the last of them short. Two readers are a slow filler and one that hits what it stored; a boost
changes the page without a new version. Two boosts by the owner and a clock of four instants let a boost expire and be repeated while the
listing is being deleted. Two workers suffice for a former owner and a new one, and two faults for a rebalance on top of a crash or of a failed
call. Four tokens are two sessions that rotate, or one that rotates three times, and three requests a refresh, a competing
refresh and a logout; a second fault doubles the time of this run and is left to the theorems. The search in `cache` contains a colon. Two sends and three messages let a row with an earlier time or id appear behind a reader who
pages one by one. Three requests, a limit of one and a window of two reach both sides of a window's boundary, and a pool of one
makes them wait. Two things take more than a run has, and rest on their theorems: a burst of `2 * Limit + 1` requests across an outage
needs more requests than `api` has, a lost INCR made good by a later one needs a second write in `cache`. `EveryoneServed` is about finitely many requests, not about an endless stream of others. The safety properties of all these runs, the action properties of `outbox_single` and `api`, and the four refinements, are also proved, for every instance
(see Proofs). Relays, events, requests of one kind, readers and tokens are interchangeable, so most runs without a liveness
property use symmetry; the others do not.

Deadlock is checked except for `boost` and `boost_race`, whose requests are answered once and then stop, for `worker` and `worker_loss`, whose topics
get finitely many messages, for `auth`, which runs out of tokens, and for `chat`, where `MaxMessages` ends the sends.

Fairness. `Outbox!LiveSpec`: the relay's goroutine always goes on, because the ticker keeps firing and
its calls return; `EventuallyPublished` asks in addition that some instance keeps running,
since nothing restarts a stopped one. `ListingCache!LiveSpec`: the calls of a feed request return
and pages expire; writers are not fair. `Boost!LiveSpec`: a statement that no lock holds up returns.
`Worker!LiveSpec`: `Run` and `main` go on, and the group assigns a topic nobody has; nothing
restarts a worker, so `EverythingProcessed` asks that some worker keeps running. `ApiServer!LiveSpec`: the handler's own steps go on,
`srv.Shutdown` returns, at the latest with its timeout, and so does `main`; clients, signals, restarts and Redis owe nothing.

## Disagreements between code and documentation

Each is a `violation` run, listed with quotations in `PROJECT.json` under `findings`:
overtaking with several relays, events passed over after a failed `Inc`, shared cache keys, two active boosts after a race.

## Proofs

For every value of the constants, under the named assumptions of each module (batch size
positive, bounds natural, `Events` finite, filters with prices natural or absent and non-empty texts, owners among the requests, `Nobody` nobody) and those
a theorem states itself:

* `OutboxProofs`. `IInv` adds to the properties that relays hold and their writers keep only
  committed rows (`InFlight`) and that what a batch counts as published the broker has. Neither `NoLoss`
  nor `NoPhantom` is inductive without it: marking takes `ids`, publishing takes `msgs`. From it
  `TypeCorrect`, `NoLostEvents`, `NoPhantomEvents` and, step by step, `Refinement`.
  `RepeatsBounded` rests on an account, `Paid`: the log is no longer than the rows that are
  settled, plus a batch for each fault, less what a stopping relay still has at stake (its batch and the message left with its writer), which
  a shutdown pays for in advance; with no fault it says that nothing is sent twice. `OneRelayKeepsOrder` and `OneRelayDrains` assume a single relay. Their invariant, `AloneInv`,
  says that an unsent row whose publish failed is in the batch or behind it, and that a batch below its LIMIT is all that is left of the tick's backlog.
* `ListingCacheProofs`. `TypeInv`, then `ReadYourWrites` from `FreshInv`, which holds until Redis restarts empty: under the current version every page,
  stored or about to be, is as new as every acknowledged write whose INCR took effect, and under a version some reader
  holds as new as that reader needs. An INCR creates a version under which nothing is
  stored yet; a query shows everything committed; a reader that fell back to version 0 stores under an old version a page newer than its readers need. `KeysDoNotCollide` assumes that prices of filters are whole cents
  (run `cache_mixup` shows why) and that categories contain no colon, so that the fields begin at fixed places (`KeyParts`); `FieldsTell`
  and, for prices, `CentsTell` derive that keys tell selections apart, and `PagesFit` carries that to the pages. `ColonsCollide` is the
  converse for texts: whatever the prices and the page, there are two filters with one key and different selections.
* `BoostProofs`. `IInv` with `ToldInv`: requests know only of answered ones, and after the check each of
  those boosts had expired. From it `TypeCorrect`, `BoostIsAtomic`, `NoneOutlives`, `SequentialRepeat`, and
  `LocksDoNotDeadlock`, the safety part of `EveryoneAnswered`: who waits for the row waits for a transaction that waits for nobody.
* `WorkerProofs`. `IInv` adds `Behind` to `NoSilentLoss`: everything before the message a consumer holds, and before the
  position of a topic's owner but for the message in its handler, was handled. Without it a commit could not be shown to
  pass over nothing, above all the one of a former owner. From it `TypeCorrect` and `AtLeastOnce`. `RepeatsNeedReassignment` rests on
  `Accounted`: the counts of a message, the handlers that hold it and the owner's reader still before it are together no more than the assignments of its topic.
  The same account is why an abstract count is always allowed in `Refinement`; that everything before a message in hand was handled (`Behind`) is why a commit settles rightly.
* `AuthProofs`. `Chains`: the tokens of a login form one chain with one end. `OnlyEndsLive`: what is in Redis, or held by
  a request that is about to save it, is the end of a chain and was not logged out, and no two requests hold the same
  token. Consuming takes the end of a chain out of Redis before a new end is made, which is what keeps both. From
  them `TypeCorrect`, `OneSuccessor`, `OneTokenPerSession`, `LogoutIsFinal`, an action property, and `Refinement`. `RotationKeepsAccess` shows of
  each step that it replaces the token it takes, or ends the session, or is a fault that puts exactly that session among the lost ones.
* `ChatProofs`. `IInv` adds `ListingHeld` (a row not yet visible holds the listing), `RepliesFounded` (the check's
  answer stays right up to the commit: messages go only with the listing) and `UnseenAhead`: a message that was there at the start and was not seen
  has at least `offset` rows before it. Rows that appear only push it back, so a page cannot skip it. From it
  `TypeCorrect`, `AnswersOnly`, `NothingSkipped` and `Refinement`, where `RepliesFounded` and `ListingHeld` make the commit an allowed post.
* `RateLimitProofs`. `LimitInv`, per address: a key with hits is alive for at most a window (`Alive`), and counts no more than was let through in it
  (`Counted`). `Spaced` places what was let through: all but the last
  requests, as many as the counter shows and one limit for each outage so far (`Since`), came before this window, and all but `Limit` more before the one ahead of it. From it `NeverRefusedEarly` and `BurstBounded`.
* `ApiServerProofs`. `ServerLimits`: every step of the server is one of the limiter or none, so the limiter's invariant holds of it. `IInv` adds
  that a handler about to answer knows the truth (`AboutToReply`) and that a pool is closed under requests in flight only after a timeout of
  this process (`ClosingDrained`). From it `TypeCorrect`, `OneOwner`, the action property of `NobodyCutOff`, and `PoolDoesNotDeadlock`, the safety part of
  `EveryoneServed` and `StopsEventually`: who waits for a connection waits for a running statement.

Only model-checked: the liveness properties (`EventuallyPublished`, `StaleEnds`, `EveryoneAnswered`,
`EverythingProcessed`, `StopsTogether`, `StopsEventually`, `EveryoneServed`), which need fairness and ENABLED, out of the prover's reach; and the
violated claims of the four `violation` runs.

## Plan

Done: all modules above with their proofs. Left:

1. A `Pipeline` that composes `EventDelivery` with `EventCounting`, so that "a committed
   listing is counted at least once, unless an `Inc` was logged, and how often at most" is stated end to end.
2. The relay and the HTTP server of one process in one module, for the order of the deferred calls of `main` on the one pool they share.

## Not modelled

* Readiness probes: they share one timeout and report what the drivers say, but keep no state that others use.
* Logging, request ids, the body limit, parsing and validation of requests, configuration: no shared state; their
  failures appear as failed steps.
* Reads by primary key (`GetByID`, `GetByEmail`): one statement without a step after it.
* The day in the worker's counter key, and the TTL of counters: an event is counted under the day it is processed.
* A restart of Redis from an older snapshot, and multi-partition topics (the broker creates topics with one partition).
