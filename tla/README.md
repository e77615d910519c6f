# TLA+ model of geospatial-intel

geospatial-intel polls public position feeds (aircraft, ships), keeps the newest
position of every entity in memory, indexes it by H3 cell, and streams to each browser
the entities inside its viewport. This directory holds TLA+ modules translated from the
Go, Rust and JavaScript sources under `src/`, the TLC configurations that check them on
small instances, and proofs checked by TLAPS. Paths below are relative to `src/`.

- [The system](#the-system): inventory of components, state, interactions
- [Modules](#modules): what each module models and how it maps to the code
- [Runs](#runs): what TLC checks, with which bounds
- [Fairness](#fairness)
- [Proofs](#proofs)
- [Where the code differs from what is written about it](#where-the-code-differs-from-what-is-written-about-it)
- [Not modelled](#not-modelled)
- [Plan](#plan)

## The system

One process. A seeder goroutine polls OpenSky and calls `Store.Apply`; `Apply` updates
the spatial index, queues the batch for a history goroutine that writes SQLite, and
wakes the subscribers. The hub is a subscriber: one broadcast goroutine computes a delta
for each connected browser. Every connection has a handler goroutine (the main loop of
`StreamHandler`), a reader goroutine and a ping goroutine.

    seeder --Apply--> Store --BatchUpdateRust--> Index <--Query-- Hub, handlers
                        |--historyChan--> history goroutine --> osint.db
                        |--Subscription.C--> Hub.broadcast --c.ch--> handler --> browser
                                                  browser --viewportChan--> handler

| component | state it keeps | operations | how it interacts | what is hard |
|---|---|---|---|---|
| Entity store, `store/store.go` | `seq`, `lastSeen`, `subs`, `historyChan`, reused buffers; SQLite table `history` | `Apply`, `Subscribe`, `Unsubscribe`, `Query`, `Seq`, `GetHistory`, `historyWorker` | called by seeders and hub; owns the index; sends without blocking to subscribers and to the history goroutine | stale tracking packed in one counter; `Seq` and `Query` bypass the mutex; full channels; pooled batches; a transaction that fails half-way; restarts |
| Spatial index, `spatial/index.go` | layers per resolution, counters per cell and per resolution, three maps between entity, internal id and cells | `BatchUpdateRust`, `Query` | calls the Rust library; read-write lock | three redundant structures updated at six places; invalid coordinates; three query loops chosen by size |
| Viewport geometry, `spatial/viewport.go` | none | `ZoomToResolution`, `ViewportToCells` | called by `Query` | zoom boundaries, antimeridian |
| Hub, `server/hub.go` | `clients`; per client `viewport`, `seen`, `lastPush`, `ch` | `Register`, `Unregister`, `broadcast`, `computeAndSend`, `HandleViewportUpdate` | broadcast goroutine and every handler goroutine work on the same clients | stale viewport and query results; a dropped delta; a channel closed under the sender; pooled buffers |
| Stream handler, `server/handler.go` | `viewportChan`, context | main loop, reader, pinger | one per connection | who closes what first; writes without deadline |
| Seeder loop, `seeder/seeder.go` | current backoff | `Run` | calls `Fetch`, then `Apply` | Retry-After above and below the bounds, growth of the backoff, shutdown in every state |
| OpenSky and AIS seeders | access token and its expiry; route tables | `Fetch`, `getToken` | HTTP, websocket | a token that expires under way, status codes, a body that says nothing |
| Entity types, `entity/entity.go` | none | delta encoder | | |
| HTTP server and page, `server/server.go` | page: the `markers` cache, the map's bounds, the socket, the selected aircraft | `processDelta`, `connect`, `sendViewport`, animation, details panel | websocket to the handler, history by HTTP | reconnection keeps old targets; the bounds around the antimeridian |
| Radar engine, `frontend_wasm` | targets by id, named to the page by a 32-bit hash | `update_targets`, `tick` | called by the page | interpolation, hash collisions |
| Rust cell computation, `spatial_engine` | none | `compute_resolutions_batch` | called by the index | cell 0 for rejected coordinates |
| Process wiring, `main.go` | none | start, shut down | starts only the OpenSky seeder | |

What makes each of them correct:

- *Store.* An entity goes after exactly two consecutive misses and never because of
  anything else; the index holds exactly the tracked entities at the version of their
  last report; no subscriber sleeps with unseen data; `Apply` never waits for anyone.
- *Index.* Every entity is filed once per resolution; counters and layers agree; a query
  answers the same whichever loop it takes.
- *Hub and handlers.* `c.seen` is what the browser holds; a browser left alone ends up
  with exactly its viewport's newest entities; no delta takes an entity of it back to an
  older version; two broadcasts to it are `minPushInterval` apart; a sweep reaches every
  client and always ends; nothing panics.
- *Pools.* A pooled object has one owner; a delta carries no other viewport's clusters.
- *Seeder.* The delay stays within its bounds, except where a rate limit says otherwise,
  and recovers after an update; a pause the API asks for is kept; a token holds for the
  request it was fetched for; an outage evicts nothing; the loop ends when it is told
  to.
- *History.* A batch is recorded whole or not at all, as it was reported, and is missing
  only for a cause.
- *Page.* A map close enough for entities shows everything within its bounds at the
  newest version, wherever the bounds are and however often the connection was lost, and
  catches up after every push that was late or left out; one farther away shows nothing;
  what is drawn can be clicked.

`PROJECT.json` lists the hazards behind these, line by line, with the properties that
cover each.

## Modules

    Seeder --INSTANCE--> StaleEviction <--refines-- Store --refines--> EntityFeed <--EXTENDS-- Hub
       |                                              |                                        |
    UpdatesSpaced                               BatchAsWhole                             seen, dropped
       | (assumed by)                                 | (shown by)                             | (as in)
    History                                      SpatialIndex                                Page

    StreamHandler: the goroutines of one connection of Hub
    DeltaPool:     the pooled objects behind Hub's Push

**StaleEviction** states README.md's promise about stale entities: a set of live
entities and, for each, whether the last poll missed it.

**Store** models `store/store.go`. `Apply` holds `s.mu` throughout, but `Query` and
`Seq` do not take `s.mu`, and two channels are shared with other goroutines, so it is
four steps: `ApplyTick` (lines 185-219: bump `seq`, classify the batch, evict),
`ApplyIndex` (221-229), `ApplyHistory` (231-237), `ApplyPublish` (239-259). `phase` says
how far the current `Apply` is; any value but `"idle"` is the mutex held, which is why
`Subscribe` and `Unsubscribe` require `"idle"`. `lastSeen` is the code's map with its
two marks: the current `seq` for a reported entity, `seq - 2` for one missed once.
`changed` is `addedBuf` and `updatedBuf` together: the index, the history and the event
treat them alike. `index` is what a query sees; `historyChan` and `chan` are the bounded
channels. `syncedAt` is a history variable: the newest poll a subscriber's next query is
sure to see.

**EntityFeed** is the store as the hub needs it: `seq`, an index that changes at once
and after `seq`, and one wake-up that may stand for several polls. `Store` implements it
through subscription 0, the one `NewHub` makes; `Hub` extends it, so what is checked of
the hub holds of the hub over the real store.

**Hub** models `server/hub.go` and the main loop of `server/handler.go`. Its steps are
the stretches between two accesses to shared state. The broadcast goroutine: `Wake`
(event received, clients snapshotted), `GroupKey` and `GroupAppend` (the two
`GetViewport()` calls of line 132, the assigned key first, as Go evaluates `m[f()] =
append(m[f()], c)`), `Filter` (eligible clients of a group, 139-150), `GroupQuery` (one
query for the group, 152-168), `ComputeAndSend` (per client, 190-252, under
`viewportMu`), `Swept`. A handler: `SetViewport` (up to line 259), `ViewportQuery`,
`ViewportPush` (under `viewportMu`), `TakeDelta`, `WriteDelta`, `Unregister`.
`Disconnect` is the browser leaving at any moment. The two near-identical delta
computations of the code are one operator, `Push`, called by both. Time is one bit per
client: whether `minPushInterval` has passed since `lastPush` (`Elapse`). A viewport
push sets `lastPush`, too, so the history variable `broadcastTo` keeps who was sent a
broadcast within the interval, and `ElapseBroadcast` ends that. A delta is what it says
of each entity; of its clusters only whether there are any matters, because an otherwise
empty delta is sent if it has clusters. The pooled delta may still point at a clusters
map that another goroutine has cleared, so `Push` lets clusters be absent. A closed
channel sent to sets `crashed`, after which nothing runs. `basis`, `dropped`, `due` and
`moved` are history variables. `targets` is the browser: `Applied` is `processDelta`
(`server.go` 404-423) with the radar engine's `update_targets`. It is updated when the
handler writes; the connection keeps order, so it stands for the browser once it has
read what was written.

**StreamHandler** models when the three goroutines of one connection wait and end: the
main loop (`select`, handling, writing, the deferred `Unregister` and `Close`), the
reader (reading, sending on the unbuffered `viewportChan`, closing it when a read fails)
and the pinger. `ctx` is `context.Background()` (`server.go` 46), so `ctx.Done()` has no
action. The websocket library is external: reads, writes and pings fail once the
connection is lost or closed, a write waits while the peer takes nothing in, and a pong
is received only while a read is in progress. What the main loop does to the hub is
`Hub`'s business; here handling a viewport only may leave a delta. `cause` is a history
variable.

**SpatialIndex** models `spatial/index.go`. `BatchUpdateRust` is a removal step followed
by one `Insert` per reported entity, so that invariants are checked at every point of a
batch; queries need the read lock and run only in between (`pending = Nothing`). A layer
is a set of slots `[cell, id, copy]`: a cell's slice may hold an internal id twice, and
the copy number tells them apart; the order in a slice is left out, as only membership
and length are read. `Query` is the operators `Scanned`, `Visible`, `OutOfView`,
`ClusterCells` and `Clusters`. H3 and the Rust library are external: `CellOf` gives a
position's cell per resolution, or `NoCell` (0) for coordinates the library rejects; a
viewport carries its cells. A feed is the entities a behaviour's batches name and the
positions it reports them at; invariants about exact filing are stated for feeds that
report valid positions only. `Store` takes the index for a map from entity to place with
atomic batches; `BatchAsWhole` says that the steps of this module keep such a map.

**Seeder** models `seeder/seeder.go` `Run` with `seeder/opensky.go`. Its program counter
is where the goroutine is: before `Fetch`, in the token request, in the data request, in
the `select` after it, or returned. Time is in milliseconds, as amounts left (`delay`,
`tokenExpiry`, `life`, `hold`) and ages; it passes in `Slow` (a request that takes the
client's ten seconds) and in `WaitOver`. `Fails`, `RateLimited` and `Succeeds` are the
ways `Fetch` returns, with `Run`'s reaction in the same step, as nothing else sees the
state in between. `tokenExpiry` is the token's end by the client's clock, which starts
when the answer is there; `life` is its end at the server, which began when it was asked
for. `Succeeds` polls `StaleEviction`, which `Store` implements. `hold`, `asked`,
`updateAge` and `reportAge` are history variables.

**History** models the rest of `store/store.go`: `Apply`'s slice from `entitySlicePool`,
filled, queued or put back (221-237), the worker (112-117), `recordHistory` with one
step per statement of the transaction (`Begin`, `Insert` per chunk, `InsertRefused`,
`Commit`, and `DatabaseFails` at any of them), `GetHistory` as an open query, and
`Restart`. A slice is its backing array, so that a slice put back while it is still
queued would show. `Spaced` is what `UpdatesSpaced` in `Seeder` establishes: timestamps
are seconds, and no two polls of a process fall into one. SQLite is external:
`cache=shared` gives the table one lock that neither side waits for, a failed statement
rolls back nothing by itself, and `Restart` keeps what was committed.

**DeltaPool** models the objects of `deltaPool` and `queryBufferPool` and the maps they
point at, for the broadcast goroutine and each client's handler. Each stretch of code
that changes a map or goes through one has a beginning and an end, so that two can
overlap. What is sent is left to `Hub`, whose `Push` lets clusters vanish.

**Page** models the browser page of `server/server.go` with the radar engine's
`update_targets` and `ViewportToCells`, over connections that are lost and made again.
`Sent` is `sendViewport`: its arithmetic, with JavaScript's signed remainder, and the
zoom rounded (`Rounded`; a map's zoom is in tenths). `Visible` is `Query` as the page
sees it: below zoom 5 (`onlyClusters`) the answer has no entities, and `processDelta`
ignores clusters; from there on the entities in the cells of `ViewportToCells`, which
splits at the antimeridian. Longitudes are whole degrees and latitudes are left out: the
page cuts them off at 89.9, which is why the global viewport (`IsGlobal`) never comes
from it. h3 takes every edge of a polygon the short way round (`Polygon`), and the map
counts its bounds on beyond 180 degrees, as often as it is turned round (`Shown`); both
are external.

The server's end is what `Hub` shows of one client: `viewport`, `seen`, whether
`minPushInterval` has passed since the last push (`recent`), and two goroutines, each at
its own step (`jobs`). The handler takes a viewport, queries and pushes (`TakeViewport`,
`Query`, `Push`). The broadcast goroutine needs an event (`event`, a channel of one); it
reads the viewport (`Sweep`), forgets a client that is not eligible (`Filter`), queries
with the viewport it read, and pushes what it found. So a push may use a viewport that
is no longer the client's, or a result older than the one pushed before it, and an event
may be forgotten. A push sends its delta, finds nothing to say, or drops it; since it
may carry clusters, one with nothing else to say may set `lastPush`. The two reads of
the viewport in line 132 of `hub.go` come, for one client, to reading an old viewport.
`Poll` is the event of a poll that changes nothing: when the bound on events is reached,
polls go on. A connection's panic (`hub_panic`) is left to `Hub`.

**MCStore**, **MCHub**, **MCStreamHandler**, **MCSpatialIndex**, **MCSeeder**,
**MCHistory**, **MCDeltaPool** and **MCPage** give the constants their values.
**StoreProofs**, **HubProofs**, **DeltaPoolProofs**, **StreamHandlerProofs**,
**SpatialIndexProofs**, **SeederProofs**, **HistoryProofs** and **PageProofs** hold the
theorems about the module they are named for and their proofs.

## Runs

| run | asks | instance |
|---|---|---|
| `store` | types, `TrackingMatchesIndex`, `NoLostWakeup`, `ApplyFinishes`, refinement of `StaleEviction` and `EntityFeed` | 2 entities, 2 places, 4 polls, 2 subscriptions, history queue of 1 |
| `hub` | types, `SeenMirrorsBrowser`, `AtRestExact`, `VersionsAdvance`, `BroadcastsSpaced` | 1 connection, 2 viewports and a rejected one, 1 entity, 2 places, 2 polls |
| `hub_sweep` | `SweepFinishes`, `SkippedOnlyByMove` | 2 connections, 1 viewport besides the zero viewport, 1 poll |
| `stream` | types, `ViewportsInOrder`, `HandlerReturns`, `ReaderReturns`, `ViewportsHandled` | 1 connection, 3 viewports, messages of other types and garbage |
| `index` | types, `LayersExact`, `CountsMatch`, `AnswersExact`, `StaysFindable`, `BatchAsWhole` | 3 entities at 3 valid positions, or 2 at 2 valid and an invalid one; 8 viewports |
| `seeder` | types, `UpdatesSpaced`, `TokenOutlivesRequest`, `PauseKept`, `EvictedLate`, `Stops` | with and without credentials; tokens of 30 and 100 s, pauses of 0 and 90 s, 1 entity; no bound on polls |
| `history` | types, `BatchWhole`, `QueuedIntact`, `LostOnlyWithCause` | 3 polls in 3 seconds, 2 processes, queue of 1, 2 rows per `INSERT`, 1 reader, 3 entities, batches of 0, 2 and 3 rows |
| `pool` | types and ownership, `NoForeignClusters` | broadcast and 2 handlers, 3 deltas, 3 buffers, 2 viewports |
| `page` | types, `DrawnIsKnown`, `ShowsView`, `CatchesUp` | 1 entity at 3 longitudes, 4 map views (3 detailed), 4 events, any number of idle polls, 1 message each way |
| `hub_seen` | violates `SeenWasSent` | as `hub`, without the rejected viewport |
| `hub_panic` | violates `NoPanic` | as `hub_seen`, 1 poll |
| `pool_race` | violates `NoConcurrentMapUse` | as `pool` |

Why the bounds are enough for the interesting cases:

- Four polls are one more than the longest stale history that matters (reported, missed,
  missed, reported again), so an entity can go through the whole cycle of tracking,
  forgiveness and eviction and return. A queue of one history batch fills after one
  poll. Two subscriptions let one leave while the other stays, and let an event stand
  for several polls.
- In `hub`, one entity and two viewports that cover one place each give every transition
  of an entry of `c.seen`: it appears, is updated in place, moves out, moves in, and
  goes. Entities do not interact in a delta, except through whether it is empty. Two
  polls make a query result stale. Clients share nothing but the sweep, so what concerns
  one client is checked with one, and grouping with two.
- `index` has three entities in three places, two of which share all coarse cells: cells
  become shared, empty and shared again; the viewports make each of the three loops run
  at zooms that show entities and at zooms that show clusters. One internal id beyond
  one per entity lets an entity be removed and come back as another; two copies let it
  be filed twice in a cell after invalid coordinates.
- `seeder` has no bound on its length: its times are cut off where nothing depends on
  them any more. A token of 30 s never lasts to the next poll, one of 100 s lasts for
  one and not for the next; a pause of 90 s exceeds the maximum delay and one of 0 stops
  the delay from growing. Plain errors take the delay from the interval through all its
  values to the maximum.
- `history` with two rows per `INSERT` has a chunk boundary inside a batch of three and
  a last chunk that is not full, where the code has one every 5000 rows; a batch repeats
  a key within a chunk or across two. Three polls keep one batch with the worker, one in
  the queue and one being filled; the three seconds span a restart.
- `pool` has as many objects as goroutines, so each can be in use at once, be put back
  and be taken by another. A pool may also give a new object: any that no goroutine
  holds stands for it.
- `page` begins with the whole globe at zoom 3, where the page does; its other views are
  at zooms 4.6 to 5.1 and as wide as a screen shows there, over Greenwich and over the
  antimeridian counted from the west and from the east. Four events are, for instance, a
  report, a lost connection, a report elsewhere and a move. One entity suffices:
  entities do not interact in a delta, except through whether it is empty, and a push
  may always take place as if it were not (clusters). One message each way under way
  makes deltas and viewports wait for each other; dropped deltas add the rest.
- `MaxSeq`, `MaxSubs`, `MaxReturns`, `MaxCopies`, `MaxPolls`, `MaxNow`, `MaxBoots`,
  `MaxEvents`, `MaxWire` and `MaxViewports` are the bounds; none is in the code. Runs
  set `CHECK_DEADLOCK FALSE` where the models stop at a bound, or where the program does
  (after a panic, when a connection is over, after shutdown); `pool` checks for
  deadlock, since a goroutine that waits for another client's `viewportMu` must get it.
  The other waits of the code are covered by `ApplyFinishes`, `SweepFinishes` and the
  properties of `stream`.

Entities are interchangeable in `index`, and deltas, buffers and viewports in `pool`,
which is what `SYMMETRY` declares; no run with a liveness property uses it.

Each property has a mutant in `PROJECT.json`: a plausible slip in the code (a reused
mark off by one, a blocking send, an old slot kept, a token used to its last second, a
slice recycled while it is queued) written next to the definition it would replace, and
with which TLC finds the property violated.

Premises and what shows that they are needed: in `SeenMirrorsBrowser`, `AtRestExact`,
`VersionsAdvance` and `CatchesUp` no delta was dropped on a full channel (`hub_seen`; a
removal that was dropped and an older addition after it take the browser back); in
`SkippedOnlyByMove` no viewport changed while clients were being grouped; in
`AtRestExact` the last delta was computed for the current viewport and the newest poll,
so it says nothing of stale views and late results, of which `CatchesUp` says that they
do not last; in `LayersExact` and `AnswersExact` the feed is valid; in `ShowsView` and
`CatchesUp` a detailed map spans less than half the globe (all in the list of
differences below).

## Fairness

- `Store!FairSpec` is weak fairness of `ApplyStep`, the rest of an `Apply` that has
  begun: it is one goroutine that, in the code, never waits. Polls, subscribers and the
  history worker are owed nothing.
- `Hub!FairSpec` is weak fairness of `Sweep`, the broadcast goroutine's own steps after
  it woke up. Handlers, browsers, time and the store are owed nothing: a sweep must end
  even if every handler has stopped for ever. The mutexes it takes are held by handlers
  only for the length of one step of the model (`viewportMu` is not held across a
  channel operation that waits or a network write), so a step that takes one is enabled
  as the model has it. Nothing runs after a panic, so nothing is owed then.
- `StreamHandler!FairSpec` is weak fairness of each of the three goroutines, and strong
  fairness of the two `viewportChan` cases of the main loop's `select`: Go chooses
  uniformly among the cases that are ready, so a case that is ready again and again is
  chosen. The peer and the hub owe nothing; `ViewportsHandled` states its own assumption
  about the peer.
- `Seeder!Spec` is weak fairness of `Run` (the goroutine keeps going, a request is
  answered or times out after the client's ten seconds, a timer fires) and strong
  fairness of `Stop`: with a delay of zero both cases of the `select` are ready every
  time, and Go chooses among them at random.
- `Page!Spec` is weak fairness of `Browser` (open, reconnect, read), of `Handler` and
  `Broadcast` (each is one goroutine, which goes on with what it has begun, but may drop
  what it should send), of `Elapse` (time passes) and of `Poll`. The last is the
  seeder's: `Run` polls until it is cancelled, and every `Apply` that returns has
  published an event or found one waiting (`store/store.go` 239-259). No push is owed
  without an event or a viewport message. Without fairness of `Poll`, `CatchesUp` is
  violated: the last event comes while the client is not eligible and is forgotten
  (`server/hub.go:143`), or an old view or result is pushed last. Losing a connection
  and dropping a delta are owed to nobody, and the former is bounded.
- `History` and `DeltaPool` state no liveness and assume no fairness.

## Proofs

Every safety property of the passing runs, invariant or action property, and every
refinement is also a theorem, for any value of the constants that meets the named
assumptions. What the runs alone show is liveness (below).

| module | theorems | properties proved |
|---|---|---|
| `StoreProofs` | `StoreInvariant`, `TypeCorrect`, `TrackingCorrect`, `WakeupNotLost`, `EvictionImplemented`, `FeedImplemented` | types, `TrackingMatchesIndex`, `NoLostWakeup`, `EvictionSpec`, `FeedSpec` |
| `HubProofs` | `HubInvariant`, `Typing`, `Mirrored`, `ExactAtRest`, `VersionsOnlyAdvance`, `BroadcastsAreSpaced`, `SkipsOnlyByMove`, `UsesFeed` | types, `SeenMirrorsBrowser`, `AtRestExact`, `VersionsAdvance`, `BroadcastsSpaced`, `SkippedOnlyByMove`; the hub does to the store what `EntityFeed` allows |
| `DeltaPoolProofs` | `Typing`, `OwnClustersOnly` | types and ownership, `NoForeignClusters` |
| `StreamHandlerProofs` | `HandlerInvariant`, `Typing`, `HandedOverInOrder` | types, `ViewportsInOrder` |
| `SpatialIndexProofs` | `IndexInvariant`, `Typing`, `CountersAgree`, `FiledOnce`, `AnswersAreExact`, `Findable`, `BatchesTakeEffectWhole` | types, `CountsMatch`, `LayersExact`, `AnswersExact`, `StaysFindable`, `BatchAsWhole` |
| `SeederProofs` | `SeederInvariant`, `Typing`, `Spaced`, `PausesKept`, `TokenIsGood`, `EvictedOnlyLate` | types, `UpdatesSpaced`, `PauseKept`, `TokenOutlivesRequest`, `EvictedLate` |
| `HistoryProofs` | `HistoryInvariant`, `Typing`, `RecordedWhole`, `QueueIsIntact`, `NothingLostWithoutCause` | types, `BatchWhole`, `QueuedIntact`, `LostOnlyWithCause` |
| `PageProofs` | `PageInvariant`, `Typing`, `DrawnAreKnown`, `ViewIsShown` | types, `DrawnIsKnown`, `ShowsView` |

Each module is laid out in the same way: the parts of the inductive invariant; lemmas
about the model's operators; a lemma per action, or group of actions, for what it does
to the invariant; `InitInv` and `NextInv`; the theorems. The parts of each invariant
were checked with TLC on the component's run before they were proved.

### Arguments

*Store.* None of the three invariants is inductive. `TrackingMatchesIndex` says nothing
while the index lags behind (`phase = "index"`), so the invariant adds what is then
pending: the new tracking table is the old index plus `changed` minus `removed`, with
the versions that `changed` will write. It also pins the marks: a tracked entity's
`lastSeen` is `seq` or `seq - 2`, never anything in between, which is why `seq - 2`
never wraps (it is written only for an entity tracked at an earlier poll) and why `last
< seq - 1` means "missed before". For `NoLostWakeup` the invariant says, at every phase,
that an empty channel goes with a subscriber that is up to date or about to be sent to.
The refinement theorems map each step to a step or a stutter under that invariant.

*Hub.* That `c.seen` mirrors the browser is kept by every push, because a push computes
both from one query result and one `c.seen` under `viewportMu`; what the invariant has
to add is what a connection starts from and that only who has registered may be served
(`Fresh`). `AtRestExact` is then about results: whoever holds one holds what its view
had at the poll it names (`Results`, `Dating`), and `c.seen` was exact for `basis` when
it was computed. `VersionsAdvance` is about the moment a delta is written, long after it
was computed: the invariant says of each delta in flight that it takes nothing back
where it will be applied (`Forward`), which a push establishes because `c.seen` is then
what the browser will hold. `BroadcastsSpaced` rests on `Spaced`: whatever was pushed to
a client since it was found eligible was no broadcast, since only the broadcast
goroutine makes these and it makes one per client it found eligible. `SkippedOnlyByMove`
rests on an account of every client of the snapshot: still to be grouped, in a group,
dealt with, or moved (`Accounted`).

*Pools.* `NoForeignClusters` speaks of a thread that encodes. `OwnClusters` says why it
holds there: from its query on, nobody but the thread itself adds to its buffer's map,
whichever map a pooled delta points at. That somebody may clear it is
`NoConcurrentMapUse`, which the code violates.

*Stream handler.* `ViewportsInOrder` is inductive with a bound on what the reader holds;
it says where every viewport that was sent is.

*Index.* `CountsMatch` counts slots, so the invariant must know that a new slot is not
there already and that dropping a copy drops one: the copies of an internal id in a cell
are numbered without a gap at the end (`CopiesCounted`). `LayersExact` then follows from
which slots an insertion and a removal touch, `StaysFindable` from `Filed`, and
`AnswersExact` from `LayersExact` and `CountsMatch` without further induction: the three
loops of `Query` are shown to scan the same slots and to count the same entities.

*Seeder.* Each property speaks of the moment a request goes out or an update is made.
The invariant says at every earlier moment what the waiting still to come will make up
for: what is left of a pause never exceeds the wait (`Pausing`), what an update's age
lacks of an interval does not either (`Spacing`), `Ageing` relates an entity's misses to
the age of its last report, and `Lasting` says how far the client's clock can be behind
the token's life at the server.

*History.* `QueuedIntact` is ownership: an array is in the pool, in one place of the
queue, or with the worker (`Owned`), and a poll always finds one that is free
(`ArraysSuffice`). `BatchWhole` needs what an open transaction has written so far
(`Recording`) and that a row's poll can be told from its timestamp (`Stamped`).
`LostOnlyWithCause` needs that no row of the table shares its second with a batch that
still waits, unless that batch is excused (`Alone`); that the key turns no such batch
away is then a matter of repetitions inside it. How a `chunk` is cut, the last one of a
batch included, is a lemma (`ChunkIs`).

*Page.* `DrawnIsKnown` is inductive by itself. `ShowsView` needs what the deltas under
way say. The invariant says it of one entity at a time, so that no induction over the
queue is needed: the last delta to mention an entity agrees with the server's `seen`
(`Told`); an entity that none mentions agrees already, or is a ghost that `seen` has not
got (`Known`); and an update comes only for an entity the engine will have by then,
which is what `update_targets` needs to take it (`Updatable`). None of this depends on
the view or the age of the result a push uses, as long as delta and `seen` are computed
from the same one (`DeltaIs`, `SeenIs`), so pushes of both goroutines are one lemma. The
rest is `CellsShown`: for a map of less than half the globe, JavaScript's remainder, the
server's split at the antimeridian and h3's short way round come to the longitudes the
map shows, however often it was turned round the globe.

### Assumptions

The proofs use the named assumptions of the modules, which TLC evaluates in every run,
and nothing else. Most give a constant its type. Those that say more:

- `Hub!CoversAssumption`: the zero viewport covers nothing. `BadViewportsAssumption`
  gives the rejected viewports their type.
- `DeltaPool!EnoughAssumption`, `MapsAssumption`, `NoneAssumption`, and
  `History!ArraysAssumption`: a pool makes a new object when it has none, so there are
  enough of them, all different.
- `SpatialIndex!ViewportCellsAssumption`: a viewport's cells are of the resolution it is
  queried at, as `ViewportToCells` is called with that resolution. `CellOfAssumption` is
  what the Rust library answers with: a cell of the resolution asked for, or 0.
- `Seeder!TokenLivesAssumption`: a token lives for two request timeouts or more, where
  OpenSky's live for half an hour.
- `Page!LongitudesAssumption`: entities are at -180 up to 179, since 180 is the place h3
  has at -180. With 180 as a place of its own, a map that begins at the antimeridian
  would show an entity its cells do not have. `MapViewsAssumption` gives a map a west
  edge before its east edge, and a zoom.

### Only model-checked

Liveness is out of the proof system's reach: `ApplyFinishes`, `SweepFinishes`,
`HandlerReturns`, `ReaderReturns`, `ViewportsHandled`, `Stops` and `CatchesUp` are
checked by TLC only, and so are `WF_` and `SF_` in general: the theorems about fair
specifications use their safety part. The violated properties (`SeenWasSent`, `NoPanic`,
`NoConcurrentMapUse`) have counterexamples and so no theorems.

## Where the code differs from what is written about it

Each of the first three is a violation run.

1. `c.seen` is updated even when the delta is then dropped on a full channel, so it is
   not the "version last sent to client" (`hub_seen`; `server/hub.go:20`).
2. The broadcast goroutine can send on a channel that `Unregister` has closed, which
   panics (`hub_panic`; `integration_test.sh:49`).
3. A delta goes back to its pool pointing at the clusters map of a pooled query buffer;
   who takes it next clears that map while another goroutine may be encoding it, which
   Go answers with a fatal error (`pool_race`; `server/hub.go:201,204`,
   `integration_test.sh:49`).

Seen while modelling, without a run of their own.

Store and index:

- With two seeders, a poll of one is a miss for the entities of the other, so an entity
  goes after fewer than two polls of its own seeder (README.md:113,
  IMPLEMENTATION.md:153-159). `main` starts one seeder.
- An entity reported at coordinates the Rust library rejects keeps its old slots and,
  once removed, leaves them and their counts behind for ever (`spatial/index.go:217`;
  `spatial/index_test.go:150`).
- A batch that names an aircraft twice is lost to the history, and so is one that is
  being inserted while any history query is open: SQLite's shared cache refuses the
  `INSERT` at once, and nothing retries (`store/store.go:165`). The first poll of a
  restarted process is lost if it falls into the last second of the process before.
- Zoom 4 maps to resolution 5, which is not indexed, and is below the threshold for
  showing entities: queries at zoom 4 answer with nothing (`spatial/viewport.go:13`,
  `spatial/index.go:31,304`; README.md:91-100 says otherwise and maps zooms 0-4 to
  resolution 2, where the code takes 3).
- Below zoom 5, out-of-view clusters are in the answer only if the viewport has at least
  as many cells as are populated (`spatial/index.go:340`); README.md:17 speaks of
  out-of-view clusters without condition. `AnswersExact` states what holds in every
  case.

Hub and handlers:

- A sweep that grouped a client by its old viewport can replace the new viewport's
  entities by the old one's, until the next push to it (`server/hub.go:132`;
  README.md:16); so can a result older than the one before (`server/hub.go:269`). After
  an event that finds a client not eligible, or a stale push, the client waits for the
  next poll (`server/hub.go:143`); `CatchesUp` says that this one brings everything.
- Line 132 of `server/hub.go` reads the viewport twice: `m[k1] = append(m[k2], c)`. A
  change in between puts the clients of the new viewport's group under the old viewport
  and drops those who were there from the sweep, although `server/hub.go:119` says it
  "pushes deltas to all clients". `SkippedOnlyByMove` without its premise is violated,
  with two connections.
- The second client of a group may get the delta the first just put back, which points
  at the group's own buffer: clearing it empties the clusters the second is due
  (`server/hub.go:201-204`).
- When the main loop returns on a failed write while the reader holds a viewport, the
  reader waits on `viewportChan` for ever (`server/handler.go:89`): one goroutine leaks
  per such connection. `ReaderReturns` says that this is the only way.
- README.md:111 speaks of a 500 ms floor per client. It binds broadcasts among
  themselves (`BroadcastsSpaced`). `HandleViewportUpdate` pushes at once, and a
  broadcast whose client was eligible before its query goes out right after a viewport
  push (`server/hub.go:143`).

Seeder:

- README.md:112 and `seeder/seeder.go:36` speak of exponential backoff up to 60 s on 429
  and 5xx. The delay after those is what Retry-After says, or 10 s, or 30 s: not
  exponential, not capped, and possibly below the polling interval. Plain errors grow
  the delay, but not from zero, and do not bring one above 60 s down. A 429 of the token
  endpoint is a plain error.
- A 200 answer that is no JSON counts as a poll that saw nothing; two in a row empty the
  map (`seeder/opensky.go:186`).

Page:

- The page opens at zoom 3 (`server/server.go:147`) and shows nothing until the map is
  at zoom 4.5 or more: below that the server sends clusters only
  (`spatial/index.go:304`), and the page draws none, although README.md:100 has entities
  clustered at low zooms.
- A viewport of more than half the globe: h3 takes the polygon's long edges the short
  way round, so the cells are those outside the bounds, or, for the whole globe, next to
  none; the case of `spatial/viewport.go:26` is not reached, since the page cuts
  latitudes off at 89.9. A page that wide is below zoom 5 on any ordinary screen, so
  only clusters are affected, which it does not draw.
- After a reconnect, entities that left the viewport meanwhile stay on the map
  (`ghosts`).
- A dropped delta with an added entity, followed by an update of it, leaves the entity
  in the page's cache and not among the engine's targets.
- The history of one aircraft that arrives after another was selected overwrites its
  panel, and its trail is then anchored to the other aircraft
  (`server/server.go:306-332,258-277`). The history has no altitudes, so the trend shown
  is always level.
- A position update across the antimeridian moves the aircraft the long way round the
  globe (`frontend_wasm/src/lib.rs:107`).

## Not modelled

- The page's details panel, trail and animation, and the radar engine's interpolation:
  drawing and floating-point arithmetic on one aircraft at a time.
- Groups of four or more clients: the code's groups are slices, and two map entries may
  share a backing array after the double read of line 132. With up to three clients the
  set of the model is exact; beyond that the code may also lose or repeat a client.
- The order of entities in a delta, JSON encoding, logging, metrics, HTML and CSS: no
  property is about them.
- H3 geometry, the SQLite driver, the websocket and HTTP libraries, the browser's map:
  external, modelled by what the code relies on.
- Wrap-around of the 64-bit `seq` and the 32-bit internal id, and collisions of the
  page's 32-bit hash: unreachable or data.
- AIS `Fetch`: it keeps no state between calls and `main` does not start it. (It returns
  what it has read with no error when its connection fails, so a partial batch counts as
  a poll.)
- Start-up order, environment variables and the draining of HTTP requests in `main.go`.
- `CREATE TABLE` failing at start, which panics before anything else runs.

## Plan

In place: `StaleEviction`, `Store`, `EntityFeed`; `Hub`, `StreamHandler`, `DeltaPool`;
`SpatialIndex`; `Seeder`; `History`; `Page`; a module of proofs for each component. To
come, in this order:

| step | module | what for |
|---|---|---|
| 1 | `HandlerRefinement` | `StreamHandler` implements the handler that `Hub` composes |
| 2 | `PageProofs` | `Page`'s server end is what `Hub` shows of one connection, as a refinement |
| 3 | a hub of two clients whose polls go on for ever | that a client left out by the double read of `server/hub.go:132` is served by a later sweep; `Page` shows it for one client, whose double read is only a stale one |
