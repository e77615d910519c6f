-------------------------------- MODULE Page --------------------------------
(***************************************************************************)
(* server/server.go (the browser page) with frontend_wasm's RadarEngine    *)
(* and spatial/viewport.go: what one browser shows, from the map's bounds  *)
(* and zoom to the cells the server looks into, over connections that are  *)
(* lost and made again.                                                    *)
(*                                                                         *)
(* The server is what Hub.tla shows of it for one connection: seen, a      *)
(* viewport, and two goroutines that push to it, each with a viewport read *)
(* and a query made earlier.  A place is a longitude in degrees; latitudes *)
(* are left out, which the page only cuts off at 89.9, and so is the size  *)
(* of the cells.                                                           *)
(*                                                                         *)
(* External: the map, whose bounds go on beyond 180 degrees; websockets,   *)
(* which keep order; h3, which takes every edge of a polygon the short way.*)
(***************************************************************************)
EXTENDS Integers, Sequences

CONSTANTS
  EntityIDs,
  Longitudes,   \* where entities are: 180, the place h3 has at -180, is left out
  MapViews,     \* what the map is moved to: [west, east, zoom in tenths], west < east
  MaxEvents,    \* bound: changes of the world, moves of the map, lost connections
  MaxWire       \* bound: messages under way in either direction

ASSUME LongitudesAssumption == Longitudes \subseteq -180 .. 179
ASSUME MapViewsAssumption ==
  MapViews \subseteq [west : Int, east : Int, zoom : Nat] /\ \A v \in MapViews : v.west < v.east
ASSUME BoundsAssumption == MaxEvents \in Nat /\ MaxWire \in Nat \ {0}

VARIABLES
  \* the page
  ws,           \* "connecting", "open", or "closed" until the timer fires
  mapView,      \* the bounds of the map
  markers,      \* markers: [entity -> version]
  targets,      \* radarEngine.targets: [entity -> version]
  \* the connection and the server's end of it
  uplink,       \* viewports on their way to the server
  wire,         \* deltas on their way to the page
  viewport,     \* c.viewport
  seen,         \* c.seen: [entity -> version]
  recent,       \* minPushInterval has not elapsed since c.lastPush
  jobs,         \* what each goroutine is doing for this client
  dropped,      \* the server has dropped a delta
  \* the rest of the server
  event,        \* the hub's subscription has an event
  \* outside the program and history
  world,        \* the server's newest data: [entity -> [version, lng]]
  events,       \* how often the world, the map or the connection changed
  ghosts        \* entities on the page that this connection has said nothing of

page == <<markers, targets, ghosts>>
client == <<viewport, seen, recent, jobs, dropped>>
link == <<uplink, wire, client>>
vars == <<ws, mapView, page, link, event, world, events>>

Goroutines == {"handler", "broadcast"}

Empty == [id \in {} |-> 0]
OnlyIn(f, S) == [id \in S |-> f[id]]

-----------------------------------------------------------------------------
(* Viewports *)

(* sendViewport's ((x + 180) % 360 + 360) % 360 - 180, where % keeps the   *)
(* sign of x + 180, comes to the same as with the mathematical remainder.  *)
JSRemainder(x, n) == IF x < 0 THEN -((-x) % n) ELSE x % n
NormalisedOnce(x) == JSRemainder(x + 180, 360) - 180
Normalised(x) == JSRemainder(JSRemainder(x + 180, 360) + 360, 360) - 180

Rounded(zoom) == (zoom + 5) \div 10

(* The viewport the page sends for the bounds and zoom of its map. *)
Sent(v) ==
  IF v.east - v.west >= 360 THEN [west |-> -180, east |-> 180, zoom |-> Rounded(v.zoom)]
  ELSE [west |-> Normalised(v.west), east |-> Normalised(v.east), zoom |-> Rounded(v.zoom)]

(* The zero viewport of a new client. *)
NoViewport == [west |-> 0, east |-> 0, zoom |-> 0]

(* The longitudes between the east and west edges of a polygon: h3 takes   *)
(* edges of more than half the globe to go round the other side.           *)
Polygon(west, east) ==
  IF east - west > 180 THEN {x \in Longitudes : x < west \/ x > east}
                       ELSE {x \in Longitudes : west <= x /\ x <= east}

(* ViewportToCells; the page never asks for the global viewport, whose     *)
(* latitudes go to the poles.                                              *)
ViewportToCells(vp) ==
  IF vp.west > vp.east THEN Polygon(vp.west, 180) \cup Polygon(-180, vp.east)
  ELSE Polygon(vp.west, vp.east)

(* What the map shows, however often it was turned round. *)
Shown(v) ==
  {x \in Longitudes : \E turn \in (v.west \div 360) - 1 .. (v.east \div 360) + 1 :
     v.west <= x + 360 * turn /\ x + 360 * turn <= v.east}

EntitiesAt(places) == {id \in DOMAIN world : world[id].lng \in places}
VersionsOf(ids) == [id \in ids |-> world[id].version]

(* Query: below zoom 5 its answer is clusters only, which the page ignores. *)
onlyClusters(vp) == vp.zoom < 5
Visible(vp) == IF onlyClusters(vp) THEN Empty ELSE VersionsOf(EntitiesAt(ViewportToCells(vp)))

-----------------------------------------------------------------------------
Idle == [at |-> "idle", view |-> NoViewport, found |-> Empty]

(* NewClient *)
NewClient ==
  /\ viewport' = NoViewport /\ seen' = Empty /\ recent' = FALSE
  /\ jobs' = [g \in Goroutines |-> Idle]
  /\ dropped' = FALSE

(* The map starts at zoom 3. *)
Init ==
  /\ ws = "connecting"
  /\ mapView \in {v \in MapViews : v.zoom = 30}
  /\ markers = Empty /\ targets = Empty /\ ghosts = {}
  /\ uplink = <<>> /\ wire = <<>>
  /\ viewport = NoViewport /\ seen = Empty /\ recent = FALSE /\ dropped = FALSE
  /\ jobs = [g \in Goroutines |-> Idle]
  /\ event = FALSE
  /\ world = Empty
  /\ events = 0

Happens == events < MaxEvents /\ events' = events + 1

(* A poll; its event finds the hub's channel empty or full. *)
Report(id, lng) ==
  /\ Happens
  /\ event' = TRUE
  /\ world' = [x \in DOMAIN world \cup {id} |->
                 IF x = id THEN [version |-> events + 1, lng |-> lng] ELSE world[x]]
  /\ UNCHANGED <<ws, mapView, page, link>>

Evict(id) ==
  /\ Happens
  /\ event' = TRUE
  /\ id \in DOMAIN world
  /\ world' = OnlyIn(world, DOMAIN world \ {id})
  /\ UNCHANGED <<ws, mapView, page, link>>

(* Polls go on when the bound on events is reached, but raise no versions. *)
Poll ==
  /\ ~event
  /\ event' = TRUE
  /\ UNCHANGED <<ws, mapView, page, link, world, events>>

(* moveend and zoomend call sendViewport, which needs an open connection.  *)
MoveMap(v) ==
  /\ Happens
  /\ mapView' = v
  /\ IF ws = "open" THEN Len(uplink) < MaxWire /\ uplink' = Append(uplink, Sent(v))
                    ELSE UNCHANGED uplink
  /\ UNCHANGED <<ws, page, wire, client, event, world>>

(* StreamHandler accepts; onopen. *)
GreetingNone == <<>>
Greeting == <<Sent(mapView)>>

Open ==
  /\ ws = "connecting"
  /\ ws' = "open"
  /\ uplink' = Greeting
  /\ wire' = <<>>
  /\ NewClient
  /\ ghosts' = DOMAIN targets
  /\ UNCHANGED <<mapView, markers, targets, event, world, events>>

(* The connection fails or is never made; onclose sets the timer.  What    *)
(* the server still does for the old client concerns nobody any more.      *)
Close ==
  /\ Happens
  /\ ws \in {"connecting", "open"}
  /\ ws' = "closed"
  /\ uplink' = <<>> /\ wire' = <<>>
  /\ NewClient
  /\ UNCHANGED <<mapView, page, event, world>>

(* The timer fires: connect. *)
Reconnect ==
  /\ ws = "closed"
  /\ ws' = "connecting"
  /\ UNCHANGED <<mapView, page, link, event, world, events>>

-----------------------------------------------------------------------------
(* The server's end *)

outside == <<ws, mapView, page, uplink, world, events>>

Started(g, step, vp) == [jobs EXCEPT ![g] = [at |-> step, view |-> vp, found |-> Empty]]

(* HandleViewportUpdate up to its query. *)
TakeViewport ==
  /\ uplink # <<>>
  /\ jobs["handler"] = Idle
  /\ viewport' = Head(uplink)
  /\ uplink' = Tail(uplink)
  /\ jobs' = Started("handler", "query", Head(uplink))
  /\ UNCHANGED <<ws, mapView, page, wire, seen, recent, dropped, event, world, events>>

(* An event wakes the broadcast goroutine, which groups the clients by     *)
(* their viewports ...                                                     *)
Sweep ==
  /\ event
  /\ jobs["broadcast"] = Idle
  /\ event' = FALSE
  /\ jobs' = IF ws = "open" THEN Started("broadcast", "filter", viewport) ELSE jobs
  /\ UNCHANGED <<outside, wire, viewport, seen, recent, dropped>>

(* ... and forgets the event for a client that is not eligible by then.    *)
Filter ==
  /\ jobs["broadcast"].at = "filter"
  /\ jobs' = IF recent THEN [jobs EXCEPT !["broadcast"] = Idle]
                       ELSE Started("broadcast", "query", jobs["broadcast"].view)
  /\ UNCHANGED <<outside, wire, viewport, seen, recent, dropped, event>>

(* minPushInterval has passed since the last push. *)
Elapse ==
  /\ recent
  /\ recent' = FALSE
  /\ UNCHANGED <<outside, wire, viewport, seen, jobs, dropped, event>>

Query(g) ==
  /\ jobs[g].at = "query"
  /\ jobs' = [jobs EXCEPT ![g] =
                [at |-> "push", view |-> NoViewport, found |-> Visible(jobs[g].view)]]
  /\ UNCHANGED <<outside, wire, viewport, seen, recent, dropped, event>>

(* lastVersion < e.Version *)
Newer(now) == {id \in DOMAIN now \cap DOMAIN seen : now[id] > seen[id]}

Delta(now) ==
  [added |-> OnlyIn(now, DOMAIN now \ DOMAIN seen),
   updated |-> OnlyIn(now, Newer(now)),
   removed |-> DOMAIN seen \ DOMAIN now]

NoDelta == [added |-> Empty, updated |-> Empty, removed |-> {}]

SeenAfter(now) ==
  [id \in DOMAIN now |-> IF id \in DOMAIN seen /\ id \notin Newer(now) THEN seen[id] ELSE now[id]]

(* computeAndSend, and HandleViewportUpdate after its query.  A delta of   *)
(* clusters is a push, too; the page ignores them.                         *)
Push(g) ==
  LET now == jobs[g].found IN
  /\ jobs[g].at = "push"
  /\ jobs' = [jobs EXCEPT ![g] = Idle]
  /\ seen' = SeenAfter(now)
  /\ \/ /\ Delta(now) = NoDelta
        /\ recent' \in {recent, TRUE}
        /\ UNCHANGED <<wire, dropped>>
     \/ /\ Delta(now) # NoDelta
        /\ Len(wire) < MaxWire
        /\ wire' = Append(wire, Delta(now))
        /\ recent' = TRUE
        /\ UNCHANGED dropped
     \/ /\ Delta(now) # NoDelta
        /\ dropped' = TRUE
        /\ UNCHANGED <<wire, recent>>
  /\ UNCHANGED <<outside, viewport, event>>

-----------------------------------------------------------------------------
(* onmessage: processDelta *)

(* The page's cache, which takes updates of entities it does not know. *)
MarkedIfNew(f, delta) ==
  [id \in (DOMAIN f \cup DOMAIN delta.added) \ delta.removed |->
     IF id \in DOMAIN f THEN f[id] ELSE delta.added[id]]
Marked(f, delta) ==
  [id \in (DOMAIN f \cup DOMAIN delta.added \cup DOMAIN delta.updated) \ delta.removed |->
     CASE id \in DOMAIN delta.updated -> delta.updated[id]
       [] id \in DOMAIN delta.added -> delta.added[id]
       [] OTHER -> f[id]]

(* The engine's targets, which do not: update_targets. *)
Targeted(f, delta) ==
  LET known == DOMAIN f \cup DOMAIN delta.added
      added == [id \in known |-> IF id \in DOMAIN delta.added THEN delta.added[id] ELSE f[id]]
  IN [id \in known \ delta.removed |->
        IF id \in DOMAIN delta.updated THEN delta.updated[id] ELSE added[id]]

Receive ==
  /\ wire # <<>>
  /\ LET delta == Head(wire) IN
       /\ markers' = Marked(markers, delta)
       /\ targets' = Targeted(targets, delta)
       /\ ghosts' = ghosts \ (DOMAIN delta.added \cup DOMAIN delta.updated \cup delta.removed)
  /\ wire' = Tail(wire)
  /\ UNCHANGED <<ws, mapView, uplink, client, event, world, events>>

Browser == Open \/ Reconnect \/ Receive
Handler == TakeViewport \/ Query("handler") \/ Push("handler")
Broadcast == Sweep \/ Filter \/ Query("broadcast") \/ Push("broadcast")

Next ==
  \/ \E id \in EntityIDs : Evict(id) \/ \E lng \in Longitudes : Report(id, lng)
  \/ \E v \in MapViews : MoveMap(v)
  \/ Close
  \/ Browser \/ Handler \/ Broadcast \/ Elapse \/ Poll

(* Browser, handler and broadcast goroutine keep going, polls and time go  *)
(* on.  Nobody is owed a change of the world, a move or a lost connection. *)
Spec ==
  /\ Init /\ [][Next]_vars
  /\ WF_vars(Browser) /\ WF_vars(Handler) /\ WF_vars(Broadcast)
  /\ WF_vars(Elapse) /\ WF_vars(Poll)

-----------------------------------------------------------------------------
Versions == UNION {[S -> 1 .. MaxEvents] : S \in SUBSET EntityIDs}

Viewports == [west : -180 .. 180, east : -180 .. 180, zoom : Nat]
Job == [at : {"idle", "filter", "query", "push"}, view : Viewports, found : Versions]

(* Every variable keeps its type, the viewports asked for are ones of the  *)
(* globe, and nothing is under way, nor known to the server, without a     *)
(* connection.                                                             *)
TypeOK ==
  /\ ws \in {"connecting", "open", "closed"}
  /\ mapView \in MapViews
  /\ markers \in Versions /\ targets \in Versions /\ seen \in Versions
  /\ ghosts \subseteq DOMAIN targets
  /\ \A i \in DOMAIN uplink : uplink[i] \in Viewports
  /\ viewport \in Viewports /\ jobs \in [Goroutines -> Job]
  /\ {recent, dropped, event} \subseteq BOOLEAN
  /\ ws # "open" => /\ uplink = <<>> /\ wire = <<>> /\ viewport = NoViewport /\ seen = Empty
                    /\ \A g \in Goroutines : jobs[g] = Idle
  /\ DOMAIN world \subseteq EntityIDs

(* Every plane on the map can be clicked: whatever deltas were dropped and *)
(* connections lost, the page's cache has what the engine draws, at the    *)
(* same version (server.go 287-288, 409-421, lib.rs 70-100).               *)
DrawnIsKnown ==
  \A id \in DOMAIN targets : id \in DOMAIN markers /\ markers[id] = targets[id]

(* The server has served the map's viewport, and the page has read it. *)
CaughtUp ==
  /\ ws = "open" /\ wire = <<>> /\ uplink = <<>>
  /\ viewport = Sent(mapView) /\ seen = Visible(viewport)
  /\ ~dropped

(* The map is close enough for entities in place of clusters. *)
Detailed(v) == Rounded(v.zoom) >= 5
Narrow(v) == v.east - v.west < 180

Expected == IF Detailed(mapView) THEN EntitiesAt(Shown(mapView)) ELSE {}

ShowsExpected ==
  \A id \in Expected : id \in DOMAIN targets /\ targets[id] = world[id].version

(* Once all messages are read, a map close enough for entities (zoom 4.5   *)
(* and up) shows every entity in its bounds at its newest version, over    *)
(* whatever meridian it lies, and one farther away shows none.  What else  *)
(* is on the map was left there by an earlier connection (server.go        *)
(* 381-423, index.go 304-387, viewport.go 24-88).                          *)
ShowsView ==
  CaughtUp /\ (Detailed(mapView) => Narrow(mapView)) =>
    ShowsExpected /\ DOMAIN targets \ Expected \subseteq ghosts

(* As long as polls go on, the page ends up with all it should show, even  *)
(* if a sweep or a viewport update pushed an old view or result last, or   *)
(* the client was not eligible when an event came (hub.go 132, 143, 269),  *)
(* and however often the connection was lost, unless the server dropped a  *)
(* delta (server.go 425-437).                                              *)
CatchesUp == <>[](dropped \/ ((Detailed(mapView) => Narrow(mapView)) => ShowsExpected))
=============================================================================
