----------------------------- MODULE PageProofs -----------------------------
(***************************************************************************)
(* Proofs about Page.tla, for any entities, places and map views, however  *)
(* the world changes, the map is moved and connections are lost.           *)
(*                                                                         *)
(* DrawnIsKnown is inductive by itself.  ShowsView follows from what every *)
(* delta under way says of an entity: the last one to mention it agrees    *)
(* with the server's seen (Told), an entity none of them mentions agrees   *)
(* already (Known), and no update comes for a plane the engine would not   *)
(* have by then (Updatable).  The rest is arithmetic on longitudes.        *)
(***************************************************************************)
EXTENDS Page, SequenceTheorems, TLAPS

(* No delta says two things of one entity. *)
Deltas ==
  {d \in [added : Versions, updated : Versions, removed : SUBSET EntityIDs] :
     /\ DOMAIN d.added \cap DOMAIN d.updated = {}
     /\ (DOMAIN d.added \cup DOMAIN d.updated) \cap d.removed = {}}

Messages ==
  /\ uplink \in Seq(Viewports)
  /\ wire \in Seq(Deltas)
  /\ events \in 0 .. MaxEvents

(* Versions are numbered by the events so far. *)
Dated == \A id \in DOMAIN world : world[id].version \in 1 .. events

Gives(delta, id) == id \in DOMAIN delta.added \cup DOMAIN delta.updated
Says(delta, id) == Gives(delta, id) \/ id \in delta.removed
Given(delta, id) == IF id \in DOMAIN delta.updated THEN delta.updated[id] ELSE delta.added[id]

Known ==
  \A id \in EntityIDs : (\A i \in DOMAIN wire : ~Says(wire[i], id)) =>
    IF id \in ghosts THEN id \notin DOMAIN seen
    ELSE /\ id \in DOMAIN targets <=> id \in DOMAIN seen
         /\ id \in DOMAIN targets => targets[id] = seen[id]

Told ==
  \A id \in EntityIDs, i \in DOMAIN wire :
    Says(wire[i], id) /\ (\A j \in DOMAIN wire : i < j => ~Says(wire[j], id)) =>
      /\ Gives(wire[i], id) <=> id \in DOMAIN seen
      /\ id \in DOMAIN seen => Given(wire[i], id) = seen[id]

Updatable ==
  \A id \in EntityIDs, i \in DOMAIN wire : id \in DOMAIN wire[i].updated =>
    /\ (\A j \in DOMAIN wire : j < i => ~Says(wire[j], id)) => id \in DOMAIN targets
    /\ \A j \in DOMAIN wire :
         /\ j < i /\ Says(wire[j], id)
         /\ \A k \in DOMAIN wire : j < k /\ k < i => ~Says(wire[k], id)
         => Gives(wire[j], id)

Following == ws = "open" /\ ~dropped => Known /\ Told /\ Updatable

IInv == TypeOK /\ Messages /\ Dated /\ DrawnIsKnown /\ Following

-----------------------------------------------------------------------------
(* Division by the full circle.                                            *)
LEMMA Divided ==
  ASSUME NEW n \in Int
  PROVE  \E q \in Int, m \in 0 .. 359 : n = 360 * q + m /\ q = n \div 360 /\ m = n % 360
<1>1. n \div 360 \in Int /\ n % 360 \in 0 .. 359 /\ n = 360 * (n \div 360) + (n % 360)
  OBVIOUS
<1> QED
  BY <1>1

(* A longitude comes out of sendViewport in range and on its meridian.     *)
LEMMA Normal ==
  ASSUME NEW x \in Int
  PROVE  /\ Normalised(x) \in -180 .. 179
         /\ \E k \in Int : x = Normalised(x) + 360 * k
<1> DEFINE r == JSRemainder(x + 180, 360)
<1>1. /\ r \in -359 .. 359
      /\ \E k \in Int : x + 180 = r + 360 * k
  <2>1. CASE x + 180 < 0
    <3> DEFINE y == -(x + 180)
    <3>0. y \in Int
      OBVIOUS
    <3> HIDE DEF y
    <3>1. PICK q \in Int, m \in 0 .. 359 : y = 360 * q + m /\ q = y \div 360 /\ m = y % 360
      BY <3>0, Divided
    <3>2. r = -m
      BY <2>1, <3>1 DEF JSRemainder, y
    <3> HIDE DEF r
    <3>3. r \in -359 .. 0
      BY <3>2
    <3> DEFINE turns == -q
    <3>4. turns \in Int /\ x + 180 = r + 360 * turns
      BY <3>1, <3>2 DEF y
    <3> HIDE DEF turns
    <3> QED
      BY <3>3, <3>4
  <2>2. CASE ~(x + 180 < 0)
    <3> DEFINE y == x + 180
    <3>0. y \in Int
      OBVIOUS
    <3> HIDE DEF y
    <3>1. PICK q \in Int, m \in 0 .. 359 : y = 360 * q + m /\ q = y \div 360 /\ m = y % 360
      BY <3>0, Divided
    <3>2. r = m
      BY <2>2, <3>1 DEF JSRemainder, y
    <3> HIDE DEF r
    <3>3. r \in 0 .. 359
      BY <3>2
    <3>4. x + 180 = r + 360 * q
      BY <3>1, <3>2 DEF y
    <3> QED
      BY <3>3, <3>4
  <2> QED
    BY <2>1, <2>2
<1>2. /\ Normalised(x) = ((r + 360) % 360) - 180
  BY <1>1 DEF JSRemainder, Normalised
<1>3. (r + 360) % 360 = IF r < 0 THEN r + 360 ELSE r
  BY <1>1
<1> HIDE DEF r
<1>4. PICK k \in Int : x + 180 = r + 360 * k
  BY <1>1
<1>5. CASE r < 0
  <2>1. Normalised(x) = r + 180 /\ k - 1 \in Int /\ x = (r + 180) + 360 * (k - 1)
    BY <1>1, <1>2, <1>3, <1>4, <1>5
  <2> QED
    BY <1>1, <1>5, <2>1
<1>6. CASE ~(r < 0)
  <2>1. Normalised(x) = r - 180 /\ x = (r - 180) + 360 * k
    BY <1>1, <1>2, <1>3, <1>4, <1>6
  <2> QED
    BY <1>1, <1>6, <2>1
<1> QED
  BY <1>5, <1>6

(* The viewport sent is one, at the zoom the page rounds to. *)
LEMMA SentIs ==
  ASSUME NEW v \in MapViews
  PROVE  Sent(v) \in Viewports /\ Sent(v).zoom = Rounded(v.zoom)
<1>1. v.west \in Int /\ v.east \in Int /\ v.zoom \in Nat
  BY MapViewsAssumption
<1>2. Normalised(v.west) \in -180 .. 180 /\ Normalised(v.east) \in -180 .. 180
  <2>1. Normalised(v.west) \in -180 .. 179 /\ Normalised(v.east) \in -180 .. 179
    BY <1>1, Normal
  <2> QED
    BY <2>1
<1>3. Rounded(v.zoom) \in Nat
  BY <1>1 DEF Rounded
<1> QED
  BY <1>2, <1>3 DEF Sent, Viewports

(* The cells of the viewport sent for less than half the globe are those   *)
(* the map shows, wherever the antimeridian is (viewport.go 24-88).        *)
LEMMA CellsShown ==
  ASSUME NEW v \in MapViews, Narrow(v)
  PROVE  ViewportToCells(Sent(v)) = Shown(v)
<1>1. v.west \in Int /\ v.east \in Int /\ v.west < v.east /\ v.east - v.west < 180
  BY MapViewsAssumption DEF Narrow
<1> DEFINE w == Normalised(v.west)
           e == Normalised(v.east)
<1>2. Sent(v) = [west |-> w, east |-> e, zoom |-> Rounded(v.zoom)]
  BY <1>1 DEF Sent
<1>3. /\ w \in -180 .. 179 /\ e \in -180 .. 179
      /\ \E k \in Int : v.west = w + 360 * k
      /\ \E k \in Int : v.east = e + 360 * k
  <2>1. w \in -180 .. 179 /\ \E k \in Int : v.west = w + 360 * k
    BY <1>1, Normal
  <2>2. e \in -180 .. 179 /\ \E k \in Int : v.east = e + 360 * k
    BY <1>1, Normal
  <2> QED
    BY <2>1, <2>2
<1> HIDE DEF w, e
<1>4. PICK a \in Int : v.west = w + 360 * a
  BY <1>3
<1>5. PICK b \in Int : v.east = e + 360 * b
  BY <1>3
<1>6. Sent(v).west = w /\ Sent(v).east = e
  BY <1>2
<1>7. \A x \in Longitudes : x \in -180 .. 179
  BY LongitudesAssumption
<1>8. \A x \in Longitudes :
        x \in Shown(v) <=> \E k \in Int : v.west <= x + 360 * k /\ x + 360 * k <= v.east
  <2>1. PICK p \in Int, m \in 0 .. 359 :
          v.west = 360 * p + m /\ p = v.west \div 360 /\ m = v.west % 360
    BY <1>1, Divided
  <2>2. PICK q \in Int, n \in 0 .. 359 :
          v.east = 360 * q + n /\ q = v.east \div 360 /\ n = v.east % 360
    BY <1>1, Divided
  <2>3. \A x \in Longitudes : x \in Shown(v) <=>
          \E k \in p - 1 .. q + 1 : v.west <= x + 360 * k /\ x + 360 * k <= v.east
    BY <2>1, <2>2 DEF Shown
  <2>4. ASSUME NEW x \in Longitudes, NEW k \in Int,
               v.west <= x + 360 * k, x + 360 * k <= v.east
        PROVE  k \in p - 1 .. q + 1
    BY <1>1, <1>7, <2>1, <2>2, <2>4
  <2> QED
    BY <2>3, <2>4
<1>9. CASE w > e
  <2>1. b = a + 1 /\ w > 0 /\ e < 0
    BY <1>1, <1>3, <1>4, <1>5, <1>9
  <2>2. ViewportToCells(Sent(v)) = {x \in Longitudes : w <= x \/ x <= e}
    BY <1>3, <1>6, <1>7, <1>9, <2>1 DEF ViewportToCells, Polygon
  <2>3. ASSUME NEW x \in Longitudes
        PROVE  (\E k \in Int : v.west <= x + 360 * k /\ x + 360 * k <= v.east) <=> w <= x \/ x <= e
    <3>1. ASSUME w <= x PROVE v.west <= x + 360 * a /\ x + 360 * a <= v.east
      BY <1>3, <1>4, <1>5, <1>7, <2>1, <3>1
    <3>2. ASSUME x <= e PROVE v.west <= x + 360 * b /\ x + 360 * b <= v.east
      BY <1>3, <1>4, <1>5, <1>7, <2>1, <3>2
    <3>3. ASSUME NEW k \in Int, v.west <= x + 360 * k, x + 360 * k <= v.east PROVE w <= x \/ x <= e
      BY <1>3, <1>4, <1>5, <1>7, <2>1, <3>3
    <3> QED
      BY <3>1, <3>2, <3>3
  <2>4. \A x \in Longitudes : x \in ViewportToCells(Sent(v)) <=> x \in Shown(v)
    BY <1>8, <2>2, <2>3
  <2>5. Shown(v) \subseteq Longitudes /\ ViewportToCells(Sent(v)) \subseteq Longitudes
    BY <2>2 DEF Shown
  <2> QED
    BY <2>4, <2>5
<1>10. CASE ~(w > e)
  <2>1. b = a /\ e - w < 180
    BY <1>1, <1>3, <1>4, <1>5, <1>10
  <2>2. ViewportToCells(Sent(v)) = {x \in Longitudes : w <= x /\ x <= e}
    BY <1>3, <1>6, <1>10, <2>1 DEF ViewportToCells, Polygon
  <2>3. ASSUME NEW x \in Longitudes
        PROVE  (\E k \in Int : v.west <= x + 360 * k /\ x + 360 * k <= v.east) <=> w <= x /\ x <= e
    <3>1. ASSUME w <= x, x <= e PROVE v.west <= x + 360 * a /\ x + 360 * a <= v.east
      BY <1>3, <1>4, <1>5, <1>7, <2>1, <3>1
    <3>2. ASSUME NEW k \in Int, v.west <= x + 360 * k, x + 360 * k <= v.east PROVE w <= x /\ x <= e
      BY <1>3, <1>4, <1>5, <1>7, <2>1, <3>2
    <3> QED
      BY <3>1, <3>2
  <2>4. \A x \in Longitudes : x \in ViewportToCells(Sent(v)) <=> x \in Shown(v)
    BY <1>8, <2>2, <2>3
  <2>5. Shown(v) \subseteq Longitudes /\ ViewportToCells(Sent(v)) \subseteq Longitudes
    BY <2>2 DEF Shown
  <2> QED
    BY <2>4, <2>5
<1> QED
  BY <1>9, <1>10
-----------------------------------------------------------------------------
(* Versions, without the choice of their domain.                           *)
LEMMA InVersions ==
  ASSUME NEW f
  PROVE  f \in Versions <=>
           /\ DOMAIN f \subseteq EntityIDs /\ f = [id \in DOMAIN f |-> f[id]]
           /\ \A id \in DOMAIN f : f[id] \in 1 .. MaxEvents
<1>1. ASSUME f \in Versions
      PROVE  /\ DOMAIN f \subseteq EntityIDs /\ f = [id \in DOMAIN f |-> f[id]]
             /\ \A id \in DOMAIN f : f[id] \in 1 .. MaxEvents
  <2>1. PICK S \in SUBSET EntityIDs : f \in [S -> 1 .. MaxEvents]
    BY <1>1 DEF Versions
  <2> QED
    BY <2>1
<1>2. ASSUME DOMAIN f \subseteq EntityIDs, f = [id \in DOMAIN f |-> f[id]],
             \A id \in DOMAIN f : f[id] \in 1 .. MaxEvents
      PROVE  f \in Versions
  <2>1. f \in [DOMAIN f -> 1 .. MaxEvents] /\ DOMAIN f \in SUBSET EntityIDs
    BY <1>2
  <2> QED
    BY <2>1 DEF Versions
<1> QED
  BY <1>1, <1>2

(* What a message read does to a queue.                                    *)
LEMMA TailOf ==
  ASSUME NEW S, NEW s \in Seq(S), s # <<>>
  PROVE  /\ Tail(s) \in Seq(S) /\ Head(s) \in S /\ Head(s) = s[1] /\ 1 \in DOMAIN s
         /\ \A i \in DOMAIN Tail(s) : i \in Nat /\ i + 1 \in DOMAIN s /\ Tail(s)[i] = s[i + 1]
         /\ \A i \in DOMAIN s : i \in Nat /\ (i = 1 \/ (i - 1 \in DOMAIN Tail(s) /\ 1 < i))
  BY EmptySeq

(* What a message sent does to it.                                         *)
LEMMA AppendTo ==
  ASSUME NEW S, NEW s \in Seq(S), NEW e \in S
  PROVE  /\ Append(s, e) \in Seq(S)
         /\ DOMAIN Append(s, e) = DOMAIN s \cup {Len(s) + 1}
         /\ \A i \in DOMAIN s : i \in Nat /\ Append(s, e)[i] = s[i] /\ i < Len(s) + 1
         /\ Append(s, e)[Len(s) + 1] = e /\ Len(s) + 1 \in Nat
  OBVIOUS

(* Nothing is in the empty function. *)
LEMMA EmptyIs == Empty \in Versions /\ DOMAIN Empty = {}
<1>1. DOMAIN Empty = {} /\ Empty = [id \in DOMAIN Empty |-> Empty[id]]
  BY DEF Empty
<1> QED
  BY <1>1, InVersions

(* The client the server begins with. *)
LEMMA IdleIs == NoViewport \in Viewports /\ Idle \in Job
<1>1. NoViewport \in Viewports
  BY DEF NoViewport, Viewports
<1> QED
  BY <1>1, EmptyIs DEF Idle, Job

(* What the server answers has the world's versions.                       *)
LEMMA VisibleIs ==
  ASSUME TypeOK, Messages, Dated, NEW at \in Viewports
  PROVE  /\ Visible(at) \in Versions
         /\ DOMAIN Visible(at) =
              IF at.zoom < 5 THEN {} ELSE EntitiesAt(ViewportToCells(at))
         /\ \A id \in DOMAIN Visible(at) : Visible(at)[id] = world[id].version
<1>1. DOMAIN world \subseteq EntityIDs /\ \A id \in DOMAIN world : world[id].version \in 1 .. MaxEvents
  <2>1. DOMAIN world \subseteq EntityIDs /\ events \in 0 .. MaxEvents
    BY DEF TypeOK, Messages
  <2> QED
    BY <2>1, BoundsAssumption DEF Dated
<1>2. CASE at.zoom < 5
  <2>1. Visible(at) = Empty
    BY <1>2 DEF Visible, onlyClusters
  <2> QED
    BY <1>2, <2>1, EmptyIs
<1>3. CASE ~(at.zoom < 5)
  <2>1. /\ DOMAIN Visible(at) = EntitiesAt(ViewportToCells(at))
        /\ Visible(at) = [id \in EntitiesAt(ViewportToCells(at)) |-> world[id].version]
        /\ EntitiesAt(ViewportToCells(at)) \subseteq DOMAIN world
    BY <1>3 DEF Visible, onlyClusters, VersionsOf, EntitiesAt
  <2> HIDE DEF Visible
  <2> QED
    BY <1>1, <1>3, <2>1, InVersions
<1> QED
  BY <1>2, <1>3

(* A delta says how a query's data differ from seen, and one thing of      *)
(* each entity.                                                            *)
LEMMA DeltaIs ==
  ASSUME NEW now \in Versions, seen \in Versions
  PROVE  /\ Delta(now) \in Deltas
         /\ \A id : id \in DOMAIN Delta(now).added <=> id \in DOMAIN now /\ id \notin DOMAIN seen
         /\ \A id : id \in DOMAIN Delta(now).updated <=>
                      id \in DOMAIN now /\ id \in DOMAIN seen /\ now[id] > seen[id]
         /\ \A id : id \in Delta(now).removed <=> id \in DOMAIN seen /\ id \notin DOMAIN now
         /\ \A id : Gives(Delta(now), id) => Given(Delta(now), id) = now[id]
<1> DEFINE A == DOMAIN now \ DOMAIN seen
           U == {id \in DOMAIN now \cap DOMAIN seen : now[id] > seen[id]}
           R == DOMAIN seen \ DOMAIN now
           d == Delta(now)
<1>1. /\ d = [added |-> [id \in A |-> now[id]], updated |-> [id \in U |-> now[id]], removed |-> R]
  BY DEF Delta, Newer, OnlyIn
<1>2. /\ d.added = [id \in A |-> now[id]] /\ d.updated = [id \in U |-> now[id]] /\ d.removed = R
  BY <1>1
<1>3. /\ DOMAIN now \subseteq EntityIDs /\ DOMAIN seen \subseteq EntityIDs
      /\ \A id \in DOMAIN now : now[id] \in 1 .. MaxEvents
  BY InVersions
<1>4. d.added \in Versions /\ d.updated \in Versions
  <2>1. /\ DOMAIN d.added = A /\ DOMAIN d.updated = U
        /\ \A id \in A : d.added[id] = now[id]
        /\ \A id \in U : d.updated[id] = now[id]
        /\ d.added = [id \in DOMAIN d.added |-> d.added[id]]
        /\ d.updated = [id \in DOMAIN d.updated |-> d.updated[id]]
    BY <1>2
  <2> HIDE DEF d
  <2> QED
    BY <1>3, <2>1, InVersions
<1>5. d \in [added : Versions, updated : Versions, removed : SUBSET EntityIDs]
  <2> DEFINE a == [id \in A |-> now[id]]
             u == [id \in U |-> now[id]]
  <2>1. a \in Versions /\ u \in Versions /\ R \in SUBSET EntityIDs
    BY <1>2, <1>3, <1>4
  <2>2. d = [added |-> a, updated |-> u, removed |-> R]
    BY <1>1
  <2> HIDE DEF a, u, R, d
  <2> QED
    BY <2>1, <2>2
<1>6. /\ \A id : id \in DOMAIN d.added <=> id \in A
      /\ \A id : id \in DOMAIN d.updated <=> id \in U
      /\ \A id \in A : d.added[id] = now[id]
      /\ \A id \in U : d.updated[id] = now[id]
  BY <1>2
<1> HIDE DEF d
<1>7. d \in Deltas
  BY <1>2, <1>5, <1>6 DEF Deltas
<1>8. /\ \A id : id \in DOMAIN d.added <=> id \in DOMAIN now /\ id \notin DOMAIN seen
      /\ \A id : id \in DOMAIN d.updated <=>
                   id \in DOMAIN now /\ id \in DOMAIN seen /\ now[id] > seen[id]
      /\ \A id : id \in d.removed <=> id \in DOMAIN seen /\ id \notin DOMAIN now
  BY <1>2, <1>6
<1>9. \A id : Gives(d, id) => Given(d, id) = now[id]
  BY <1>6 DEF Gives, Given
<1> QED
  BY <1>7, <1>8, <1>9 DEF d

(* What the delta says of an entity is what seen says of it then, and what *)
(* it does not mention seen says as before.                                *)
LEMMA SeenIs ==
  ASSUME NEW now \in Versions, seen \in Versions
  PROVE  /\ SeenAfter(now) \in Versions /\ DOMAIN SeenAfter(now) = DOMAIN now
         /\ \A id : Gives(Delta(now), id) => Given(Delta(now), id) = SeenAfter(now)[id]
         /\ \A id : ~Says(Delta(now), id) =>
              /\ id \in DOMAIN now <=> id \in DOMAIN seen
              /\ id \in DOMAIN now => SeenAfter(now)[id] = seen[id]
<1> DEFINE after == SeenAfter(now)
<1>1. /\ DOMAIN after = DOMAIN now /\ after = [id \in DOMAIN after |-> after[id]]
      /\ \A id \in DOMAIN now :
           after[id] = IF id \in DOMAIN seen /\ ~(now[id] > seen[id]) THEN seen[id] ELSE now[id]
  BY DEF SeenAfter, Newer
<1>2. /\ DOMAIN now \subseteq EntityIDs /\ \A id \in DOMAIN now : now[id] \in 1 .. MaxEvents
      /\ \A id \in DOMAIN seen : seen[id] \in 1 .. MaxEvents
  BY InVersions
<1> HIDE DEF after
<1>3. \A id \in DOMAIN after : after[id] \in 1 .. MaxEvents
  BY <1>1, <1>2
<1>4. after \in Versions
  BY <1>1, <1>2, <1>3, InVersions
<1>5. /\ \A id : Gives(Delta(now), id) =>
           id \in DOMAIN now /\ Given(Delta(now), id) = now[id]
             /\ (id \in DOMAIN seen => now[id] > seen[id])
      /\ \A id : ~Says(Delta(now), id) =>
           /\ id \in DOMAIN now <=> id \in DOMAIN seen
           /\ id \in DOMAIN now => ~(now[id] > seen[id])
  BY DeltaIs DEF Gives, Says
<1>6. \A id : Gives(Delta(now), id) => Given(Delta(now), id) = after[id]
  BY <1>1, <1>5
<1>7. \A id : ~Says(Delta(now), id) =>
        /\ id \in DOMAIN now <=> id \in DOMAIN seen
        /\ id \in DOMAIN now => after[id] = seen[id]
  BY <1>1, <1>5
<1> QED
  BY <1>1, <1>4, <1>6, <1>7 DEF after

(* What the page's cache and the engine have after a delta.                *)
LEMMA AfterDelta ==
  ASSUME NEW f \in Versions, NEW d \in Deltas
  PROVE  /\ Marked(f, d) \in Versions /\ Targeted(f, d) \in Versions
         /\ \A id : id \in DOMAIN Marked(f, d) <=>
                      (id \in DOMAIN f \/ Gives(d, id)) /\ id \notin d.removed
         /\ \A id \in DOMAIN Marked(f, d) :
              Marked(f, d)[id] = IF Gives(d, id) THEN Given(d, id) ELSE f[id]
         /\ \A id : id \in DOMAIN Targeted(f, d) <=>
                      (id \in DOMAIN f \/ id \in DOMAIN d.added) /\ id \notin d.removed
         /\ \A id \in DOMAIN Targeted(f, d) :
              Targeted(f, d)[id] = IF Gives(d, id) THEN Given(d, id) ELSE f[id]
<1>1. /\ d.added \in Versions /\ d.updated \in Versions /\ d.removed \subseteq EntityIDs
      /\ DOMAIN d.added \cap DOMAIN d.updated = {}
  BY DEF Deltas
<1>2. /\ DOMAIN f \subseteq EntityIDs /\ \A id \in DOMAIN f : f[id] \in 1 .. MaxEvents
      /\ DOMAIN d.added \subseteq EntityIDs /\ \A id \in DOMAIN d.added : d.added[id] \in 1 .. MaxEvents
      /\ DOMAIN d.updated \subseteq EntityIDs
      /\ \A id \in DOMAIN d.updated : d.updated[id] \in 1 .. MaxEvents
  BY <1>1, InVersions
<1> DEFINE M == (DOMAIN f \cup DOMAIN d.added \cup DOMAIN d.updated) \ d.removed
           T == (DOMAIN f \cup DOMAIN d.added) \ d.removed
           value(id) == IF Gives(d, id) THEN Given(d, id) ELSE f[id]
<1>3. Marked(f, d) = [id \in M |-> value(id)]
  BY <1>1 DEF Marked, Gives, Given
<1>4. Targeted(f, d) = [id \in T |-> value(id)]
  BY <1>1 DEF Targeted, Gives, Given
<1>5. \A id \in M : value(id) \in 1 .. MaxEvents
  BY <1>2 DEF Gives, Given
<1>6. M \subseteq EntityIDs /\ T \subseteq M
  BY <1>2
<1> HIDE DEF value
<1>7. /\ DOMAIN Marked(f, d) = M /\ \A id \in M : Marked(f, d)[id] = value(id)
      /\ Marked(f, d) = [id \in DOMAIN Marked(f, d) |-> Marked(f, d)[id]]
  BY <1>3
<1>8. /\ DOMAIN Targeted(f, d) = T /\ \A id \in T : Targeted(f, d)[id] = value(id)
      /\ Targeted(f, d) = [id \in DOMAIN Targeted(f, d) |-> Targeted(f, d)[id]]
  BY <1>4
<1>9. Marked(f, d) \in Versions
  BY <1>5, <1>6, <1>7, InVersions
<1>10. Targeted(f, d) \in Versions
  BY <1>5, <1>6, <1>8, InVersions
<1> QED
  BY <1>7, <1>8, <1>9, <1>10 DEF value, Gives

-----------------------------------------------------------------------------
(* The types of the page and of what is under way, where a step leaves     *)
(* them or gives them anew.                                                *)
LEMMA Typed ==
  ASSUME ws' \in {"connecting", "open", "closed"}, mapView' \in MapViews,
         markers' \in Versions, targets' \in Versions, seen' \in Versions,
         ghosts' \subseteq DOMAIN targets',
         uplink' \in Seq(Viewports), viewport' \in Viewports, jobs' \in [Goroutines -> Job],
         recent' \in BOOLEAN, dropped' \in BOOLEAN, event' \in BOOLEAN,
         ws' # "open" => /\ uplink' = <<>> /\ wire' = <<>> /\ viewport' = NoViewport
                         /\ seen' = Empty /\ \A g \in Goroutines : jobs'[g] = Idle,
         DOMAIN world' \subseteq EntityIDs
  PROVE  TypeOK'
<1>1. \A i \in DOMAIN uplink' : uplink'[i] \in Viewports
  OBVIOUS
<1> QED
  BY <1>1 DEF TypeOK

(* What a step relies on.                                                  *)
LEMMA Before ==
  ASSUME IInv
  PROVE  /\ ws \in {"connecting", "open", "closed"} /\ mapView \in MapViews
         /\ markers \in Versions /\ targets \in Versions /\ seen \in Versions
         /\ ghosts \subseteq DOMAIN targets
         /\ uplink \in Seq(Viewports) /\ viewport \in Viewports
         /\ jobs \in [Goroutines -> Job]
         /\ recent \in BOOLEAN /\ dropped \in BOOLEAN /\ event \in BOOLEAN
         /\ ws # "open" => /\ uplink = <<>> /\ wire = <<>> /\ viewport = NoViewport /\ seen = Empty
                           /\ \A g \in Goroutines : jobs[g] = Idle
         /\ DOMAIN world \subseteq EntityIDs
         /\ wire \in Seq(Deltas) /\ events \in 0 .. MaxEvents
  BY DEF IInv, TypeOK, Messages

(* The world changes: the page and the connection do not notice.           *)
LEMMA WorldInv ==
  ASSUME IInv, NEW id \in EntityIDs,
         Evict(id) \/ \E lng \in Longitudes : Report(id, lng)
  PROVE  IInv'
<1>1. /\ events < MaxEvents /\ events' = events + 1 /\ event' = TRUE
      /\ UNCHANGED <<ws, mapView, markers, targets, ghosts, uplink, wire, viewport, seen, recent,
                     jobs, dropped>>
  BY DEF Evict, Report, Happens, page, link, client
<1>2. events' \in 0 .. MaxEvents /\ events < events'
  BY <1>1, Before, BoundsAssumption
<1>3. /\ DOMAIN world' \subseteq EntityIDs
      /\ \A x \in DOMAIN world' :
           \/ world'[x].version = events'
           \/ x \in DOMAIN world /\ world'[x] = world[x]
  <2>1. CASE Evict(id)
    BY <2>1, Before DEF Evict, OnlyIn
  <2>2. CASE \E lng \in Longitudes : Report(id, lng)
    BY <1>1, <2>2, Before DEF Report
  <2> QED
    BY <2>1, <2>2
<1>4. Dated'
  BY <1>1, <1>2, <1>3, Before DEF Dated, IInv
<1>5. TypeOK'
  BY <1>1, <1>3, Before, Typed
<1>6. Messages' /\ DrawnIsKnown' /\ Following'
  BY <1>1, <1>2, Before DEF IInv, Messages, DrawnIsKnown, Following, Known, Told, Updatable
<1> QED
  BY <1>4, <1>5, <1>6 DEF IInv

(* The map is moved: a viewport is sent if there is a connection.          *)
LEMMA MoveInv ==
  ASSUME IInv, NEW v \in MapViews, MoveMap(v)
  PROVE  IInv'
<1>1. /\ events < MaxEvents /\ events' = events + 1 /\ mapView' = v
      /\ IF ws = "open" THEN uplink' = Append(uplink, Sent(v)) ELSE uplink' = uplink
      /\ UNCHANGED <<ws, markers, targets, ghosts, wire, viewport, seen, recent, jobs, dropped,
                     event, world>>
  BY DEF MoveMap, Happens, page, client
<1>2. events' \in 0 .. MaxEvents /\ events < events'
  BY <1>1, Before, BoundsAssumption
<1>3. Append(uplink, Sent(v)) \in Seq(Viewports)
  BY Before, SentIs
<1>4. uplink' \in Seq(Viewports) /\ (ws' # "open" => uplink' = <<>>)
  BY <1>1, <1>3, Before
<1>5. TypeOK'
  BY <1>1, <1>4, Before, Typed
<1>6. \A x \in DOMAIN world : world[x].version \in 1 .. events'
  BY <1>2, Before DEF IInv, Dated
<1>7. Dated'
  BY <1>1, <1>6 DEF Dated
<1>8. Messages' /\ DrawnIsKnown' /\ Following'
  BY <1>1, <1>2, <1>4, Before
     DEF IInv, Messages, DrawnIsKnown, Following, Known, Told, Updatable
<1> QED
  BY <1>5, <1>7, <1>8 DEF IInv

(* A connection begins or ends: seen and all messages go, and the page     *)
(* keeps what it shows.                                                    *)
LEMMA ConnectInv ==
  ASSUME IInv, Open \/ Close \/ Reconnect
  PROVE  IInv'
<1>1. /\ ws' \in {"connecting", "open", "closed"}
      /\ wire' = <<>> /\ viewport' = NoViewport /\ seen' = Empty
      /\ jobs' \in [Goroutines -> Job] /\ \A g \in Goroutines : jobs'[g] = Idle
      /\ recent' \in BOOLEAN /\ dropped' \in BOOLEAN /\ event' = event
      /\ uplink' = IF ws' = "open" THEN <<Sent(mapView)>> ELSE <<>>
      /\ UNCHANGED <<mapView, markers, targets, world>>
      /\ ghosts' = IF ws' = "open" THEN DOMAIN targets ELSE ghosts
  BY Before, IdleIs DEF Open, Close, Reconnect, NewClient, Greeting, page, link, client
<1>2. events' \in 0 .. MaxEvents /\ events <= events'
  BY Before, BoundsAssumption DEF Open, Close, Reconnect, Happens
<1>3. /\ uplink' \in Seq(Viewports) /\ wire' \in Seq(Deltas) /\ viewport' \in Viewports
      /\ ghosts' \subseteq DOMAIN targets'
  <2>1. <<>> \in Seq(Viewports) /\ <<>> \in Seq(Deltas) /\ <<Sent(mapView)>> \in Seq(Viewports)
    BY Before, SentIs
  <2> QED
    BY <1>1, <2>1, Before, IdleIs
<1>4. TypeOK'
  BY <1>1, <1>3, Before, EmptyIs, Typed
<1>5. Messages' /\ DrawnIsKnown'
  BY <1>1, <1>2, <1>3 DEF IInv, Messages, DrawnIsKnown
<1>6. Dated'
  <2>1. \A x \in DOMAIN world : world[x].version \in 1 .. events'
    BY <1>2, Before DEF IInv, Dated
  <2> QED
    BY <1>1, <2>1 DEF Dated
<1>7. Following'
  <2>1. DOMAIN wire' = {}
    BY <1>1
  <2>2. Told' /\ Updatable'
    BY <2>1 DEF Told, Updatable
  <2>3. ws' = "open" => Known'
    BY <1>1, EmptyIs DEF Known
  <2> QED
    BY <2>2, <2>3 DEF Following
<1> QED
  BY <1>4, <1>5, <1>6, <1>7 DEF IInv

(* The server takes a viewport.                                            *)
LEMMA TakeInv ==
  ASSUME IInv, TakeViewport
  PROVE  IInv'
<1>1. /\ uplink # <<>> /\ viewport' = Head(uplink) /\ uplink' = Tail(uplink)
      /\ jobs' = Started("handler", "query", Head(uplink))
      /\ UNCHANGED <<ws, mapView, markers, targets, ghosts, wire, seen, recent, dropped, event,
                     world, events>>
  BY DEF TakeViewport, page
<1>2. viewport' \in Viewports /\ uplink' \in Seq(Viewports) /\ ws = "open"
  BY <1>1, Before, TailOf
<1>3. jobs' \in [Goroutines -> Job]
  BY <1>1, <1>2, Before, EmptyIs DEF Started, Job
<1>4. TypeOK'
  BY <1>1, <1>2, <1>3, Before, Typed
<1>5. Messages' /\ Dated' /\ DrawnIsKnown' /\ Following'
  BY <1>1, <1>2, Before
     DEF IInv, Messages, Dated, DrawnIsKnown, Following, Known, Told, Updatable
<1> QED
  BY <1>4, <1>5 DEF IInv

(* The broadcast goroutine begins, a query is answered, time passes, or a  *)
(* poll changes nothing: only the server's own state changes.              *)
LEMMA QuietInv ==
  ASSUME IInv, Sweep \/ Filter \/ (\E g \in Goroutines : Query(g)) \/ Elapse \/ Poll
  PROVE  IInv'
<1>1. UNCHANGED <<ws, mapView, markers, targets, ghosts, uplink, wire, viewport, seen, dropped,
                  world, events>>
  BY DEF Sweep, Filter, Query, Elapse, Poll, outside, page, link, client
<1>2. recent' \in BOOLEAN /\ event' \in BOOLEAN
  BY Before DEF Sweep, Filter, Query, Elapse, Poll, link, client
<1>3. /\ jobs' \in [Goroutines -> Job]
      /\ ws # "open" => \A g \in Goroutines : jobs'[g] = Idle
  <2>1. CASE Sweep
    <3>1. CASE ws = "open"
      <4>1. jobs' = Started("broadcast", "filter", viewport)
        BY <2>1, <3>1 DEF Sweep
      <4> QED
        BY <3>1, <4>1, Before, EmptyIs DEF Started, Job
    <3>2. CASE ws # "open"
      BY <2>1, <3>2, Before DEF Sweep
    <3> QED
      BY <3>1, <3>2
  <2>2. ASSUME NEW g \in Goroutines, Query(g)
        PROVE  /\ jobs' \in [Goroutines -> Job]
               /\ ws # "open" => \A h \in Goroutines : jobs'[h] = Idle
    <3>1. jobs[g].view \in Viewports /\ jobs[g].at = "query"
      BY <2>2, Before DEF Query, Job
    <3>2. Visible(jobs[g].view) \in Versions
      BY <3>1, VisibleIs DEF IInv
    <3>3. [at |-> "push", view |-> NoViewport, found |-> Visible(jobs[g].view)] \in Job
      BY <3>2, IdleIs DEF Job
    <3>4. jobs' \in [Goroutines -> Job]
      BY <2>2, <3>3, Before DEF Query
    <3>5. ws = "open"
      BY <3>1, Before DEF Idle
    <3> QED
      BY <3>4, <3>5
  <2>3. CASE Filter
    <3>1. jobs["broadcast"] \in Job /\ jobs["broadcast"].at = "filter" /\ Idle \in Job
      BY <2>3, Before, IdleIs DEF Filter, Goroutines
    <3>2. [at |-> "query", view |-> jobs["broadcast"].view, found |-> Empty] \in Job
      BY <3>1, EmptyIs DEF Job
    <3>3. jobs' \in [Goroutines -> Job]
      BY <2>3, <3>1, <3>2, Before DEF Filter, Started
    <3>4. ws = "open"
      BY <3>1, Before DEF Idle, Goroutines
    <3> QED
      BY <3>3, <3>4
  <2>4. CASE Elapse \/ Poll
    BY <2>4, Before DEF Elapse, Poll, link, client
  <2> QED
    BY <2>1, <2>2, <2>3, <2>4
<1>4. TypeOK'
  BY <1>1, <1>2, <1>3, Before, Typed
<1>5. Messages' /\ Dated' /\ DrawnIsKnown' /\ Following'
  BY <1>1, Before DEF IInv, Messages, Dated, DrawnIsKnown, Following, Known, Told, Updatable
<1> QED
  BY <1>4, <1>5 DEF IInv

-----------------------------------------------------------------------------
(* What a push does but for the delta, which is sent, dropped or empty.    *)
LEMMA SeenInv ==
  ASSUME IInv, NEW g \in Goroutines, Push(g)
  PROVE  /\ TypeOK' /\ Dated' /\ DrawnIsKnown'
         /\ ws = "open" /\ jobs[g].found \in Versions
         /\ UNCHANGED <<ws, targets, ghosts, uplink, events>>
<1> DEFINE found == jobs[g].found
<1>1. /\ jobs[g].at = "push" /\ seen' = SeenAfter(found)
      /\ jobs' = [jobs EXCEPT ![g] = Idle]
      /\ recent' \in {recent, TRUE} /\ dropped' \in {dropped, TRUE}
      /\ UNCHANGED <<ws, mapView, markers, targets, ghosts, uplink, viewport, event, world, events>>
  BY DEF Push, outside, page
<1>2. found \in Versions
  BY Before DEF Job
<1>3. ws = "open"
  BY <1>1, Before DEF Idle
<1>4. seen' \in Versions
  BY <1>1, <1>2, Before, SeenIs
<1>5. jobs' \in [Goroutines -> Job]
  BY <1>1, Before, IdleIs
<1>6. recent' \in BOOLEAN /\ dropped' \in BOOLEAN
  BY <1>1, Before
<1>7. TypeOK'
  BY <1>1, <1>3, <1>4, <1>5, <1>6, Before, Typed
<1>8. Dated' /\ DrawnIsKnown'
  BY <1>1 DEF IInv, Dated, DrawnIsKnown
<1> QED
  BY <1>1, <1>2, <1>3, <1>7, <1>8

(* The server drops a delta after recording it in seen.                    *)
LEMMA DropInv ==
  ASSUME IInv, NEW g \in Goroutines, Push(g), dropped', wire' = wire
  PROVE  IInv'
<1>1. TypeOK' /\ Dated' /\ DrawnIsKnown' /\ UNCHANGED <<uplink, events>>
  BY SeenInv
<1>2. Messages' /\ Following'
  BY <1>1, Before DEF Messages, Following
<1> QED
  BY <1>1, <1>2 DEF IInv

(* The server has nothing to say of any entity.                            *)
LEMMA NothingInv ==
  ASSUME IInv, NEW g \in Goroutines, Push(g), Delta(jobs[g].found) = NoDelta
  PROVE  IInv'
<1> DEFINE found == jobs[g].found
<1>1. /\ TypeOK' /\ Dated' /\ DrawnIsKnown' /\ found \in Versions
      /\ UNCHANGED <<ws, targets, ghosts, uplink, events>>
  BY SeenInv
<1>2. seen' = SeenAfter(found) /\ wire' = wire /\ dropped' = dropped
  BY DEF Push
<1>3. \A id : ~Says(Delta(found), id)
  BY EmptyIs DEF NoDelta, Says, Gives
<1> HIDE DEF found
<1>4. /\ DOMAIN seen' = DOMAIN found
      /\ \A id : id \in DOMAIN found <=> id \in DOMAIN seen
      /\ \A id \in DOMAIN found : seen'[id] = seen[id]
  BY <1>1, <1>2, <1>3, Before, SeenIs
<1>5. Messages'
  BY <1>1, <1>2, Before DEF Messages
<1>6. Following'
  <2> SUFFICES ASSUME ws = "open", ~dropped PROVE Known' /\ Told' /\ Updatable'
    BY <1>1, <1>2 DEF Following
  <2>1. Known /\ Told /\ Updatable
    BY DEF IInv, Following
  <2> QED
    BY <1>1, <1>2, <1>4, <2>1 DEF Known, Told, Updatable
<1> QED
  BY <1>1, <1>5, <1>6 DEF IInv

(* The server sends a delta: it says of every entity it mentions what is   *)
(* seen now, and of the others seen says what it said.                     *)
LEMMA SendInv ==
  ASSUME IInv, NEW g \in Goroutines, Push(g), wire' = Append(wire, Delta(jobs[g].found)),
         dropped' = dropped
  PROVE  IInv'
<1> DEFINE found == jobs[g].found
           now == SeenAfter(found)
           d == Delta(found)
           n == Len(wire) + 1
<1>1. /\ wire' = Append(wire, d) /\ seen' = now /\ ws = "open" /\ found \in Versions
      /\ UNCHANGED <<ws, targets, ghosts, uplink, dropped, events>>
  BY SeenInv DEF Push
<1>2. TypeOK' /\ Dated' /\ DrawnIsKnown'
  BY SeenInv
<1> HIDE DEF found
<1>3. /\ d \in Deltas
      /\ \A id : id \in DOMAIN d.added <=> id \in DOMAIN found /\ id \notin DOMAIN seen
      /\ \A id : id \in DOMAIN d.updated <=>
                   id \in DOMAIN found /\ id \in DOMAIN seen /\ found[id] > seen[id]
      /\ \A id : id \in d.removed <=> id \in DOMAIN seen /\ id \notin DOMAIN found
  BY <1>1, Before, DeltaIs
<1>4. /\ DOMAIN now = DOMAIN found
      /\ \A id : Gives(d, id) => Given(d, id) = now[id]
      /\ \A id : ~Says(d, id) =>
           /\ id \in DOMAIN now <=> id \in DOMAIN seen
           /\ id \in DOMAIN now => now[id] = seen[id]
  BY <1>1, Before, SeenIs
<1> HIDE DEF d, now
<1>5. /\ wire' \in Seq(Deltas) /\ DOMAIN wire' = DOMAIN wire \cup {n} /\ n \in Nat
      /\ \A i \in DOMAIN wire : i \in Nat /\ wire'[i] = wire[i] /\ i < n
      /\ wire'[n] = d
  BY <1>1, <1>3, Before, AppendTo
<1> HIDE DEF n
<1>6. Messages'
  BY <1>1, <1>5, Before DEF Messages
<1>7. CASE dropped
  BY <1>1, <1>2, <1>6, <1>7 DEF IInv, Following
<1>8. CASE ~dropped
  <2>1. Known /\ Told /\ Updatable
    BY <1>1, <1>8 DEF IInv, Following
  <2>2. Known'
    <3> SUFFICES ASSUME NEW id \in EntityIDs, \A i \in DOMAIN wire' : ~Says(wire'[i], id)
                 PROVE  IF id \in ghosts THEN id \notin DOMAIN now
                        ELSE /\ id \in DOMAIN targets <=> id \in DOMAIN now
                             /\ id \in DOMAIN targets => targets[id] = now[id]
      BY <1>1 DEF Known
    <3>1. ~Says(d, id) /\ \A i \in DOMAIN wire : ~Says(wire[i], id)
      BY <1>5
    <3> QED
      BY <1>4, <2>1, <3>1 DEF Known
  <2>3. Told'
    <3> SUFFICES ASSUME NEW id \in EntityIDs, NEW i \in DOMAIN wire', Says(wire'[i], id),
                        \A j \in DOMAIN wire' : i < j => ~Says(wire'[j], id)
                 PROVE  /\ Gives(wire'[i], id) <=> id \in DOMAIN now
                        /\ id \in DOMAIN now => Given(wire'[i], id) = now[id]
      BY <1>1 DEF Told
    <3>1. CASE i = n
      <4>1. Says(d, id) /\ wire'[i] = d
        BY <1>5, <3>1
      <4>2. Gives(d, id) <=> id \in DOMAIN now
        BY <1>3, <1>4, <4>1 DEF Gives, Says
      <4> QED
        BY <1>4, <4>1, <4>2
    <3>2. CASE i # n
      <4>1. i \in DOMAIN wire /\ wire'[i] = wire[i] /\ ~Says(d, id)
        BY <1>5, <3>2
      <4>2. \A j \in DOMAIN wire : i < j => ~Says(wire[j], id)
        BY <1>5
      <4> QED
        BY <1>4, <2>1, <4>1, <4>2 DEF Told
    <3> QED
      BY <3>1, <3>2
  <2>4. Updatable'
    <3> SUFFICES ASSUME NEW id \in EntityIDs, NEW i \in DOMAIN wire', id \in DOMAIN wire'[i].updated
                 PROVE  /\ (\A j \in DOMAIN wire' : j < i => ~Says(wire'[j], id)) => id \in DOMAIN targets
                        /\ \A j \in DOMAIN wire' :
                             /\ j < i /\ Says(wire'[j], id)
                             /\ \A k \in DOMAIN wire' : j < k /\ k < i => ~Says(wire'[k], id)
                             => Gives(wire'[j], id)
      BY <1>1 DEF Updatable
    <3>1. CASE i = n
      <4>1. id \in DOMAIN seen
        BY <1>3, <1>5, <3>1
      <4>2. ASSUME \A j \in DOMAIN wire' : j < i => ~Says(wire'[j], id)
            PROVE  id \in DOMAIN targets
        <5>1. \A j \in DOMAIN wire : ~Says(wire[j], id)
          BY <1>5, <3>1, <4>2
        <5> QED
          BY <2>1, <4>1, <5>1 DEF Known
      <4>3. ASSUME NEW j \in DOMAIN wire', j < i, Says(wire'[j], id),
                   \A k \in DOMAIN wire' : j < k /\ k < i => ~Says(wire'[k], id)
            PROVE  Gives(wire'[j], id)
        <5>1. j \in DOMAIN wire /\ wire'[j] = wire[j]
          BY <1>5, <3>1, <4>3
        <5>2. \A k \in DOMAIN wire : j < k => ~Says(wire[k], id)
          BY <1>5, <3>1, <4>3
        <5> QED
          BY <2>1, <4>1, <4>3, <5>1, <5>2 DEF Told
      <4> QED
        BY <4>2, <4>3
    <3>2. CASE i # n
      <4>1. i \in DOMAIN wire /\ id \in DOMAIN wire[i].updated
        BY <1>5, <3>2
      <4>2. \A j \in DOMAIN wire' : j < i => j \in DOMAIN wire /\ wire'[j] = wire[j]
        BY <1>5, <4>1
      <4>3. \A j \in DOMAIN wire : j \in DOMAIN wire' /\ wire'[j] = wire[j]
        BY <1>5
      <4> QED
        BY <2>1, <4>1, <4>2, <4>3 DEF Updatable
    <3> QED
      BY <3>1, <3>2
  <2> QED
    BY <1>2, <1>6, <2>2, <2>3, <2>4 DEF IInv, Following
<1> QED
  BY <1>7, <1>8

(* A push keeps the invariant, whoever makes it and from whatever query.   *)
LEMMA PushInv ==
  ASSUME IInv, NEW g \in Goroutines, Push(g)
  PROVE  IInv'
<1>1. \/ Delta(jobs[g].found) = NoDelta
      \/ wire' = Append(wire, Delta(jobs[g].found)) /\ dropped' = dropped
      \/ dropped' /\ wire' = wire
  BY DEF Push
<1> QED
  BY <1>1, NothingInv, SendInv, DropInv

-----------------------------------------------------------------------------
(* The page takes in a delta.                                              *)
LEMMA ReceiveInv ==
  ASSUME IInv, Receive
  PROVE  IInv'
<1> DEFINE d == Head(wire)
<1>1. /\ wire # <<>> /\ wire' = Tail(wire)
      /\ markers' = Marked(markers, d) /\ targets' = Targeted(targets, d)
      /\ ghosts' = ghosts \ (DOMAIN d.added \cup DOMAIN d.updated \cup d.removed)
      /\ UNCHANGED <<ws, mapView, uplink, viewport, seen, recent, jobs, dropped, event, world,
                     events>>
  BY DEF Receive, client
<1>2. /\ wire' \in Seq(Deltas) /\ d \in Deltas /\ d = wire[1] /\ 1 \in DOMAIN wire
      /\ \A i \in DOMAIN wire' : i \in Nat /\ i + 1 \in DOMAIN wire /\ wire'[i] = wire[i + 1]
      /\ \A i \in DOMAIN wire : i \in Nat /\ (i = 1 \/ (i - 1 \in DOMAIN wire' /\ 1 < i))
  BY <1>1, Before, TailOf
<1> HIDE DEF d
<1>3. /\ markers' \in Versions /\ targets' \in Versions
      /\ \A id : id \in DOMAIN markers' <=>
                   (id \in DOMAIN markers \/ Gives(d, id)) /\ id \notin d.removed
      /\ \A id \in DOMAIN markers' : markers'[id] = IF Gives(d, id) THEN Given(d, id) ELSE markers[id]
      /\ \A id : id \in DOMAIN targets' <=>
                   (id \in DOMAIN targets \/ id \in DOMAIN d.added) /\ id \notin d.removed
      /\ \A id \in DOMAIN targets' : targets'[id] = IF Gives(d, id) THEN Given(d, id) ELSE targets[id]
  <2>1. markers \in Versions /\ targets \in Versions
    BY Before
  <2>2. /\ Marked(markers, d) \in Versions
        /\ \A id : id \in DOMAIN Marked(markers, d) <=>
                     (id \in DOMAIN markers \/ Gives(d, id)) /\ id \notin d.removed
        /\ \A id \in DOMAIN Marked(markers, d) :
             Marked(markers, d)[id] = IF Gives(d, id) THEN Given(d, id) ELSE markers[id]
    BY <1>2, <2>1, AfterDelta
  <2>3. /\ Targeted(targets, d) \in Versions
        /\ \A id : id \in DOMAIN Targeted(targets, d) <=>
                     (id \in DOMAIN targets \/ id \in DOMAIN d.added) /\ id \notin d.removed
        /\ \A id \in DOMAIN Targeted(targets, d) :
             Targeted(targets, d)[id] = IF Gives(d, id) THEN Given(d, id) ELSE targets[id]
    BY <1>2, <2>1, AfterDelta
  <2> QED
    BY <1>1, <2>2, <2>3
<1>4. \A id : id \in ghosts' <=> id \in ghosts /\ ~Says(d, id)
  BY <1>1 DEF Says, Gives
<1>5. ghosts' \subseteq DOMAIN targets'
  BY <1>3, <1>4, Before DEF Says
<1>6. ws = "open"
  BY <1>1, Before
<1>7. TypeOK'
  BY <1>1, <1>3, <1>5, <1>6, Before, Typed
<1>8. Messages' /\ Dated'
  BY <1>1, <1>2, Before DEF IInv, Messages, Dated
<1>9. DrawnIsKnown'
  <2> SUFFICES ASSUME NEW id \in DOMAIN targets'
               PROVE  id \in DOMAIN markers' /\ markers'[id] = targets'[id]
    BY DEF DrawnIsKnown
  <2>1. id \in DOMAIN markers'
    BY <1>3 DEF IInv, DrawnIsKnown, Gives
  <2>2. Gives(d, id) \/ id \in DOMAIN targets
    BY <1>3 DEF Gives
  <2> QED
    BY <1>3, <2>1, <2>2 DEF IInv, DrawnIsKnown
<1>10. CASE dropped
  BY <1>1, <1>7, <1>8, <1>9, <1>10 DEF IInv, Following
<1>11. CASE ~dropped
  <2>1. Known /\ Told /\ Updatable
    BY <1>6, <1>11 DEF IInv, Following
  <2>2. /\ \A id \in EntityIDs : Says(d, id) =>
             (id \in DOMAIN targets' <=> Gives(d, id))
    <3> SUFFICES ASSUME NEW id \in EntityIDs, Says(d, id)
                 PROVE  id \in DOMAIN targets' <=> Gives(d, id)
      OBVIOUS
    <3>1. CASE id \in d.removed
      BY <1>2, <1>3, <3>1 DEF Deltas, Gives
    <3>2. CASE id \in DOMAIN d.updated
      <4>1. \A j \in DOMAIN wire : ~(j < 1)
        BY <1>2
      <4>2. id \in DOMAIN targets
        BY <1>2, <2>1, <3>2, <4>1 DEF Updatable
      <4>3. id \notin d.removed
        BY <1>2, <3>2 DEF Deltas
      <4> QED
        BY <1>3, <3>2, <4>2, <4>3 DEF Gives
    <3>3. CASE id \in DOMAIN d.added
      <4>1. id \notin d.removed
        BY <1>2, <3>3 DEF Deltas
      <4> QED
        BY <1>3, <3>3, <4>1 DEF Gives
    <3> QED
      BY <3>1, <3>2, <3>3 DEF Says, Gives
  <2>3. \A id : ~Says(d, id) =>
          /\ id \in DOMAIN targets' <=> id \in DOMAIN targets
          /\ id \in DOMAIN targets' => targets'[id] = targets[id]
    BY <1>3 DEF Says, Gives
  <2>4. Known'
    <3> SUFFICES ASSUME NEW id \in EntityIDs, \A i \in DOMAIN wire' : ~Says(wire'[i], id)
                 PROVE  IF id \in ghosts' THEN id \notin DOMAIN seen
                        ELSE /\ id \in DOMAIN targets' <=> id \in DOMAIN seen
                             /\ id \in DOMAIN targets' => targets'[id] = seen[id]
      BY <1>1 DEF Known
    <3>1. \A i \in DOMAIN wire : i # 1 => ~Says(wire[i], id)
      <4> SUFFICES ASSUME NEW i \in DOMAIN wire, i # 1 PROVE ~Says(wire[i], id)
        OBVIOUS
      <4>1. i - 1 \in DOMAIN wire' /\ wire'[i - 1] = wire[i]
        BY <1>2
      <4> QED
        BY <4>1
    <3>2. CASE Says(d, id)
      <4>1. \A j \in DOMAIN wire : 1 < j => ~Says(wire[j], id)
        BY <3>1
      <4>2. /\ Gives(d, id) <=> id \in DOMAIN seen
            /\ id \in DOMAIN seen => Given(d, id) = seen[id]
        BY <1>2, <2>1, <3>2, <4>1 DEF Told
      <4> QED
        BY <1>3, <1>4, <2>2, <3>2, <4>2
    <3>3. CASE ~Says(d, id)
      <4>1. \A i \in DOMAIN wire : ~Says(wire[i], id)
        BY <1>2, <3>1, <3>3
      <4> QED
        BY <1>4, <2>1, <2>3, <3>3, <4>1 DEF Known
    <3> QED
      BY <3>2, <3>3
  <2>5. Told'
    <3> SUFFICES ASSUME NEW id \in EntityIDs, NEW i \in DOMAIN wire', Says(wire'[i], id),
                        \A j \in DOMAIN wire' : i < j => ~Says(wire'[j], id)
                 PROVE  /\ Gives(wire'[i], id) <=> id \in DOMAIN seen
                        /\ id \in DOMAIN seen => Given(wire'[i], id) = seen[id]
      BY <1>1 DEF Told
    <3>1. i + 1 \in DOMAIN wire /\ wire'[i] = wire[i + 1]
      BY <1>2
    <3>2. ASSUME NEW j \in DOMAIN wire, i + 1 < j PROVE ~Says(wire[j], id)
      <4>1. j - 1 \in DOMAIN wire' /\ wire'[j - 1] = wire[j] /\ i < j - 1
        BY <1>2, <3>2
      <4> QED
        BY <4>1
    <3> QED
      BY <2>1, <3>1, <3>2 DEF Told
  <2>6. Updatable'
    <3> SUFFICES ASSUME NEW id \in EntityIDs, NEW i \in DOMAIN wire', id \in DOMAIN wire'[i].updated
                 PROVE  /\ (\A j \in DOMAIN wire' : j < i => ~Says(wire'[j], id)) => id \in DOMAIN targets'
                        /\ \A j \in DOMAIN wire' :
                             /\ j < i /\ Says(wire'[j], id)
                             /\ \A k \in DOMAIN wire' : j < k /\ k < i => ~Says(wire'[k], id)
                             => Gives(wire'[j], id)
      BY DEF Updatable
    <3>1. /\ i \in Nat /\ i + 1 \in DOMAIN wire /\ id \in DOMAIN wire[i + 1].updated
      BY <1>2
    <3>2. ASSUME \A j \in DOMAIN wire' : j < i => ~Says(wire'[j], id)
          PROVE  id \in DOMAIN targets'
      <4>1. ASSUME NEW k \in DOMAIN wire, 1 < k, k < i + 1 PROVE ~Says(wire[k], id)
        <5>1. k - 1 \in DOMAIN wire' /\ wire'[k - 1] = wire[k] /\ k - 1 < i
          BY <1>2, <3>1, <4>1
        <5> QED
          BY <3>2, <5>1
      <4>2. CASE Says(d, id)
        <5>1. 1 < i + 1
          <6>1. i # 0
            BY <1>2
          <6> QED
            BY <3>1, <6>1
        <5>2. Gives(wire[1], id)
          BY <1>2, <2>1, <3>1, <4>1, <4>2, <5>1 DEF Updatable
        <5> QED
          BY <1>2, <2>2, <4>2, <5>2
      <4>3. CASE ~Says(d, id)
        <5>1. \A j \in DOMAIN wire : j < i + 1 => ~Says(wire[j], id)
          BY <1>2, <4>1, <4>3
        <5>2. id \in DOMAIN targets
          BY <2>1, <3>1, <5>1 DEF Updatable
        <5> QED
          BY <2>3, <4>3, <5>2
      <4> QED
        BY <4>2, <4>3
    <3>3. ASSUME NEW j \in DOMAIN wire', j < i, Says(wire'[j], id),
                 \A k \in DOMAIN wire' : j < k /\ k < i => ~Says(wire'[k], id)
          PROVE  Gives(wire'[j], id)
      <4>1. /\ j \in Nat /\ j + 1 \in DOMAIN wire /\ wire'[j] = wire[j + 1] /\ j + 1 < i + 1
        BY <1>2, <3>1, <3>3
      <4>2. ASSUME NEW k \in DOMAIN wire, j + 1 < k, k < i + 1 PROVE ~Says(wire[k], id)
        <5>1. k - 1 \in DOMAIN wire' /\ wire'[k - 1] = wire[k] /\ j < k - 1 /\ k - 1 < i
          BY <1>2, <3>1, <4>1, <4>2
        <5> QED
          BY <3>3, <5>1
      <4>3. Gives(wire[j + 1], id)
        BY <2>1, <3>1, <3>3, <4>1, <4>2 DEF Updatable
      <4> QED
        BY <4>1, <4>3
    <3> QED
      BY <3>2, <3>3
  <2> QED
    BY <1>7, <1>8, <1>9, <2>4, <2>5, <2>6 DEF IInv, Following
<1> QED
  BY <1>10, <1>11

-----------------------------------------------------------------------------
(* At the start the page is empty and has no connection.                   *)
LEMMA InitInv == Init => IInv
<1> SUFFICES ASSUME Init PROVE IInv
  OBVIOUS
<1>1. /\ ws = "connecting" /\ mapView \in MapViews /\ markers = Empty /\ targets = Empty
      /\ ghosts = {} /\ uplink = <<>> /\ wire = <<>> /\ viewport = NoViewport /\ seen = Empty
      /\ recent = FALSE /\ dropped = FALSE /\ event = FALSE
      /\ jobs \in [Goroutines -> Job] /\ \A g \in Goroutines : jobs[g] = Idle
      /\ world = Empty /\ events = 0
  BY IdleIs DEF Init
<1>2. /\ uplink \in Seq(Viewports) /\ wire \in Seq(Deltas) /\ events \in 0 .. MaxEvents
  BY <1>1, BoundsAssumption
<1>3. TypeOK
  <2>1. DOMAIN uplink = {}
    BY <1>1
  <2> QED
    BY <1>1, <2>1, EmptyIs, IdleIs DEF TypeOK
<1>4. Messages /\ Dated /\ DrawnIsKnown /\ Following
  BY <1>1, <1>2, EmptyIs DEF Messages, Dated, DrawnIsKnown, Following
<1> QED
  BY <1>3, <1>4 DEF IInv

(* Every step keeps the invariant.                                         *)
LEMMA NextInv == IInv /\ [Next]_vars => IInv'
<1> SUFFICES ASSUME IInv, [Next]_vars PROVE IInv'
  OBVIOUS
<1>1. CASE UNCHANGED vars
  BY <1>1 DEF vars, page, link, client, IInv, TypeOK, Messages, Dated, DrawnIsKnown, Following,
              Known, Told, Updatable, EntitiesAt
<1>2. ASSUME NEW id \in EntityIDs, Evict(id) \/ \E lng \in Longitudes : Report(id, lng)
      PROVE  IInv'
  BY <1>2, WorldInv
<1>3. ASSUME NEW v \in MapViews, MoveMap(v) PROVE IInv'
  BY <1>3, MoveInv
<1>4. CASE Open \/ Close \/ Reconnect
  BY <1>4, ConnectInv
<1>5. CASE TakeViewport \/ Receive
  BY <1>5, TakeInv, ReceiveInv
<1>6. CASE Sweep \/ Filter \/ Elapse \/ Poll
  BY <1>6, QuietInv
<1>7. ASSUME NEW g \in Goroutines, Query(g) \/ Push(g) PROVE IInv'
  BY <1>7, QuietInv, PushInv
<1>8. "handler" \in Goroutines /\ "broadcast" \in Goroutines
  BY DEF Goroutines
<1> QED
  BY <1>1, <1>2, <1>3, <1>4, <1>5, <1>6, <1>7, <1>8 DEF Next, Browser, Handler, Broadcast

(* The page and its connection always satisfy the inductive invariant.     *)
THEOREM PageInvariant == Spec => []IInv
<1> QED
  BY InitInv, NextInv, PTL DEF Spec

(* TypeOK: the page asks for longitudes of the globe only, and nothing is  *)
(* under way without a connection (server.go 358-379, 425-437).            *)
THEOREM Typing == Spec => []TypeOK
<1>1. IInv => TypeOK
  BY DEF IInv
<1> QED
  BY <1>1, PageInvariant, PTL

(* DrawnIsKnown: whatever deltas were dropped and connections lost, every  *)
(* plane drawn can be clicked, and shows the version drawn (server.go      *)
(* 287-288, 409-421, lib.rs 70-100).                                       *)
THEOREM DrawnAreKnown == Spec => []DrawnIsKnown
<1>1. IInv => DrawnIsKnown
  BY DEF IInv
<1> QED
  BY <1>1, PageInvariant, PTL

(* ShowsView: once all messages are read, a map close enough for entities  *)
(* shows all that is in it, wherever on the globe it is, and one farther   *)
(* away shows none (server.go 381-423, index.go 304-387, viewport.go       *)
(* 24-88).                                                                 *)
THEOREM ViewIsShown == Spec => []ShowsView
<1>1. IInv => ShowsView
  <2> SUFFICES ASSUME IInv, CaughtUp, Detailed(mapView) => Narrow(mapView)
               PROVE  ShowsExpected /\ DOMAIN targets \ Expected \subseteq ghosts
    BY DEF ShowsView
  <2>1. DOMAIN wire = {} /\ Known
    BY DEF CaughtUp, IInv, Following
  <2>2. viewport \in Viewports /\ viewport.zoom = Rounded(mapView.zoom) /\ viewport.zoom \in Nat
    BY Before, SentIs DEF CaughtUp, Viewports
  <2>3. /\ DOMAIN seen = IF viewport.zoom < 5 THEN {} ELSE EntitiesAt(ViewportToCells(viewport))
        /\ \A id \in DOMAIN seen : seen[id] = world[id].version
        /\ DOMAIN seen \subseteq EntityIDs
    BY <2>2, VisibleIs, Before, InVersions DEF CaughtUp, IInv
  <2>4. DOMAIN seen = Expected
    <3>1. CASE Detailed(mapView)
      <4>1. ViewportToCells(viewport) = Shown(mapView)
        BY <3>1, Before, CellsShown DEF CaughtUp
      <4> QED
        BY <2>2, <2>3, <3>1, <4>1 DEF Expected, Detailed
    <3>2. CASE ~Detailed(mapView)
      BY <2>2, <2>3, <3>2 DEF Expected, Detailed
    <3> QED
      BY <3>1, <3>2
  <2>5. DOMAIN targets \subseteq EntityIDs
    BY Before, InVersions
  <2>6. \A id \in EntityIDs : IF id \in ghosts THEN id \notin DOMAIN seen
          ELSE /\ id \in DOMAIN targets <=> id \in DOMAIN seen
               /\ id \in DOMAIN targets => targets[id] = seen[id]
    BY <2>1 DEF Known
  <2>7. ShowsExpected
    BY <2>3, <2>4, <2>6 DEF ShowsExpected
  <2> QED
    BY <2>4, <2>5, <2>6, <2>7
<1> QED
  BY <1>1, PageInvariant, PTL
=============================================================================
