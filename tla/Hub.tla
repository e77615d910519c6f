-------------------------------- MODULE Hub --------------------------------
(***************************************************************************)
(* server/hub.go and the main loop of server/handler.go: one broadcast     *)
(* goroutine and, for each connection, a handler goroutine that answers    *)
(* viewport messages and writes deltas to the browser.                     *)
(*                                                                         *)
(* The steps are the stretches of code between two accesses to shared      *)
(* state: the hub's lock, a client's viewportMu, the index's lock, a       *)
(* client's channel.  The store is EntityFeed, which Store.tla implements. *)
(* A client is one connection.  A delta is what it says of each entity;    *)
(* its clusters only matter for whether it is sent at all.                 *)
(***************************************************************************)
EXTENDS EntityFeed, Sequences

CONSTANTS
  Clients,       \* connections
  Viewports,     \* viewports a browser asks for
  NoView,        \* the zero viewport of a client that has asked for none
  Covers,        \* [viewport -> the places it shows entities at]
  BadViewports   \* viewports the index answers with an error

Views == Viewports \cup {NoView}

ASSUME CoversAssumption == Covers \in [Views -> SUBSET Cells] /\ Covers[NoView] = {}
ASSUME BadViewportsAssumption == BadViewports \subseteq Viewports

VARIABLES
  \* Client and Hub
  clients,     \* h.clients
  viewport,    \* c.viewport
  seen,        \* c.seen: [entity -> version]
  lastPush,    \* "old": minPushInterval has elapsed since c.lastPush;
               \* else which function pushed last
  ch,          \* c.ch: at most one delta
  closed,      \* the clients whose c.ch is closed
  \* the handler goroutine of each client
  hpc,         \* "new", "idle", "query", "push", "write", "exit", "done"
  hres,        \* the result of its query
  out,         \* the delta it is writing
  \* the broadcast goroutine
  bpc,         \* "wait", "group", "regroup", "sweep", "query", "send"
  ungrouped,   \* clients of the snapshot still to be grouped
  first,       \* the client being grouped and its first GetViewport()
  groups,      \* groups: [viewport -> clients]
  group,       \* the viewport whose group is being served
  eligible,    \* eligible: clients still to be served
  bres,        \* the result of the group's query
  \* outside the program
  up,          \* the browser's end of the connection is open
  targets,     \* the browser's entities: [entity -> version]
  crashed,     \* the process has panicked; nothing runs any more
  \* history variables
  basis,       \* the viewport and poll the last computed delta came from
  broadcastTo, \* clients sent a broadcast less than minPushInterval ago
  dropped,     \* clients that had a delta dropped on a full channel
  due,         \* clients of the snapshot the sweep has not looked at
  moved        \* a viewport changed while the clients were being grouped

roster == <<clients, closed>>
pushVars == <<seen, lastPush, broadcastTo, ch>>
handlerVars == <<hpc, hres, out>>
groupVars == <<ungrouped, first, groups>>
serveVars == <<group, eligible, bres>>
sweepVars == <<bpc, groupVars, serveVars, due, moved>>
pageVars == <<up, targets, basis, dropped>>
vars == <<feedVars, roster, viewport, pushVars, handlerVars, sweepVars, pageVars, crashed>>

Empty == [id \in {} |-> 0]
NoBasis == [view |-> NoView, at |-> 0]
NoGroups == [v \in Views |-> {}]

(* The newest poll in the index. *)
Indexed == IF phase = "index" THEN seq - 1 ELSE seq

(* index.Query under the index's read lock.  There are clusters only if    *)
(* some entity is not shown.                                               *)
Visible(v) ==
  [id \in {e \in DOMAIN index : index[e].cell \in Covers[v]} |-> index[id].Version]

Result(v) ==
  [view |-> v, at |-> Indexed, visible |-> Visible(v),
   clusters |-> DOMAIN Visible(v) # DOMAIN index]

NoResult == [view |-> NoView, at |-> 0, visible |-> Empty, clusters |-> FALSE]

NoDelta == [Added |-> Empty, Updated |-> Empty, Removed |-> {}]

Init ==
  /\ FeedInit
  /\ clients = {}
  /\ viewport = [c \in Clients |-> NoView]
  /\ seen = [c \in Clients |-> Empty]
  /\ lastPush = [c \in Clients |-> "old"] /\ broadcastTo = {}
  /\ ch = [c \in Clients |-> <<>>]
  /\ closed = {}
  /\ hpc = [c \in Clients |-> "new"]
  /\ hres = [c \in Clients |-> NoResult]
  /\ out = [c \in Clients |-> NoDelta]
  /\ bpc = "wait" /\ ungrouped = {} /\ first = NoView /\ groups = NoGroups
  /\ group = NoView /\ eligible = {} /\ bres = NoResult
  /\ up = [c \in Clients |-> FALSE]
  /\ targets = [c \in Clients |-> Empty]
  /\ crashed = FALSE
  /\ basis = [c \in Clients |-> NoBasis]
  /\ dropped = {} /\ due = {} /\ moved = FALSE

-----------------------------------------------------------------------------
(* The delta between what a client has seen and what it should see now.    *)
OnlyIn(f, S) == [id \in S |-> f[id]]

(* lastVersion < e.Version *)
IsNewerEither(v, last) == v # last
IsNewer(v, last) == v > last

Updates(s, vis) == {id \in DOMAIN s \cap DOMAIN vis : IsNewer(vis[id], s[id])}

GoneNever(s, vis) == {}
Gone(s, vis) == DOMAIN s \ DOMAIN vis

DeltaOf(s, vis) ==
  [Added |-> OnlyIn(vis, DOMAIN vis \ DOMAIN s),
   Updated |-> OnlyIn(vis, Updates(s, vis)),
   Removed |-> Gone(s, vis)]

(* c.seen after the delta is computed. *)
SeenAfterKeepsGone(s, vis) ==
  [id \in DOMAIN s \cup DOMAIN vis |->
     IF id \in DOMAIN s /\ id \notin Updates(s, vis) THEN s[id] ELSE vis[id]]

SeenAfter(s, vis) ==
  [id \in (DOMAIN s \cup DOMAIN vis) \ Gone(s, vis) |->
     IF id \in DOMAIN s /\ id \notin Updates(s, vis) THEN s[id] ELSE vis[id]]

(* Compute the delta against c.seen, record it there, and send it unless   *)
(* there is nothing to say or the channel is full.  Sending on a closed    *)
(* channel panics.  The clusters map may have been cleared by another user *)
(* of the pooled delta that still points at it, so it may look empty.      *)
Push(c, res, who) ==
  LET delta == DeltaOf(seen[c], res.visible) IN
  \E clusters \in {FALSE, res.clusters} :
    LET skip == delta = NoDelta /\ ~clusters
        sent == ~skip /\ c \notin closed /\ ch[c] = <<>>
    IN /\ seen' = [seen EXCEPT ![c] = SeenAfter(@, res.visible)]
       /\ crashed' = (~skip /\ c \in closed)
       /\ ch' = IF sent THEN [ch EXCEPT ![c] = <<delta>>] ELSE ch
       /\ lastPush' = IF sent THEN [lastPush EXCEPT ![c] = who] ELSE lastPush
       /\ broadcastTo' = IF sent /\ who = "broadcast" THEN broadcastTo \cup {c} ELSE broadcastTo
       /\ dropped' = IF up[c] /\ ~sent /\ delta # NoDelta THEN dropped \cup {c} ELSE dropped
       /\ basis' = IF up[c] THEN [basis EXCEPT ![c] = [view |-> res.view, at |-> res.at]]
                             ELSE basis
       /\ UNCHANGED <<up, targets>>

-----------------------------------------------------------------------------
(* The handler goroutine *)

(* StreamHandler accepts a connection; NewClient and Register. *)
Register(c) ==
  /\ hpc[c] = "new"
  /\ hpc' = [hpc EXCEPT ![c] = "idle"]
  /\ clients' = clients \cup {c}
  /\ up' = [up EXCEPT ![c] = TRUE]
  /\ UNCHANGED <<feedVars, closed, viewport, pushVars, hres, out, sweepVars,
                 targets, basis, dropped, crashed>>

(* The main loop takes a viewport message, perhaps one the reader took     *)
(* before the connection failed: HandleViewportUpdate up to its query.     *)
SetViewport(c, v) ==
  /\ hpc[c] = "idle"
  /\ viewport' = [viewport EXCEPT ![c] = v]
  /\ hpc' = [hpc EXCEPT ![c] = "query"]
  /\ moved' = (moved \/ bpc \in {"group", "regroup"})
  /\ UNCHANGED <<feedVars, roster, pushVars, hres, out, bpc, groupVars, serveVars, due,
                 pageVars, crashed>>

(* Its query, which returns early on an error. *)
ViewportQuery(c) ==
  /\ hpc[c] = "query"
  /\ IF viewport[c] \in BadViewports
       THEN hpc' = [hpc EXCEPT ![c] = "idle"] /\ UNCHANGED hres
       ELSE /\ hpc' = [hpc EXCEPT ![c] = "push"]
            /\ hres' = [hres EXCEPT ![c] = Result(viewport[c])]
  /\ UNCHANGED <<feedVars, roster, viewport, pushVars, out, sweepVars, pageVars, crashed>>

(* The rest of it, under viewportMu. *)
ViewportPush(c) ==
  /\ hpc[c] = "push"
  /\ Push(c, hres[c], "viewport")
  /\ hpc' = [hpc EXCEPT ![c] = "idle"]
  /\ hres' = [hres EXCEPT ![c] = NoResult]
  /\ UNCHANGED <<feedVars, roster, viewport, out, sweepVars>>

(* The main loop takes a delta from c.ch ... *)
TakeDelta(c) ==
  /\ hpc[c] = "idle"
  /\ ch[c] # <<>>
  /\ out' = [out EXCEPT ![c] = Head(ch[c])]
  /\ ch' = [ch EXCEPT ![c] = Tail(@)]
  /\ hpc' = [hpc EXCEPT ![c] = "write"]
  /\ UNCHANGED <<feedVars, roster, viewport, seen, lastPush, broadcastTo, hres, sweepVars,
                 pageVars, crashed>>

(* What a browser makes of a delta: radar updates of entities it does not  *)
(* know are ignored, removals come last.                                   *)
Applied(t, delta) ==
  LET known == DOMAIN t \cup DOMAIN delta.Added
      version(id) == CASE id \in DOMAIN delta.Updated -> delta.Updated[id]
                       [] id \in DOMAIN delta.Added -> delta.Added[id]
                       [] OTHER -> t[id]
  IN [id \in known \ delta.Removed |-> version(id)]

(* ... and writes it to the connection, which keeps order, so the browser  *)
(* is shown here as it will be once it has read everything written.        *)
WriteDelta(c) ==
  /\ hpc[c] = "write"
  /\ IF up[c] THEN /\ targets' = [targets EXCEPT ![c] = Applied(@, out[c])]
                   /\ hpc' = [hpc EXCEPT ![c] = "idle"]
              ELSE hpc' = [hpc EXCEPT ![c] = "exit"] /\ UNCHANGED targets
  /\ out' = [out EXCEPT ![c] = NoDelta]
  /\ UNCHANGED <<feedVars, roster, viewport, pushVars, hres, sweepVars, up, basis, dropped,
                 crashed>>

(* The browser goes away: the reader closes viewportChan, writes fail.     *)
(* What it showed and what was kept about it are forgotten.                *)
Disconnect(c) ==
  /\ up[c]
  /\ up' = [up EXCEPT ![c] = FALSE]
  /\ targets' = [targets EXCEPT ![c] = Empty]
  /\ basis' = [basis EXCEPT ![c] = NoBasis]
  /\ dropped' = dropped \ {c}
  /\ UNCHANGED <<feedVars, roster, viewport, pushVars, handlerVars, sweepVars, crashed>>

(* The main loop returns; the deferred Unregister. *)
RegisteredStill(c) == clients
RegisteredAfter(c) == clients \ {c}
Unregister(c) ==
  /\ hpc[c] = "exit" \/ (hpc[c] = "idle" /\ ~up[c])
  /\ hpc' = [hpc EXCEPT ![c] = "done"]
  /\ clients' = RegisteredAfter(c)
  /\ closed' = closed \cup {c}
  /\ UNCHANGED <<feedVars, viewport, pushVars, hres, out, sweepVars, pageVars, crashed>>

(* minPushInterval has passed since the last push, and so since the last   *)
(* broadcast ...                                                           *)
Elapse(c) ==
  /\ lastPush[c] # "old"
  /\ lastPush' = [lastPush EXCEPT ![c] = "old"]
  /\ broadcastTo' = broadcastTo \ {c}
  /\ UNCHANGED <<feedVars, roster, viewport, seen, ch, handlerVars, sweepVars, pageVars, crashed>>

(* ... or since the last broadcast only, a viewport push having come later. *)
ElapseBroadcast(c) ==
  /\ c \in broadcastTo /\ lastPush[c] = "viewport"
  /\ broadcastTo' = broadcastTo \ {c}
  /\ UNCHANGED <<feedVars, roster, viewport, seen, lastPush, ch, handlerVars, sweepVars,
                 pageVars, crashed>>

-----------------------------------------------------------------------------
(* The broadcast goroutine *)

(* What no step of it before computeAndSend changes. *)
unswept == <<roster, viewport, pushVars, handlerVars, pageVars, crashed>>

(* NewHub *)
NewHub == FeedSubscribe /\ UNCHANGED <<unswept, sweepVars>>

(* An event wakes it; it snapshots the registered clients. *)
Wake ==
  /\ bpc = "wait"
  /\ FeedReceive
  /\ bpc' = "group"
  /\ ungrouped' = clients
  /\ due' = clients
  /\ UNCHANGED <<unswept, first, groups, serveVars, moved>>

(* groups[c.GetViewport()] = append(groups[c.GetViewport()], c) reads the  *)
(* viewport twice, the assigned group's key first.                         *)
GroupKey(c) ==
  /\ bpc = "group"
  /\ c \in ungrouped
  /\ first' = [client |-> c, view |-> viewport[c]]
  /\ bpc' = "regroup"
  /\ UNCHANGED <<feedVars, unswept, ungrouped, groups, serveVars, due, moved>>

(* The group a client joins, given the two reads. *)
JoinedAlone(key, value, c) == [groups EXCEPT ![key] = {c}]
Joined(key, value, c) == [groups EXCEPT ![key] = groups[value] \cup {c}]

GroupAppend ==
  /\ bpc = "regroup"
  /\ groups' = Joined(first.view, viewport[first.client], first.client)
  /\ ungrouped' = ungrouped \ {first.client}
  /\ first' = NoView
  /\ bpc' = "group"
  /\ UNCHANGED <<feedVars, unswept, serveVars, due, moved>>

Grouped ==
  /\ bpc = "group"
  /\ ungrouped = {}
  /\ bpc' = "sweep"
  /\ UNCHANGED <<feedVars, unswept, groupVars, serveVars, due, moved>>

(* The eligible clients of the next group; a group with none is skipped. *)
IsEligibleAlways(c) == TRUE
IsEligible(c) == lastPush[c] = "old"

Filter(v) ==
  LET can == {c \in groups[v] : IsEligible(c)} IN
  /\ bpc = "sweep"
  /\ groups[v] # {}
  /\ groups' = [groups EXCEPT ![v] = {}]
  /\ due' = due \ groups[v]
  /\ IF can = {} THEN UNCHANGED <<bpc, group, eligible>>
                 ELSE bpc' = "query" /\ group' = v /\ eligible' = can
  /\ UNCHANGED <<feedVars, unswept, ungrouped, first, bres, moved>>

(* One query for the group; an error skips it. *)
GroupQuery ==
  /\ bpc = "query"
  /\ IF group \in BadViewports
       THEN bpc' = "sweep" /\ eligible' = {} /\ UNCHANGED bres
       ELSE bpc' = "send" /\ bres' = Result(group) /\ UNCHANGED eligible
  /\ group' = NoView
  /\ UNCHANGED <<feedVars, unswept, groupVars, due, moved>>

(* computeAndSend, under the client's viewportMu.  It never waits for the  *)
(* client to have room.                                                    *)
CanServeIfRoom(c) == ch[c] = <<>>
CanServe(c) == TRUE
ComputeAndSend(c) ==
  /\ bpc = "send"
  /\ c \in eligible
  /\ CanServe(c)
  /\ Push(c, bres, "broadcast")
  /\ eligible' = eligible \ {c}
  /\ IF eligible' = {} THEN bpc' = "sweep" /\ bres' = NoResult ELSE UNCHANGED <<bpc, bres>>
  /\ UNCHANGED <<feedVars, roster, viewport, handlerVars, groupVars, group, due, moved>>

(* The last group is done. *)
Swept ==
  /\ bpc = "sweep"
  /\ groups = NoGroups
  /\ bpc' = "wait"
  /\ due' = {}
  /\ moved' = FALSE
  /\ UNCHANGED <<feedVars, unswept, groupVars, serveVars>>

-----------------------------------------------------------------------------
(* The store polls and publishes. *)
StoreStep == FeedStep /\ UNCHANGED <<unswept, sweepVars>>

Sweep ==
  \/ \E c \in Clients : GroupKey(c) \/ ComputeAndSend(c)
  \/ GroupAppend \/ Grouped \/ GroupQuery \/ Swept
  \/ \E v \in Views : Filter(v)

Handler(c) ==
  \/ Register(c)
  \/ \E v \in Viewports : SetViewport(c, v)
  \/ ViewportQuery(c) \/ ViewportPush(c)
  \/ TakeDelta(c) \/ WriteDelta(c)
  \/ Unregister(c)

(* A panic anywhere ends the process. *)
Next ==
  /\ ~crashed
  /\ \/ StoreStep \/ NewHub \/ Wake \/ Sweep
     \/ \E c \in Clients : Handler(c) \/ Disconnect(c) \/ Elapse(c) \/ ElapseBroadcast(c)

Spec == Init /\ [][Next]_vars

(* Only the broadcast goroutine is owed progress: browsers, their handlers *)
(* and the seeders may stop at any point.                                  *)
FairSpec == Spec /\ WF_vars(~crashed /\ Sweep)

-----------------------------------------------------------------------------
VersionMap == UNION {[S -> 0 .. MaxSeq] : S \in SUBSET EntityIDs}
DeltaType == [Added : VersionMap, Updated : VersionMap, Removed : SUBSET EntityIDs]
ResultType == [view : Views, at : 0 .. MaxSeq, visible : VersionMap, clusters : BOOLEAN]

(* Every variable keeps its type, and each goroutine's program counter     *)
(* agrees with the shared state it owns: a client's channel is closed      *)
(* exactly when its handler has returned, and it is registered in between. *)
TypeOK ==
  /\ clients = {c \in Clients : hpc[c] \notin {"new", "done"}}
  /\ closed = {c \in Clients : hpc[c] = "done"}
  /\ viewport \in [Clients -> Views]
  /\ seen \in [Clients -> VersionMap]
  /\ targets \in [Clients -> VersionMap]
  /\ lastPush \in [Clients -> {"old", "viewport", "broadcast"}]
  /\ broadcastTo \subseteq {c \in Clients : lastPush[c] # "old"}
  /\ \A c \in Clients : ch[c] = <<>> \/ (Len(ch[c]) = 1 /\ ch[c][1] \in DeltaType)
  /\ hpc \in [Clients -> {"new", "idle", "query", "push", "write", "exit", "done"}]
  /\ hres \in [Clients -> ResultType]
  /\ out \in [Clients -> DeltaType]
  /\ bpc \in {"wait", "group", "regroup", "sweep", "query", "send"}
  /\ bpc = "regroup" => first \in [client : Clients, view : Views]
  /\ groups \in [Views -> SUBSET Clients]
  /\ bpc \in {"query", "send"} <=> eligible # {}
  /\ bres \in ResultType
  /\ up \in [Clients -> BOOLEAN]

(* What the browser will hold once it has read all that is in flight. *)
InFlight(c) ==
  LET written == Applied(targets[c], out[c])
  IN IF ch[c] = <<>> THEN written ELSE Applied(written, ch[c][1])

(* c.seen mirrors the browser: as long as no delta was dropped on a full   *)
(* channel, the entities and versions in c.seen are what the browser holds *)
(* once it has read the deltas in flight, whatever the order in which      *)
(* broadcasts and viewport updates computed them (hub.go 206-226, 290-306).*)
SeenMirrorsBrowser ==
  \A c \in Clients : up[c] /\ c \notin dropped => seen[c] = InFlight(c)

(* A browser at rest shows exactly its viewport's entities at their newest *)
(* versions, if no delta to it was dropped and the last one computed for   *)
(* it used its viewport and the newest poll (hub.go 190-252, 256-329).     *)
AtRestExact ==
  \A c \in Clients :
    (/\ up[c] /\ hpc[c] = "idle" /\ ch[c] = <<>>
     /\ c \notin dropped
     /\ basis[c] = [view |-> viewport[c], at |-> Indexed])
      => targets[c] = Visible(viewport[c])

(* No delta takes an entity of a browser back to an older version, though  *)
(* a sweep's result may be older than that of a viewport push before it,   *)
(* unless a delta to that browser was dropped: a removal it missed and an  *)
(* older addition would (hub.go 206-226, 290-306).                         *)
VersionsAdvance ==
  [][\A c \in Clients : up[c] /\ c \notin dropped =>
       \A id \in DOMAIN targets[c] \cap DOMAIN targets'[c] :
         targets'[c][id] >= targets[c][id]]_vars

(* Two broadcasts to a client are minPushInterval apart, also if viewport  *)
(* pushes come in between, and although eligibility is checked before the  *)
(* query and no longer holds if a viewport push comes before the broadcast *)
(* (hub.go 142-146).                                                       *)
BroadcastsSpaced ==
  [][\A c \in Clients : bpc = "send" /\ Len(ch'[c]) > Len(ch[c]) /\ hpc'[c] = hpc[c]
       => c \notin broadcastTo]_vars

(* A sweep always ends: no client, however slow, holds up the broadcast    *)
(* goroutine (hub.go 244-251).                                             *)
SweepFinishes == (bpc # "wait") ~> (bpc = "wait" \/ crashed)

(* A sweep looks at every client that was registered when it woke up,      *)
(* unless a viewport changed while it was grouping them (hub.go 130-133).  *)
SkippedOnlyByMove ==
  [][bpc = "sweep" /\ bpc' = "wait" => due = {} \/ moved]_vars

-----------------------------------------------------------------------------
(* Statements of the repository that the code does not keep.               *)

(* hub.go 20: seen is "entity ID -> version last sent to client". *)
SeenWasSent == \A c \in Clients : up[c] => seen[c] = InFlight(c)

(* integration_test.sh looks for "panic" in the server's log and takes its *)
(* absence as success.                                                     *)
NoPanic == ~crashed
=============================================================================
