------------------------------- MODULE Store -------------------------------
(***************************************************************************)
(* store/store.go: the entity store.  Apply runs under the store's mutex   *)
(* from its first line to its last, but queries and Seq() do not take that *)
(* mutex, so it is four steps here: bump seq and run stale eviction        *)
(* (ApplyTick), update the spatial index (ApplyIndex), hand the batch to   *)
(* the history worker (ApplyHistory), publish the event (ApplyPublish).    *)
(* phase # "idle" is the mutex being held by an Apply.                     *)
(*                                                                         *)
(* The spatial index is the map from entity to version and place that      *)
(* queries see; SpatialIndex.tla models how it is kept.  A batch that      *)
(* names an entity twice keeps the last report, so a batch is a function.  *)
(***************************************************************************)
EXTENDS Integers, Sequences, FiniteSets

CONSTANTS
  EntityIDs,   \* entity identifiers
  Cells,       \* places an entity can be reported at
  Sources,     \* a seeder, as the set of the entities it can report
  HistoryCap,  \* capacity of historyChan (100 in the code)
  MaxSeq,      \* bound: calls of Apply
  MaxSubs      \* bound: calls of Subscribe

ASSUME SourcesAssumption == Sources \subseteq SUBSET EntityIDs
ASSUME HistoryCapAssumption == HistoryCap \in Nat
ASSUME MaxSeqAssumption == MaxSeq \in Nat
ASSUME MaxSubsAssumption == MaxSubs \in Nat

VARIABLES
  \* state guarded by s.mu
  seq,          \* s.seq, read without the mutex by Seq()
  lastSeen,     \* s.lastSeen: [tracked entity -> seq]
  subs,         \* keys of s.subs
  nextSubID,    \* s.nextSubID
  \* the Apply in progress; its buffers are dead, and empty here, between calls
  phase,        \* "idle", "index", "history", "publish"
  changed,      \* addedBuf and updatedBuf: [reported entity -> place]
  removed,      \* removedBuf
  \* state shared with other goroutines
  index,        \* s.index as a query sees it: [entity -> [Version, cell]]
  historyChan,  \* s.historyChan: the seq of each batch queued for recording
  chan,         \* the channel of each subscription: at most one event
  \* history variable
  syncedAt      \* [subscription -> newest poll in the index when it last woke]

applyVars == <<phase, changed, removed>>
subVars == <<subs, nextSubID, chan, syncedAt>>
vars == <<seq, lastSeen, index, historyChan, applyVars, subVars>>

SubIDs == 0 .. MaxSubs - 1
NoEntities == [id \in {} |-> 0]

Entry == [Version : 1 .. MaxSeq, cell : Cells]

(* NewStore *)
Init ==
  /\ seq = 0
  /\ lastSeen = NoEntities
  /\ index = NoEntities
  /\ phase = "idle" /\ changed = NoEntities /\ removed = {}
  /\ historyChan = <<>>
  /\ subs = {} /\ nextSubID = 0
  /\ chan = [i \in SubIDs |-> <<>>]
  /\ syncedAt = [i \in SubIDs |-> 0]

-----------------------------------------------------------------------------
(* Apply *)

(* An entity missing from poll s goes if the poll before missed it too. *)
IsStaleEager(last, s) == last <= s - 1
IsStale(last, s) == last < s - 1

(* The mark left by a forgiven miss: old enough to go at the next one. *)
MissMarkWraps(s) == s - 3
MissMark(s) == s - 2

(* Reset the buffers, classify the batch, evict what is stale. *)
ApplyTick(batch) ==
  LET s == seq + 1
      missing == DOMAIN lastSeen \ DOMAIN batch
      stale == {id \in missing : IsStale(lastSeen[id], s)}
  IN /\ phase = "idle"
     /\ seq < MaxSeq
     /\ seq' = s
     /\ lastSeen' = [id \in DOMAIN batch \cup (missing \ stale) |->
                       IF id \in DOMAIN batch THEN s ELSE MissMark(s)]
     /\ changed' = batch
     /\ removed' = stale
     /\ phase' = "index"
     /\ UNCHANGED <<index, historyChan, subVars>>

(* index.BatchUpdateRust: one critical section of the index's own lock. *)
ReindexedKeepingRemoved ==
  [id \in DOMAIN index \cup DOMAIN changed |->
     IF id \in DOMAIN changed THEN [Version |-> seq, cell |-> changed[id]] ELSE index[id]]
ReindexedUnversioned ==
  [id \in (DOMAIN index \ removed) \cup DOMAIN changed |->
     IF id \in DOMAIN changed THEN [Version |-> 0, cell |-> changed[id]] ELSE index[id]]
Reindexed ==
  [id \in (DOMAIN index \ removed) \cup DOMAIN changed |->
     IF id \in DOMAIN changed THEN [Version |-> seq, cell |-> changed[id]] ELSE index[id]]

ApplyIndex ==
  /\ phase = "index"
  /\ index' = Reindexed
  /\ phase' = "history"
  /\ UNCHANGED <<seq, lastSeen, historyChan, changed, removed, subVars>>

(* The batch is queued for the history worker, or dropped if it lags. *)
ApplyHistoryBlocking ==
  /\ phase = "history"
  /\ Len(historyChan) < HistoryCap
  /\ historyChan' = Append(historyChan, seq)
  /\ phase' = "publish"
  /\ UNCHANGED <<seq, lastSeen, index, changed, removed, subVars>>

ApplyHistory ==
  /\ phase = "history"
  /\ historyChan' = IF Len(historyChan) < HistoryCap THEN Append(historyChan, seq)
                                                    ELSE historyChan
  /\ phase' = "publish"
  /\ UNCHANGED <<seq, lastSeen, index, changed, removed, subVars>>

(* A subscription's channel takes an event only while it has room.  The    *)
(* event is its Seq: nothing in the program reads Changed and Removed.     *)
HasRoomUnbuffered(ch) == FALSE
HasRoom(ch) == Len(ch) < 1

ApplyPublish ==
  /\ phase = "publish"
  /\ chan' = [i \in SubIDs |-> IF i \in subs /\ HasRoom(chan[i])
                                 THEN Append(chan[i], seq) ELSE chan[i]]
  /\ phase' = "idle" /\ changed' = NoEntities /\ removed' = {}
  /\ UNCHANGED <<seq, lastSeen, index, historyChan, subs, nextSubID, syncedAt>>

ApplyStep == ApplyIndex \/ ApplyHistory \/ ApplyPublish

-----------------------------------------------------------------------------
(* Subscribe and Unsubscribe take the mutex; a closed channel still hands  *)
(* over the event it holds.                                                *)
Subscribe ==
  /\ phase = "idle"
  /\ nextSubID < MaxSubs
  /\ subs' = subs \cup {nextSubID}
  /\ nextSubID' = nextSubID + 1
  /\ syncedAt' = [syncedAt EXCEPT ![nextSubID] = seq]
  /\ UNCHANGED <<seq, lastSeen, index, historyChan, applyVars, chan>>

Unsubscribe(i) ==
  /\ phase = "idle"
  /\ i \in subs
  /\ subs' = subs \ {i}
  /\ UNCHANGED <<seq, lastSeen, index, historyChan, applyVars, nextSubID, chan, syncedAt>>

(* The newest poll whose data a query finds in the index. *)
Indexed == IF phase = "index" THEN seq - 1 ELSE seq

(* A subscriber takes the event; any query it makes comes later. *)
Receive(i) ==
  /\ chan[i] # <<>>
  /\ chan' = [chan EXCEPT ![i] = Tail(@)]
  /\ syncedAt' = [syncedAt EXCEPT ![i] = Indexed]
  /\ UNCHANGED <<seq, lastSeen, index, historyChan, applyVars, subs, nextSubID>>

(* The history worker takes the next batch. *)
HistoryWorker ==
  /\ historyChan # <<>>
  /\ historyChan' = Tail(historyChan)
  /\ UNCHANGED <<seq, lastSeen, index, applyVars, subVars>>

Apply(src) == \E seen \in SUBSET src : \E batch \in [seen -> Cells] : ApplyTick(batch)

Next ==
  \/ \E src \in Sources : Apply(src)
  \/ ApplyStep
  \/ Subscribe
  \/ \E i \in SubIDs : Unsubscribe(i) \/ Receive(i)
  \/ HistoryWorker

Spec == Init /\ [][Next]_vars

(* Only the goroutine inside Apply is owed progress: the history worker    *)
(* and the subscribers may be slow for ever.                               *)
FairSpec == Spec /\ WF_vars(ApplyStep)

-----------------------------------------------------------------------------
(* Every variable keeps its type; in particular the mark seq - 2 that      *)
(* Apply writes for a missed entity never wraps below zero (store.go 216). *)
TypeOK ==
  /\ seq \in 0 .. MaxSeq
  /\ lastSeen \in UNION {[S -> 0 .. MaxSeq] : S \in SUBSET EntityIDs}
  /\ index \in UNION {[S -> Entry] : S \in SUBSET EntityIDs}
  /\ phase \in {"idle", "index", "history", "publish"}
  /\ phase # "idle" => seq > 0
  /\ changed \in UNION {[S -> Cells] : S \in SUBSET EntityIDs}
  /\ removed \in SUBSET EntityIDs
  /\ historyChan \in Seq(1 .. MaxSeq)
  /\ subs \in SUBSET SubIDs
  /\ nextSubID \in 0 .. MaxSubs
  /\ chan \in [SubIDs -> Seq(1 .. MaxSeq)]
  /\ syncedAt \in [SubIDs -> 0 .. MaxSeq]

(* Stale tracking and the index never part ways: once the index is updated *)
(* it holds exactly the tracked entities, each with the version of the     *)
(* last poll that reported it, which is the last poll or the one before.   *)
TrackingMatchesIndex ==
  phase # "index" =>
    /\ DOMAIN index = DOMAIN lastSeen
    /\ \A id \in DOMAIN index :
         index[id].Version = IF lastSeen[id] = seq THEN seq ELSE seq - 1

(* No lost wake-up: a subscriber with an empty channel was last woken when *)
(* the newest completed poll was already in the index, however many events *)
(* Apply dropped on its full channel (store.go 253-258).                   *)
NoLostWakeup ==
  phase = "idle" =>
    \A i \in subs : chan[i] = <<>> => syncedAt[i] = seq

(* Apply finishes whatever the history worker and the subscribers do: no   *)
(* send in it blocks (store.go 232-237, 254-257), so the mutex is released *)
(* and the next poll, Subscribe and Unsubscribe can run.                   *)
ApplyFinishes == (phase # "idle") ~> (phase = "idle")

(* Apply's two-mark encoding of lastSeen implements stale eviction after   *)
(* two consecutive misses.                                                 *)
Eviction == INSTANCE StaleEviction WITH
  live <- DOMAIN lastSeen,
  misses <- [id \in EntityIDs |->
               IF id \in DOMAIN lastSeen /\ lastSeen[id] # seq THEN 1 ELSE 0]

EvictionSpec == Eviction!Spec

(* The store is the feed the hub is checked against, through the first     *)
(* subscription, the one NewHub makes.                                     *)
Feed == INSTANCE EntityFeed WITH
  phase <- IF phase = "history" THEN "publish" ELSE phase,
  subscribed <- 0 \in subs,
  event <- MaxSubs > 0 /\ chan[0] # <<>>

FeedSpec == Feed!FeedSpec
=============================================================================
