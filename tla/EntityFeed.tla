----------------------------- MODULE EntityFeed -----------------------------
(***************************************************************************)
(* The store as the hub sees it: a sequence number, an index that queries  *)
(* read without the store's mutex, and one subscription whose channel      *)
(* holds at most one event.  The hub uses an event only as a wake-up and   *)
(* then reads the index, so an event is present or absent here.            *)
(*                                                                         *)
(* This is the abstraction of Store.tla under which Hub.tla is checked.    *)
(***************************************************************************)
EXTENDS Naturals

CONSTANTS
  EntityIDs,  \* entity identifiers
  Cells,      \* places an entity can be reported at
  MaxSeq      \* bound: polls applied

ASSUME MaxSeqAssumption == MaxSeq \in Nat

VARIABLES
  seq,         \* sequence number of the last poll begun
  index,       \* [id -> [Version, cell]]: what a query can see
  phase,       \* "idle", "index" (seq bumped), "publish" (index updated)
  subscribed,  \* the hub's subscription exists
  event        \* its channel holds an event

feedVars == <<seq, index, phase, subscribed, event>>

Entry == [Version : 0 .. MaxSeq, cell : Cells]

FeedInit ==
  /\ seq = 0
  /\ index = [id \in {} |-> [Version |-> 0]]
  /\ phase = "idle"
  /\ subscribed = FALSE
  /\ event = FALSE

(* A poll starts: the sequence number is visible before the new data is. *)
FeedBegin ==
  /\ phase = "idle"
  /\ seq < MaxSeq
  /\ seq' = seq + 1
  /\ phase' = "index"
  /\ UNCHANGED <<index, subscribed, event>>

(* The index changes at once: entries keep their old value, vanish, or are *)
(* written with the version of this poll.                                  *)
FeedReindex ==
  /\ phase = "index"
  /\ \E changed \in SUBSET EntityIDs : \E kept \in SUBSET (DOMAIN index \ changed) :
       \E at \in [changed -> Cells] :
         index' = [id \in changed \cup kept |->
                     IF id \in changed THEN [Version |-> seq, cell |-> at[id]]
                                       ELSE index[id]]
  /\ phase' = "publish"
  /\ UNCHANGED <<seq, subscribed, event>>

(* The wake-up is sent after the data is in place; a full channel already  *)
(* holds one, and the new one is dropped.                                  *)
FeedPublish ==
  /\ phase = "publish"
  /\ event' = (subscribed \/ event)
  /\ phase' = "idle"
  /\ UNCHANGED <<seq, index, subscribed>>

FeedSubscribe ==
  /\ phase = "idle"
  /\ ~subscribed
  /\ subscribed' = TRUE
  /\ UNCHANGED <<seq, index, phase, event>>

FeedUnsubscribe ==
  /\ phase = "idle"
  /\ subscribed
  /\ subscribed' = FALSE
  /\ UNCHANGED <<seq, index, phase, event>>

FeedReceive ==
  /\ event
  /\ event' = FALSE
  /\ UNCHANGED <<seq, index, phase, subscribed>>

FeedStep == FeedBegin \/ FeedReindex \/ FeedPublish

FeedNext == FeedStep \/ FeedSubscribe \/ FeedUnsubscribe \/ FeedReceive

FeedSpec == FeedInit /\ [][FeedNext]_feedVars
=============================================================================
