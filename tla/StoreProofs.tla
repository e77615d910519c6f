---------------------------- MODULE StoreProofs ----------------------------
(***************************************************************************)
(* Proofs about Store.tla, for every set of entities, places and seeders   *)
(* and every capacity and bound.                                           *)
(*                                                                         *)
(* TrackingMatchesIndex is not inductive: it says nothing while Apply is   *)
(* between the eviction pass and the index update.  TwoMarks and Pending   *)
(* say what holds there.                                                   *)
(***************************************************************************)
EXTENDS Store, SequenceTheorems, TLAPS

(* Stale tracking needs two marks only: reported by the last poll, or      *)
(* missed by it and forgiven.                                              *)
TwoMarks == \A id \in DOMAIN lastSeen : lastSeen[id] = seq \/ lastSeen[id] = seq - 2

(* Before the index update the batch and the eviction list account for     *)
(* every difference between the index and the tracked entities.            *)
Pending ==
  phase = "index" =>
    /\ DOMAIN lastSeen = (DOMAIN index \ removed) \cup DOMAIN changed
    /\ \A id \in DOMAIN changed : lastSeen[id] = seq
    /\ \A id \in DOMAIN index \ (removed \cup DOMAIN changed) :
         lastSeen[id] # seq /\ index[id].Version = seq - 1

(* Subscription numbers are handed out in order. *)
SubsIssued == \A i \in subs : i < nextSubID

IInv == TypeOK /\ TwoMarks /\ Pending /\ TrackingMatchesIndex /\ SubsIssued

-----------------------------------------------------------------------------
(* The batch of a poll is a function from some of the entities to places. *)
Batch == UNION {[S -> Cells] : S \in SUBSET EntityIDs}

(* The seeder's poll reports entities that exist: what Apply(src) passes   *)
(* to ApplyTick.                                                           *)
LEMMA ApplyBatch ==
  ASSUME NEW src \in Sources, Apply(src)
  PROVE  \E batch \in Batch : ApplyTick(batch)
<1>1. PICK seen \in SUBSET src : \E batch \in [seen -> Cells] : ApplyTick(batch)
  BY DEF Apply
<1>2. PICK batch \in [seen -> Cells] : ApplyTick(batch)
  BY <1>1
<1>3. seen \in SUBSET EntityIDs
  BY SourcesAssumption
<1>4. batch \in Batch
  BY <1>2, <1>3 DEF Batch
<1> QED
  BY <1>2, <1>4

(* Apply's first step, which no other one overlaps, keeps every part of    *)
(* the invariant: the interesting one, because it writes the marks.        *)
LEMMA TickInv ==
  ASSUME IInv, NEW batch \in Batch, ApplyTick(batch)
  PROVE  IInv'
<1> DEFINE s == seq + 1
           missing == DOMAIN lastSeen \ DOMAIN batch
           stale == {id \in missing : IsStale(lastSeen[id], s)}
<1>0. /\ phase = "idle" /\ seq < MaxSeq /\ seq' = s /\ removed' = stale
      /\ changed' = batch /\ phase' = "index"
      /\ lastSeen' = [id \in DOMAIN batch \cup (missing \ stale) |->
                        IF id \in DOMAIN batch THEN s ELSE MissMark(s)]
      /\ UNCHANGED <<index, historyChan, subVars>>
  BY DEF ApplyTick
<1>1. /\ TypeOK /\ seq \in 0 .. MaxSeq /\ MaxSeq \in Nat
      /\ DOMAIN batch \subseteq EntityIDs
      /\ DOMAIN lastSeen \subseteq EntityIDs
      /\ \A id \in DOMAIN lastSeen : lastSeen[id] \in 0 .. MaxSeq
  BY MaxSeqAssumption DEF IInv, TypeOK, Batch
<1>2. missing \cap stale = {id \in missing : lastSeen[id] = seq - 2}
  BY <1>1 DEF IInv, TwoMarks, IsStale
<1>3. \A id \in missing \ stale : lastSeen[id] = seq /\ seq \in Nat \ {0}
  <2> SUFFICES ASSUME NEW id \in missing \ stale
               PROVE  lastSeen[id] = seq /\ seq \in Nat \ {0}
    OBVIOUS
  <2>1. lastSeen[id] = seq
    BY <1>1, <1>2 DEF IInv, TwoMarks
  <2>2. id \in DOMAIN index /\ index[id].Version = seq
    BY <2>1, <1>0 DEF IInv, TrackingMatchesIndex
  <2>3. index[id] \in Entry
    BY <2>2 DEF IInv, TypeOK
  <2> QED
    BY <2>1, <2>2, <2>3, <1>1 DEF Entry
<1>4. \A id \in DOMAIN lastSeen' : lastSeen'[id] = seq' \/ lastSeen'[id] = seq' - 2
  BY <1>0 DEF MissMark
<1>5. \A id \in DOMAIN lastSeen' : lastSeen'[id] \in 0 .. MaxSeq
  BY <1>0, <1>1, <1>3 DEF MissMark
<1>6. TypeOK'
  <2>1. lastSeen' \in UNION {[S -> 0 .. MaxSeq] : S \in SUBSET EntityIDs}
    <3>1. DOMAIN lastSeen' \in SUBSET EntityIDs
      BY <1>0, <1>1
    <3>2. lastSeen' \in [DOMAIN lastSeen' -> 0 .. MaxSeq]
      BY <1>0, <1>5
    <3> QED
      BY <3>1, <3>2
  <2>2. changed' \in UNION {[S -> Cells] : S \in SUBSET EntityIDs}
    BY <1>0 DEF Batch
  <2>3. removed' \in SUBSET EntityIDs
    BY <1>0, <1>1
  <2>4. seq' \in 0 .. MaxSeq /\ seq' > 0
    BY <1>0, <1>1
  <2> QED
    BY <1>0, <1>1, <2>1, <2>2, <2>3, <2>4 DEF TypeOK, subVars
<1>7. Pending'
  <2>1. DOMAIN lastSeen = DOMAIN index
    BY <1>0 DEF IInv, TrackingMatchesIndex
  <2>2. DOMAIN lastSeen' = (DOMAIN index' \ removed') \cup DOMAIN changed'
    BY <1>0, <2>1
  <2>3. \A id \in DOMAIN changed' : lastSeen'[id] = seq'
    BY <1>0
  <2>4. ASSUME NEW id \in DOMAIN index' \ (removed' \cup DOMAIN changed')
        PROVE  lastSeen'[id] # seq' /\ index'[id].Version = seq' - 1
    <3>1. id \in missing \ stale /\ id \in DOMAIN index
      BY <1>0, <2>1, <2>4
    <3>2. lastSeen'[id] = s - 2
      BY <1>0, <3>1 DEF MissMark
    <3>3. index[id].Version = seq
      BY <1>0, <1>3, <3>1 DEF IInv, TrackingMatchesIndex
    <3> QED
      BY <1>0, <1>1, <3>2, <3>3
  <2> QED
    BY <2>2, <2>3, <2>4 DEF Pending
<1>8. TwoMarks' /\ TrackingMatchesIndex' /\ SubsIssued'
  BY <1>0, <1>4 DEF TwoMarks, TrackingMatchesIndex, SubsIssued, subVars, IInv
<1> QED
  BY <1>6, <1>7, <1>8 DEF IInv

(* The index update makes the index agree with the tracked entities again. *)
LEMMA IndexInv ==
  ASSUME IInv, ApplyIndex
  PROVE  IInv'
<1>0. /\ phase = "index" /\ index' = Reindexed /\ phase' = "history"
      /\ UNCHANGED <<seq, lastSeen, historyChan, changed, removed, subVars>>
  BY DEF ApplyIndex
<1>1. /\ TypeOK /\ TwoMarks /\ seq \in 1 .. MaxSeq
      /\ DOMAIN index \subseteq EntityIDs /\ DOMAIN changed \subseteq EntityIDs
      /\ \A id \in DOMAIN index : index[id] \in Entry
      /\ \A id \in DOMAIN changed : changed[id] \in Cells
  BY <1>0, MaxSeqAssumption DEF IInv, TypeOK
<1>2. /\ DOMAIN index' = (DOMAIN index \ removed) \cup DOMAIN changed
      /\ \A id \in DOMAIN index' :
           index'[id] = IF id \in DOMAIN changed
                          THEN [Version |-> seq, cell |-> changed[id]] ELSE index[id]
  BY <1>0 DEF Reindexed
<1>3. index' \in UNION {[S -> Entry] : S \in SUBSET EntityIDs}
  <2>1. index' \in [DOMAIN index' -> Entry]
    BY <1>0, <1>1, <1>2 DEF Entry, Reindexed
  <2>2. DOMAIN index' \in SUBSET EntityIDs
    BY <1>1, <1>2
  <2> QED
    BY <2>1, <2>2
<1>4. TypeOK'
  BY <1>0, <1>1, <1>3 DEF TypeOK, subVars
<1>5. TrackingMatchesIndex'
  <2>1. DOMAIN index' = DOMAIN lastSeen'
    BY <1>0, <1>2 DEF IInv, Pending
  <2>2. ASSUME NEW id \in DOMAIN index'
        PROVE  index'[id].Version = IF lastSeen'[id] = seq' THEN seq' ELSE seq' - 1
    <3>1. CASE id \in DOMAIN changed
      <4>1. index'[id] = [Version |-> seq, cell |-> changed[id]]
        BY <1>2, <2>2, <3>1
      <4>2. lastSeen[id] = seq
        BY <1>0, <3>1 DEF IInv, Pending
      <4> QED
        BY <1>0, <4>1, <4>2
    <3>2. CASE id \notin DOMAIN changed
      BY <1>0, <1>2, <2>2, <3>2 DEF IInv, Pending
    <3> QED
      BY <3>1, <3>2
  <2> QED
    BY <2>1, <2>2 DEF TrackingMatchesIndex
<1>6. TwoMarks' /\ Pending' /\ SubsIssued'
  BY <1>0 DEF IInv, TwoMarks, Pending, SubsIssued, subVars
<1> QED
  BY <1>4, <1>5, <1>6 DEF IInv

(* The other steps leave tracking and the index alone. *)
LEMMA OtherInv ==
  ASSUME IInv,
         UNCHANGED <<seq, lastSeen, index>>,
         phase' = phase \/ (phase # "index" /\ phase' \in {"idle", "publish"}),
         phase # "index" \/ UNCHANGED <<changed, removed>>,
         SubsIssued', TypeOK'
  PROVE  IInv'
<1>1. TwoMarks'
  BY DEF IInv, TwoMarks
<1>2. Pending'
  BY DEF IInv, Pending
<1>3. TrackingMatchesIndex'
  BY DEF IInv, TrackingMatchesIndex
<1> QED
  BY <1>1, <1>2, <1>3 DEF IInv

(* IInv is inductive. *)
LEMMA NextInv ==
  ASSUME IInv, [Next]_vars
  PROVE  IInv'
<1> USE MaxSeqAssumption, MaxSubsAssumption
<1>0. TypeOK /\ SubsIssued
  BY DEF IInv
<1>1. CASE \E src \in Sources : Apply(src)
  BY <1>1, ApplyBatch, TickInv
<1>2. CASE ApplyIndex
  BY <1>2, IndexInv
<1>3. CASE ApplyHistory
  <2>0. seq \in 1 .. MaxSeq /\ historyChan \in Seq(1 .. MaxSeq)
    BY <1>0, <1>3 DEF ApplyHistory, TypeOK
  <2>1. historyChan' \in Seq(1 .. MaxSeq)
    <3>1. Append(historyChan, seq) \in Seq(1 .. MaxSeq)
      BY <2>0
    <3> QED
      BY <1>3, <2>0, <3>1 DEF ApplyHistory
  <2>2. TypeOK' /\ SubsIssued'
    BY <1>0, <1>3, <2>1 DEF ApplyHistory, TypeOK, SubsIssued, subVars
  <2> QED
    BY <1>3, <2>2, OtherInv DEF ApplyHistory
<1>4. CASE ApplyPublish
  <2>0. seq \in 1 .. MaxSeq /\ chan \in [SubIDs -> Seq(1 .. MaxSeq)]
    BY <1>0, <1>4 DEF ApplyPublish, TypeOK
  <2>1. chan' \in [SubIDs -> Seq(1 .. MaxSeq)]
    <3>1. \A i \in SubIDs : Append(chan[i], seq) \in Seq(1 .. MaxSeq)
      BY <2>0
    <3> QED
      BY <1>4, <2>0, <3>1 DEF ApplyPublish
  <2>2. changed' \in UNION {[S -> Cells] : S \in SUBSET EntityIDs}
    <3>1. NoEntities \in [{} -> Cells]
      BY DEF NoEntities
    <3> QED
      BY <1>4, <3>1 DEF ApplyPublish
  <2>3. TypeOK' /\ SubsIssued'
    BY <1>0, <1>4, <2>1, <2>2 DEF ApplyPublish, TypeOK, SubsIssued
  <2> QED
    BY <1>4, <2>3, OtherInv DEF ApplyPublish
<1>5. CASE Subscribe
  <2>0. nextSubID \in SubIDs
    BY <1>0, <1>5 DEF Subscribe, TypeOK, SubIDs
  <2>1. nextSubID' \in 0 .. MaxSubs /\ subs' \subseteq SubIDs
    <3>1. nextSubID' \in 0 .. MaxSubs
      BY <1>0, <1>5 DEF Subscribe, TypeOK
    <3>2. subs' \subseteq SubIDs
      BY <1>0, <1>5, <2>0 DEF Subscribe, TypeOK
    <3> QED
      BY <3>1, <3>2
  <2>2. TypeOK'
    BY <1>0, <1>5, <2>0, <2>1 DEF Subscribe, TypeOK, applyVars
  <2>3. SubsIssued'
    BY <1>0, <1>5, <2>0, <2>1 DEF Subscribe, SubsIssued, TypeOK, SubIDs
  <2> QED
    BY <1>5, <2>2, <2>3, OtherInv DEF Subscribe, applyVars
<1>6. CASE \E i \in SubIDs : Unsubscribe(i)
  <2>1. TypeOK' /\ SubsIssued'
    BY <1>0, <1>6 DEF Unsubscribe, TypeOK, SubsIssued, applyVars
  <2> QED
    BY <1>6, <2>1, OtherInv DEF Unsubscribe, applyVars
<1>7. CASE \E i \in SubIDs : Receive(i)
  <2>1. PICK i \in SubIDs : Receive(i)
    BY <1>7
  <2>2. Indexed \in 0 .. MaxSeq
    BY <1>0 DEF Indexed, TypeOK
  <2>3. chan' \in [SubIDs -> Seq(1 .. MaxSeq)] /\ syncedAt' \in [SubIDs -> 0 .. MaxSeq]
    <3>1. chan[i] \in Seq(1 .. MaxSeq) /\ chan[i] # <<>>
      BY <1>0, <2>1 DEF Receive, TypeOK
    <3>2. Tail(chan[i]) \in Seq(1 .. MaxSeq)
      BY <3>1, HeadTailProperties
    <3> QED
      BY <1>0, <2>1, <2>2, <3>2 DEF Receive, TypeOK
  <2>4. TypeOK' /\ SubsIssued'
    BY <1>0, <2>1, <2>3 DEF Receive, TypeOK, SubsIssued, applyVars
  <2> QED
    BY <2>1, <2>4, OtherInv DEF Receive, applyVars
<1>8. CASE HistoryWorker
  <2>1. historyChan' \in Seq(1 .. MaxSeq)
    BY <1>0, <1>8 DEF HistoryWorker, TypeOK
  <2>2. TypeOK' /\ SubsIssued'
    BY <1>0, <1>8, <2>1 DEF HistoryWorker, TypeOK, SubsIssued, applyVars, subVars
  <2> QED
    BY <1>8, <2>2, OtherInv DEF HistoryWorker, applyVars
<1>9. CASE UNCHANGED vars
  <2>1. TypeOK' /\ SubsIssued'
    BY <1>0, <1>9 DEF vars, applyVars, subVars, TypeOK, SubsIssued
  <2> QED
    BY <1>9, <2>1, OtherInv DEF vars, applyVars
<1> QED
  BY <1>1, <1>2, <1>3, <1>4, <1>5, <1>6, <1>7, <1>8, <1>9 DEF Next, ApplyStep

(* The store starts in the invariant. *)
LEMMA InitInv == Init => IInv
<1> SUFFICES ASSUME Init PROVE IInv
  OBVIOUS
<1> USE MaxSeqAssumption, MaxSubsAssumption
<1>1. /\ DOMAIN NoEntities = {} /\ \A T : NoEntities \in [{} -> T]
  BY DEF NoEntities
<1>2. TypeOK
  <2>1. /\ lastSeen \in UNION {[S -> 0 .. MaxSeq] : S \in SUBSET EntityIDs}
        /\ index \in UNION {[S -> Entry] : S \in SUBSET EntityIDs}
        /\ changed \in UNION {[S -> Cells] : S \in SUBSET EntityIDs}
    BY <1>1 DEF Init
  <2> QED
    BY <2>1 DEF Init, TypeOK
<1>3. TwoMarks /\ Pending /\ TrackingMatchesIndex /\ SubsIssued
  BY <1>1 DEF Init, TwoMarks, Pending, TrackingMatchesIndex, SubsIssued
<1> QED
  BY <1>2, <1>3 DEF IInv

-----------------------------------------------------------------------------
(* The inductive invariant holds in every reachable state. *)
THEOREM StoreInvariant == Spec => []IInv
  BY InitInv, NextInv, PTL DEF Spec

(* No run of the store, whatever the polls report, makes the miss mark     *)
(* seq - 2 of store.go 216 wrap below zero or breaks another type.         *)
THEOREM TypeCorrect == Spec => []TypeOK
<1>1. IInv => TypeOK
  BY DEF IInv
<1> QED
  BY <1>1, StoreInvariant, PTL

(* Outside the window inside Apply the index holds exactly the tracked     *)
(* entities, each at the version of the last poll that reported it.        *)
THEOREM TrackingCorrect == Spec => []TrackingMatchesIndex
<1>1. IInv => TrackingMatchesIndex
  BY DEF IInv
<1> QED
  BY <1>1, StoreInvariant, PTL

(* Dropping an event on a full channel (store.go 253-258) loses no wake-up.*)
THEOREM WakeupNotLost == Spec => []NoLostWakeup
<1>1. Init => NoLostWakeup
  BY DEF Init, NoLostWakeup
<1>2. ASSUME IInv, NoLostWakeup, [Next]_vars
      PROVE  NoLostWakeup'
  <2>0. TypeOK
    BY <1>2 DEF IInv
  <2>1. CASE \E src \in Sources : Apply(src)
    BY <2>1, ApplyBatch DEF ApplyTick, NoLostWakeup
  <2>2. CASE ApplyIndex \/ ApplyHistory
    BY <2>2 DEF ApplyIndex, ApplyHistory, NoLostWakeup
  <2>3. CASE ApplyPublish
    <3> SUFFICES ASSUME NEW i \in subs' PROVE chan'[i] # <<>>
      BY DEF NoLostWakeup
    <3>1. i \in subs /\ i \in SubIDs /\ chan[i] \in Seq(1 .. MaxSeq) /\ seq \in 1 .. MaxSeq
      BY <1>2, <2>0, <2>3, MaxSeqAssumption DEF ApplyPublish, TypeOK
    <3>2. CASE HasRoom(chan[i])
      BY <2>3, <3>1, <3>2 DEF ApplyPublish
    <3>3. CASE ~HasRoom(chan[i])
      BY <2>3, <3>1, <3>3 DEF ApplyPublish, HasRoom
    <3> QED
      BY <3>2, <3>3
  <2>4. CASE Subscribe
    BY <1>2, <2>0, <2>4, MaxSubsAssumption
       DEF Subscribe, NoLostWakeup, TypeOK, SubIDs, applyVars
  <2>5. CASE \E i \in SubIDs : Unsubscribe(i)
    BY <1>2, <2>5 DEF Unsubscribe, NoLostWakeup, applyVars
  <2>6. CASE \E i \in SubIDs : Receive(i)
    BY <1>2, <2>0, <2>6 DEF Receive, NoLostWakeup, TypeOK, applyVars, Indexed
  <2>7. CASE HistoryWorker
    BY <1>2, <2>7 DEF HistoryWorker, NoLostWakeup, applyVars, subVars
  <2>8. CASE UNCHANGED vars
    BY <1>2, <2>8 DEF vars, applyVars, subVars, NoLostWakeup
  <2> QED
    BY <1>2, <2>1, <2>2, <2>3, <2>4, <2>5, <2>6, <2>7, <2>8 DEF Next, ApplyStep
<1> QED
  BY <1>1, <1>2, StoreInvariant, PTL DEF Spec
-----------------------------------------------------------------------------
(* The abstract view of the miss counters. *)
Misses == [id \in EntityIDs |->
             IF id \in DOMAIN lastSeen /\ lastSeen[id] # seq THEN 1 ELSE 0]

(* Apply's two marks implement removal after two consecutive misses: the   *)
(* eviction pass is one abstract poll, every other step is invisible.      *)
THEOREM EvictionImplemented == Spec => EvictionSpec
<1>1. Init => Eviction!Init
  <2> SUFFICES ASSUME Init PROVE Eviction!Init
    OBVIOUS
  <2>1. DOMAIN lastSeen = {}
    BY DEF Init, NoEntities
  <2> QED
    BY <2>1 DEF Eviction!Init
<1>2. ASSUME IInv, [Next]_vars
      PROVE  [Eviction!Next]_(Eviction!vars)
  <2>0. /\ TwoMarks /\ seq \in Nat /\ DOMAIN lastSeen \subseteq EntityIDs
        /\ MaxSeq \in Nat
    BY <1>2, MaxSeqAssumption DEF IInv, TypeOK
  <2>1. CASE \E src \in Sources : Apply(src)
    <3>1. PICK batch \in Batch : ApplyTick(batch)
      BY <2>1, ApplyBatch
    <3> DEFINE missing == DOMAIN lastSeen \ DOMAIN batch
               stale == {id \in missing : IsStale(lastSeen[id], seq + 1)}
    <3>2. /\ seq' = seq + 1
          /\ lastSeen' = [id \in DOMAIN batch \cup (missing \ stale) |->
                            IF id \in DOMAIN batch THEN seq + 1 ELSE MissMark(seq + 1)]
      BY <3>1 DEF ApplyTick
    <3>3. DOMAIN batch \in SUBSET EntityIDs
      BY DEF Batch
    <3>4. missing \ stale = {id \in missing : Misses[id] = 0}
      BY <2>0 DEF TwoMarks, IsStale, Misses
    <3>5. DOMAIN lastSeen' = DOMAIN batch \cup {id \in DOMAIN lastSeen : Misses[id] = 0}
      BY <3>2, <3>4
    <3>6. Misses' = [id \in EntityIDs |->
                       IF id \in DOMAIN lastSeen' \ DOMAIN batch THEN 1 ELSE 0]
      BY <2>0, <3>2 DEF Misses, MissMark
    <3>7. Eviction!Poll(DOMAIN batch)
      BY <3>5, <3>6 DEF Eviction!Poll, Misses
    <3> QED
      BY <3>3, <3>7 DEF Eviction!Next
  <2>2. CASE UNCHANGED <<seq, lastSeen>>
    BY <2>2 DEF Eviction!vars
  <2> QED
    BY <1>2, <2>1, <2>2
       DEF Next, ApplyStep, ApplyIndex, ApplyHistory, ApplyPublish, Subscribe,
           Unsubscribe, Receive, HistoryWorker, vars
<1> QED
  BY <1>1, <1>2, StoreInvariant, PTL DEF Spec, EvictionSpec, Eviction!Spec

(* The hub may be checked against EntityFeed: through the subscription     *)
(* NewHub makes, every step of the store is a step of the feed or is       *)
(* invisible to it.                                                        *)
THEOREM FeedImplemented == Spec => FeedSpec
<1> DEFINE FeedPhase == IF phase = "history" THEN "publish" ELSE phase
           FeedEvent == MaxSubs > 0 /\ chan[0] # <<>>
<1>1. Init => Feed!FeedInit
  <2> SUFFICES ASSUME Init PROVE Feed!FeedInit
    OBVIOUS
  <2>1. index = [id \in {} |-> [Version |-> 0]]
    BY DEF Init, NoEntities
  <2>2. ~FeedEvent
    BY MaxSubsAssumption DEF Init, SubIDs
  <2> QED
    BY <2>1, <2>2 DEF Init, Feed!FeedInit
<1>2. ASSUME IInv, [Next]_vars
      PROVE  [Feed!FeedNext]_(Feed!feedVars)
  <2>0. TypeOK /\ SubsIssued /\ MaxSubs \in Nat /\ (MaxSubs > 0 => 0 \in SubIDs)
    BY <1>2, MaxSubsAssumption DEF IInv, SubIDs
  <2>1. CASE \E src \in Sources : Apply(src)
    <3>1. PICK batch \in Batch : ApplyTick(batch)
      BY <2>1, ApplyBatch
    <3>2. Feed!FeedBegin
      BY <3>1 DEF ApplyTick, Feed!FeedBegin, subVars
    <3> QED
      BY <3>2 DEF Feed!FeedNext, Feed!FeedStep
  <2>2. CASE ApplyIndex
    <3>1. /\ DOMAIN changed \in SUBSET EntityIDs
          /\ changed \in [DOMAIN changed -> Cells]
      BY <2>0 DEF TypeOK
    <3> DEFINE kept == (DOMAIN index \ removed) \ DOMAIN changed
    <3>2. kept \in SUBSET (DOMAIN index \ DOMAIN changed)
      OBVIOUS
    <3>3. index' = [id \in DOMAIN changed \cup kept |->
                      IF id \in DOMAIN changed THEN [Version |-> seq, cell |-> changed[id]]
                                               ELSE index[id]]
      <4>1. (DOMAIN index \ removed) \cup DOMAIN changed = DOMAIN changed \cup kept
        OBVIOUS
      <4> QED
        BY <2>2, <4>1 DEF ApplyIndex, Reindexed
    <3>4. Feed!FeedReindex
      BY <2>2, <3>1, <3>2, <3>3 DEF ApplyIndex, subVars, Feed!FeedReindex
    <3> QED
      BY <3>4 DEF Feed!FeedNext, Feed!FeedStep
  <2>3. CASE ApplyHistory
    BY <2>3 DEF ApplyHistory, subVars, Feed!feedVars
  <2>4. CASE ApplyPublish
    <3>1. FeedEvent' = (0 \in subs \/ FeedEvent)
      <4>1. CASE MaxSubs > 0
        <5>1. chan[0] \in Seq(1 .. MaxSeq) /\ 0 \in SubIDs
          BY <2>0, <4>1 DEF TypeOK
        <5>2. chan'[0] = IF 0 \in subs /\ HasRoom(chan[0]) THEN Append(chan[0], seq)
                                                            ELSE chan[0]
          BY <2>4, <5>1 DEF ApplyPublish
        <5>3. seq \in 1 .. MaxSeq
          BY <2>0, <2>4, MaxSeqAssumption DEF ApplyPublish, TypeOK
        <5>4. CASE 0 \in subs /\ HasRoom(chan[0])
          BY <4>1, <5>1, <5>2, <5>3, <5>4
        <5>5. CASE ~(0 \in subs /\ HasRoom(chan[0]))
          <6>1. chan'[0] = chan[0]
            BY <5>2, <5>5
          <6>2. 0 \in subs => chan[0] # <<>>
            BY <5>1, <5>5 DEF HasRoom
          <6> QED
            BY <4>1, <6>1, <6>2
        <5> QED
          BY <5>4, <5>5
      <4>2. CASE ~(MaxSubs > 0)
        BY <2>0, <4>2 DEF TypeOK, SubIDs
      <4> QED
        BY <4>1, <4>2
    <3>2. Feed!FeedPublish
      BY <2>4, <3>1 DEF ApplyPublish, Feed!FeedPublish
    <3> QED
      BY <3>2 DEF Feed!FeedNext, Feed!FeedStep
  <2>5. CASE Subscribe
    <3>1. CASE nextSubID = 0
      <4>1. 0 \notin subs
        BY <2>0, <3>1 DEF SubsIssued, TypeOK, SubIDs
      <4>2. Feed!FeedSubscribe
        BY <2>5, <3>1, <4>1 DEF Subscribe, applyVars, Feed!FeedSubscribe
      <4> QED
        BY <4>2 DEF Feed!FeedNext
    <3>2. CASE nextSubID # 0
      BY <2>5, <3>2 DEF Subscribe, applyVars, Feed!feedVars
    <3> QED
      BY <3>1, <3>2
  <2>6. ASSUME NEW i \in SubIDs, Unsubscribe(i)
        PROVE  [Feed!FeedNext]_(Feed!feedVars)
    <3>1. CASE i = 0
      <4>1. Feed!FeedUnsubscribe
        BY <2>6, <3>1 DEF Unsubscribe, applyVars, Feed!FeedUnsubscribe
      <4> QED
        BY <4>1 DEF Feed!FeedNext
    <3>2. CASE i # 0
      BY <2>6, <3>2 DEF Unsubscribe, applyVars, Feed!feedVars
    <3> QED
      BY <3>1, <3>2
  <2>7. ASSUME NEW i \in SubIDs, Receive(i)
        PROVE  [Feed!FeedNext]_(Feed!feedVars)
    <3>0. /\ chan \in [SubIDs -> Seq(1 .. MaxSeq)]
          /\ chan' = [chan EXCEPT ![i] = Tail(chan[i])]
          /\ UNCHANGED <<seq, index, phase, subs>>
      BY <2>0, <2>7 DEF Receive, TypeOK, applyVars
    <3>1. CASE i # 0
      BY <3>0, <3>1 DEF Feed!feedVars
    <3>2. CASE i = 0 /\ chan'[0] # <<>>
      <4>1. FeedEvent' = FeedEvent
        BY <2>0, <2>7, <3>2 DEF Receive
      <4> QED
        BY <3>0, <4>1 DEF Feed!feedVars
    <3>3. CASE i = 0 /\ chan'[0] = <<>>
      <4>1. FeedEvent /\ ~FeedEvent'
        BY <2>0, <2>7, <3>3 DEF Receive, SubIDs
      <4>2. Feed!FeedReceive
        BY <3>0, <4>1 DEF Feed!FeedReceive
      <4> QED
        BY <4>2 DEF Feed!FeedNext
    <3> QED
      BY <3>1, <3>2, <3>3
  <2>8. CASE HistoryWorker \/ UNCHANGED vars
    BY <2>8 DEF HistoryWorker, vars, applyVars, subVars, Feed!feedVars
  <2> QED
    BY <1>2, <2>1, <2>2, <2>3, <2>4, <2>5, <2>6, <2>7, <2>8 DEF Next, ApplyStep
<1> QED
  BY <1>1, <1>2, StoreInvariant, PTL DEF Spec, FeedSpec, Feed!FeedSpec
=============================================================================
