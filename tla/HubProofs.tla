----------------------------- MODULE HubProofs -----------------------------
(***************************************************************************)
(* Proofs about Hub.tla, for every set of clients, viewports and entities, *)
(* any cover, and any number of polls.                                     *)
(*                                                                         *)
(* SeenMirrorsBrowser needs to know what a connection starts from and who  *)
(* may be served (Fresh).  AtRestExact rests on it and on Computed: what   *)
(* c.seen says was exact when it was computed, and a query's result dates  *)
(* from the poll it names (Results, Dating).  The action properties rest   *)
(* on Forward, Spaced and Accounted.                                       *)
(***************************************************************************)
EXTENDS Hub, SequenceTheorems, TLAPS

BasisType == [view : Views, at : 0 .. MaxSeq]

(* The types of what TypeOK leaves open, and the sequence numbers.         *)
TypesToo ==
  /\ seq \in 0 .. MaxSeq /\ phase \in {"idle", "index", "publish"}
  /\ phase = "index" => seq > 0
  /\ index \in UNION {[S -> Entry] : S \in SUBSET EntityIDs}
  /\ ch \in [Clients -> Seq(DeltaType)]
  /\ ungrouped \in SUBSET Clients /\ due \in SUBSET Clients
  /\ eligible \in SUBSET Clients /\ dropped \in SUBSET Clients
  /\ group \in Views
  /\ basis \in [Clients -> BasisType]
  /\ bpc = "regroup" => first.client \in ungrouped

(* Whoever may be served has registered.  A connection starts, and is      *)
(* left, with nothing shown, and nothing is written outside "write".       *)
Fresh ==
  \A c \in Clients :
    /\ hpc[c] = "new" =>
         /\ seen[c] = Empty /\ ch[c] = <<>>
         /\ c \notin ungrouped \cup eligible /\ \A v \in Views : c \notin groups[v]
    /\ up[c] => hpc[c] \notin {"new", "exit", "done"}
    /\ ~up[c] => targets[c] = Empty /\ basis[c] = NoBasis /\ c \notin dropped
    /\ hpc[c] # "write" => out[c] = NoDelta

(* No version is newer than the newest poll in the index, nor than what    *)
(* the index says of its entity.                                           *)
Dated(f) ==
  \A id \in DOMAIN f :
    f[id] <= Indexed /\ (id \in DOMAIN index => f[id] <= index[id].Version)

Dating ==
  /\ \A id \in DOMAIN index : index[id].Version <= Indexed
  /\ Dated(bres.visible)
  /\ \A c \in Clients : Dated(seen[c]) /\ Dated(hres[c].visible)

(* A result dates from the poll it names: while that is the newest, it is  *)
(* what a query would return now.                                          *)
Current(res) == res.at <= Indexed /\ (res.at = Indexed => res.visible = Visible(res.view))
Results == Current(bres) /\ \A c \in Clients : Current(hres[c])

(* c.seen is exact when it was computed for the newest poll. *)
Computed ==
  \A c \in Clients :
    /\ basis[c].at <= Indexed
    /\ up[c] /\ basis[c].at = Indexed => seen[c] = Visible(basis[c].view)

(* Whatever was pushed to an eligible client since it was found to be so,  *)
(* it was no broadcast.                                                    *)
Spaced == \A c \in eligible : c \notin broadcastTo

(* A delta takes no entity of t back to an older version. *)
Grows(t, delta) ==
  \A id \in DOMAIN t \cap DOMAIN Applied(t, delta) : Applied(t, delta)[id] >= t[id]

(* The deltas in flight take nothing back, each where it will be applied.  *)
Forward ==
  \A c \in Clients : up[c] /\ c \notin dropped =>
    /\ Grows(targets[c], out[c])
    /\ ch[c] # <<>> => Grows(Applied(targets[c], out[c]), ch[c][1])

(* Each client of the snapshot is in a group or still to be grouped. *)
Accounted ==
  /\ bpc = "regroup" /\ ~moved => first.view = viewport[first.client]
  /\ ~moved => \A c \in due : c \in ungrouped \/ \E v \in Views : c \in groups[v]
  /\ bpc \in {"sweep", "query", "send"} => ungrouped = {}

Typed == TypeOK /\ TypesToo /\ Fresh

Exact == Dating /\ Results /\ Computed

IInv ==
  /\ Typed
  /\ SeenMirrorsBrowser /\ Forward /\ Exact
  /\ Spaced /\ Accounted

-----------------------------------------------------------------------------
(* Deltas and what is made of them. *)

(* A version map is a function from some of the entities to versions. *)
LEMMA VersionMapElements ==
  /\ \A f \in VersionMap : f \in [DOMAIN f -> 0 .. MaxSeq] /\ DOMAIN f \subseteq EntityIDs
  /\ \A S \in SUBSET EntityIDs : [S -> 0 .. MaxSeq] \subseteq VersionMap
BY DEF VersionMap

(* Empty and NoDelta are well-formed. *)
LEMMA EmptyTypes == Empty \in VersionMap /\ NoDelta \in DeltaType /\ DOMAIN Empty = {}
<1>1. Empty \in [{} -> 0 .. MaxSeq] /\ DOMAIN Empty = {}
  BY DEF Empty
<1>2. Empty \in VersionMap
  BY <1>1, VersionMapElements
<1> QED
  BY <1>1, <1>2 DEF NoDelta, DeltaType

(* The delta of two version maps, and c.seen after it. *)
LEMMA DeltaTypes ==
  ASSUME NEW s \in VersionMap, NEW vis \in VersionMap
  PROVE  DeltaOf(s, vis) \in DeltaType /\ SeenAfter(s, vis) \in VersionMap
<1>1. /\ s \in [DOMAIN s -> 0 .. MaxSeq] /\ DOMAIN s \subseteq EntityIDs
      /\ vis \in [DOMAIN vis -> 0 .. MaxSeq] /\ DOMAIN vis \subseteq EntityIDs
  BY VersionMapElements
<1>2. Updates(s, vis) \subseteq DOMAIN s \cap DOMAIN vis /\ Gone(s, vis) = DOMAIN s \ DOMAIN vis
  BY DEF Updates, Gone
<1>3. \A S \in SUBSET DOMAIN vis : OnlyIn(vis, S) \in VersionMap
  <2> SUFFICES ASSUME NEW S \in SUBSET DOMAIN vis PROVE OnlyIn(vis, S) \in VersionMap
    OBVIOUS
  <2>1. OnlyIn(vis, S) \in [S -> 0 .. MaxSeq]
    BY <1>1 DEF OnlyIn
  <2> QED
    BY <1>1, <2>1, VersionMapElements
<1>4. DeltaOf(s, vis) \in DeltaType
  BY <1>1, <1>2, <1>3 DEF DeltaOf, DeltaType
<1>5. SeenAfter(s, vis) \in [DOMAIN vis -> 0 .. MaxSeq]
  BY <1>1, <1>2 DEF SeenAfter
<1> QED
  BY <1>1, <1>4, <1>5, VersionMapElements

(* What a browser makes of a delta. *)
LEMMA AppliedType ==
  ASSUME NEW t \in VersionMap, NEW delta \in DeltaType
  PROVE  Applied(t, delta) \in VersionMap
<1> DEFINE shown == (DOMAIN t \cup DOMAIN delta.Added) \ delta.Removed
<1>1. /\ t \in [DOMAIN t -> 0 .. MaxSeq] /\ DOMAIN t \subseteq EntityIDs
      /\ delta.Added \in [DOMAIN delta.Added -> 0 .. MaxSeq]
      /\ DOMAIN delta.Added \subseteq EntityIDs
      /\ delta.Updated \in [DOMAIN delta.Updated -> 0 .. MaxSeq]
  BY VersionMapElements DEF DeltaType
<1>2. Applied(t, delta) \in [shown -> 0 .. MaxSeq]
  BY <1>1 DEF Applied
<1>3. shown \in SUBSET EntityIDs
  BY <1>1
<1> QED
  BY <1>2, <1>3, VersionMapElements

(* A browser that holds what c.seen says, and then applies the delta,      *)
(* holds what c.seen says next: the delta and the record of it agree.      *)
LEMMA AppliedDelta ==
  ASSUME NEW s \in VersionMap, NEW vis \in VersionMap
  PROVE  Applied(s, DeltaOf(s, vis)) = SeenAfter(s, vis)
<1> DEFINE delta == DeltaOf(s, vis)
           known == DOMAIN s \cup DOMAIN delta.Added
<1>1. /\ delta.Added = [id \in DOMAIN vis \ DOMAIN s |-> vis[id]]
      /\ delta.Updated = [id \in Updates(s, vis) |-> vis[id]]
      /\ delta.Removed = DOMAIN s \ DOMAIN vis
      /\ Updates(s, vis) \subseteq DOMAIN s \cap DOMAIN vis
  BY DEF DeltaOf, OnlyIn, Gone, Updates
<1>2. known \ delta.Removed = DOMAIN vis
  BY <1>1
<1>3. (DOMAIN s \cup DOMAIN vis) \ Gone(s, vis) = DOMAIN vis
  BY DEF Gone
<1>4. Applied(s, delta) = [id \in DOMAIN vis |->
                             IF id \in DOMAIN s /\ id \notin Updates(s, vis)
                               THEN s[id] ELSE vis[id]]
  BY <1>1, <1>2 DEF Applied
<1> QED
  BY <1>3, <1>4 DEF SeenAfter

(* A delta with nothing in it changes nothing at the browser. *)
LEMMA AppliedNothing ==
  ASSUME NEW t \in VersionMap
  PROVE  Applied(t, NoDelta) = t
<1>1. t \in [DOMAIN t -> 0 .. MaxSeq]
  BY VersionMapElements
<1>2. DOMAIN NoDelta.Added = {} /\ DOMAIN NoDelta.Updated = {} /\ NoDelta.Removed = {}
  BY EmptyTypes DEF NoDelta
<1> QED
  BY <1>1, <1>2 DEF Applied

(* c.seen after a delta has the entities of the query, in no older version *)
(* than it had them before, and in the query's unless that was older.      *)
LEMMA SeenAfterVersions ==
  ASSUME NEW s \in VersionMap, NEW vis \in VersionMap
  PROVE  /\ DOMAIN SeenAfter(s, vis) = DOMAIN vis
         /\ \A id \in DOMAIN s \cap DOMAIN vis : SeenAfter(s, vis)[id] >= s[id]
         /\ \A id \in DOMAIN vis :
              SeenAfter(s, vis)[id] = vis[id]
                \/ (id \in DOMAIN s /\ SeenAfter(s, vis)[id] = s[id] /\ vis[id] <= s[id])
<1>1. /\ s \in [DOMAIN s -> 0 .. MaxSeq] /\ vis \in [DOMAIN vis -> 0 .. MaxSeq]
  BY VersionMapElements
<1>2. (DOMAIN s \cup DOMAIN vis) \ Gone(s, vis) = DOMAIN vis
  BY DEF Gone
<1>3. SeenAfter(s, vis) = [id \in DOMAIN vis |->
                             IF id \in DOMAIN s /\ id \notin Updates(s, vis)
                               THEN s[id] ELSE vis[id]]
  BY <1>2 DEF SeenAfter
<1> QED
  BY <1>1, <1>3, MaxSeqAssumption DEF Updates, IsNewer

-----------------------------------------------------------------------------
(* Queries and pushes. *)

(* What a query sees is a version map. *)
LEMMA VisibleType ==
  ASSUME TypesToo, NEW v \in Views
  PROVE  /\ Visible(v) \in VersionMap
         /\ DOMAIN Visible(v) = {e \in DOMAIN index : index[e].cell \in Covers[v]}
         /\ \A id \in DOMAIN Visible(v) : Visible(v)[id] = index[id].Version
<1> DEFINE shown == {e \in DOMAIN index : index[e].cell \in Covers[v]}
<1>1. DOMAIN index \subseteq EntityIDs /\ index \in [DOMAIN index -> Entry]
  BY DEF TypesToo
<1>2. Visible(v) \in [shown -> 0 .. MaxSeq]
  BY <1>1 DEF Visible, Entry
<1>3. shown \in SUBSET EntityIDs
  BY <1>1
<1> QED
  BY <1>2, <1>3, VersionMapElements DEF Visible

(* The poll a query sees, and its result. *)
LEMMA ResultTypes ==
  ASSUME TypesToo
  PROVE  Indexed \in 0 .. MaxSeq /\ \A v \in Views : Result(v) \in ResultType
<1>1. Indexed \in 0 .. MaxSeq
  BY MaxSeqAssumption DEF Indexed, TypesToo
<1> QED
  BY <1>1, VisibleType DEF Result, ResultType

(* NoResult and NoBasis are well-formed. *)
LEMMA NoResultTypes == NoResult \in ResultType /\ NoBasis \in BasisType
BY EmptyTypes, MaxSeqAssumption DEF NoResult, NoBasis, ResultType, BasisType, Views

(* The two outcomes of a push: the delta is in the channel, or it is not   *)
(* and, unless there was nothing to say, a browser misses it.              *)
LEMMA PushCases ==
  ASSUME Typed, NEW c \in Clients, NEW res, NEW who, Push(c, res, who)
  PROVE  /\ seen' = [seen EXCEPT ![c] = SeenAfter(seen[c], res.visible)]
         /\ basis' = IF up[c] THEN [basis EXCEPT ![c] = [view |-> res.view, at |-> res.at]]
                              ELSE basis
         /\ UNCHANGED <<up, targets>>
         /\ \/ /\ ch[c] = <<>>
               /\ ch' = [ch EXCEPT ![c] = <<DeltaOf(seen[c], res.visible)>>]
               /\ lastPush' = [lastPush EXCEPT ![c] = who]
               /\ broadcastTo' = IF who = "broadcast" THEN broadcastTo \cup {c} ELSE broadcastTo
               /\ dropped' = dropped
            \/ /\ UNCHANGED <<ch, lastPush, broadcastTo>>
               /\ dropped' = IF up[c] /\ DeltaOf(seen[c], res.visible) # NoDelta
                               THEN dropped \cup {c} ELSE dropped
BY DEF Push

(* What a push leaves well-typed. *)
LEMMA PushTypes ==
  ASSUME Typed, NEW c \in Clients, NEW res \in ResultType,
         NEW who \in {"viewport", "broadcast"}, Push(c, res, who), hpc[c] # "new"
  PROVE  /\ seen' \in [Clients -> VersionMap]
         /\ lastPush' \in [Clients -> {"old", "viewport", "broadcast"}]
         /\ broadcastTo' \subseteq {d \in Clients : lastPush'[d] # "old"}
         /\ ch' \in [Clients -> Seq(DeltaType)]
         /\ \A d \in Clients : ch'[d] = <<>> \/ (Len(ch'[d]) = 1 /\ ch'[d][1] \in DeltaType)
         /\ dropped' \in SUBSET Clients /\ basis' \in [Clients -> BasisType]
         /\ \A d \in Clients : ~up[d] => basis'[d] = basis[d] /\ (d \in dropped' => d \in dropped)
         /\ \A d \in Clients : hpc[d] = "new" => seen'[d] = seen[d] /\ ch'[d] = ch[d]
<1> DEFINE delta == DeltaOf(seen[c], res.visible)
<1>1. seen[c] \in VersionMap /\ res.visible \in VersionMap
  BY DEF Typed, TypeOK, ResultType
<1>2. SeenAfter(seen[c], res.visible) \in VersionMap /\ delta \in DeltaType
  BY <1>1, DeltaTypes
<1>3. /\ seen' = [seen EXCEPT ![c] = SeenAfter(seen[c], res.visible)]
      /\ basis' = IF up[c] THEN [basis EXCEPT ![c] = [view |-> res.view, at |-> res.at]]
                           ELSE basis
      /\ dropped' = dropped \/ (up[c] /\ dropped' = dropped \cup {c})
      /\ lastPush' = lastPush \/ lastPush' = [lastPush EXCEPT ![c] = who]
      /\ ch' = ch \/ ch' = [ch EXCEPT ![c] = <<delta>>]
  BY PushCases
<1> HIDE DEF delta
<1>4. seen' \in [Clients -> VersionMap]
  BY <1>2, <1>3 DEF Typed, TypeOK
<1>5. basis' \in [Clients -> BasisType]
  <2>1. [view |-> res.view, at |-> res.at] \in BasisType
    BY DEF ResultType, BasisType
  <2> QED
    BY <1>3, <2>1 DEF Typed, TypesToo
<1>6. /\ lastPush' \in [Clients -> {"old", "viewport", "broadcast"}]
      /\ dropped' \in SUBSET Clients
      /\ broadcastTo' \subseteq {d \in Clients : lastPush'[d] # "old"}
  <2>1. /\ lastPush \in [Clients -> {"old", "viewport", "broadcast"}] /\ dropped \in SUBSET Clients
        /\ broadcastTo \subseteq {d \in Clients : lastPush[d] # "old"}
    BY DEF Typed, TypeOK, TypesToo
  <2>2. [lastPush EXCEPT ![c] = who] \in [Clients -> {"old", "viewport", "broadcast"}]
    BY <2>1
  <2>3. \/ UNCHANGED <<lastPush, broadcastTo>>
        \/ /\ lastPush' = [lastPush EXCEPT ![c] = who]
           /\ broadcastTo' \subseteq broadcastTo \cup {c}
    BY PushCases
  <2>4. broadcastTo' \subseteq {d \in Clients : lastPush'[d] # "old"}
    BY <2>1, <2>3
  <2> QED
    BY <1>3, <2>1, <2>2, <2>4
<1>7. /\ ch' \in [Clients -> Seq(DeltaType)]
      /\ \A d \in Clients : ch'[d] = <<>> \/ (Len(ch'[d]) = 1 /\ ch'[d][1] \in DeltaType)
  <2>1. <<delta>> \in Seq(DeltaType) /\ Len(<<delta>>) = 1 /\ <<delta>>[1] = delta
    BY <1>2
  <2>2. CASE ch' = ch
    BY <2>2 DEF Typed, TypeOK, TypesToo
  <2>3. CASE ch' = [ch EXCEPT ![c] = <<delta>>]
    <3>1. \A d \in Clients : ch'[d] = IF d = c THEN <<delta>> ELSE ch[d]
      BY <2>3 DEF Typed, TypesToo
    <3>2. ch' \in [Clients -> Seq(DeltaType)]
      BY <2>1, <2>3 DEF Typed, TypesToo
    <3> QED
      BY <1>2, <2>1, <3>1, <3>2 DEF Typed, TypeOK
  <2> QED
    BY <1>3, <2>2, <2>3
<1>8. \A d \in Clients : ~up[d] => basis'[d] = basis[d] /\ (d \in dropped' => d \in dropped)
  BY <1>3 DEF Typed, TypesToo
<1>9. \A d \in Clients : hpc[d] = "new" => seen'[d] = seen[d] /\ ch'[d] = ch[d]
  BY <1>3 DEF Typed, TypeOK, TypesToo
<1> QED
  BY <1>4, <1>5, <1>6, <1>7, <1>8, <1>9

-----------------------------------------------------------------------------
(* Types, and who may be served. *)

(* Initially. *)
LEMMA InitTyped == Init => Typed
<1> SUFFICES ASSUME Init PROVE Typed
  OBVIOUS
<1>1. index \in [{} -> Entry]
  BY DEF Init, FeedInit
<1>2. TypeOK
  BY EmptyTypes, NoResultTypes DEF Init, TypeOK, Views, NoGroups
<1>3. TypesToo
  <2>1. ch \in [Clients -> Seq(DeltaType)] /\ basis \in [Clients -> BasisType]
    BY NoResultTypes DEF Init
  <2>2. index \in UNION {[S -> Entry] : S \in SUBSET EntityIDs}
    BY <1>1
  <2>3. /\ seq \in 0 .. MaxSeq /\ phase = "idle" /\ bpc = "wait" /\ group \in Views
        /\ ungrouped = {} /\ due = {} /\ eligible = {} /\ dropped = {}
    BY MaxSeqAssumption DEF Init, FeedInit, Views
  <2> QED
    BY <2>1, <2>2, <2>3 DEF TypesToo
<1>4. Fresh
  BY DEF Init, Fresh, NoGroups
<1> QED
  BY <1>2, <1>3, <1>4 DEF Typed

(* The store's steps and the wake-up. *)
LEMMA FeedTyped ==
  ASSUME Typed, StoreStep \/ NewHub \/ Wake
  PROVE  Typed'
<1>1. CASE StoreStep
  <2>1. UNCHANGED <<unswept, sweepVars>>
    BY <1>1 DEF StoreStep
  <2>2. TypeOK' /\ Fresh'
    BY <2>1 DEF unswept, sweepVars, roster, pushVars, handlerVars, pageVars, groupVars, serveVars,
       Typed, TypeOK, Fresh
  <2>3. /\ seq' \in 0 .. MaxSeq /\ phase' \in {"idle", "index", "publish"}
        /\ phase' = "index" => seq' > 0
    BY <1>1, MaxSeqAssumption DEF StoreStep, FeedStep, FeedBegin, FeedReindex, FeedPublish,
       Typed, TypesToo
  <2>4. index' \in UNION {[S -> Entry] : S \in SUBSET EntityIDs}
    <3>1. CASE FeedReindex
      <4>1. PICK changed \in SUBSET EntityIDs : \E kept \in SUBSET (DOMAIN index \ changed) :
              \E at \in [changed -> Cells] :
                index' = [id \in changed \cup kept |->
                            IF id \in changed THEN [Version |-> seq, cell |-> at[id]]
                                              ELSE index[id]]
        BY <3>1 DEF FeedReindex
      <4>2. PICK kept \in SUBSET (DOMAIN index \ changed), at \in [changed -> Cells] :
              index' = [id \in changed \cup kept |->
                          IF id \in changed THEN [Version |-> seq, cell |-> at[id]]
                                            ELSE index[id]]
        BY <4>1
      <4>3. index \in [DOMAIN index -> Entry] /\ DOMAIN index \subseteq EntityIDs /\ seq \in 0 .. MaxSeq
        BY DEF Typed, TypesToo
      <4>4. \A id \in changed : [Version |-> seq, cell |-> at[id]] \in Entry
        BY <4>3 DEF Entry
      <4>5. index' \in [changed \cup kept -> Entry] /\ changed \cup kept \in SUBSET EntityIDs
        BY <4>2, <4>3, <4>4
      <4> QED
        BY <4>5
    <3>2. CASE UNCHANGED index
      BY <3>2 DEF Typed, TypesToo
    <3> QED
      BY <1>1, <3>1, <3>2 DEF StoreStep, FeedStep, FeedBegin, FeedPublish
  <2>5. TypesToo'
    BY <2>1, <2>3, <2>4 DEF unswept, sweepVars, roster, pushVars, handlerVars, pageVars,
       groupVars, serveVars, Typed, TypesToo
  <2> QED
    BY <2>2, <2>5 DEF Typed
<1>2. CASE NewHub
  BY <1>2 DEF NewHub, FeedSubscribe, unswept, sweepVars, roster, pushVars, handlerVars, pageVars,
     groupVars, serveVars, Typed, TypeOK, TypesToo, Fresh
<1>3. CASE Wake
  <2>1. /\ bpc = "wait" /\ bpc' = "group" /\ ungrouped' = clients /\ due' = clients
        /\ UNCHANGED <<seq, index, phase, unswept, first, groups, serveVars, moved>>
    BY <1>3 DEF Wake, FeedReceive
  <2>2. TypeOK'
    BY <2>1 DEF unswept, roster, pushVars, handlerVars, pageVars, serveVars, Typed, TypeOK
  <2>3. TypesToo' /\ Fresh'
    BY <2>1 DEF unswept, roster, pushVars, handlerVars, pageVars, serveVars, Typed, TypeOK,
       TypesToo, Fresh
  <2> QED
    BY <2>2, <2>3 DEF Typed
<1> QED
  BY <1>1, <1>2, <1>3

(* A connection is accepted, or lost. *)
LEMMA ConnectionTyped ==
  ASSUME Typed, NEW c \in Clients, Register(c) \/ Disconnect(c) \/ Unregister(c)
  PROVE  Typed'
<1>1. CASE Register(c)
  <2>1. TypeOK' /\ TypesToo'
    BY <1>1 DEF Register, feedVars, pushVars, sweepVars, groupVars, serveVars,
       Typed, TypeOK, TypesToo
  <2>2. Fresh'
    BY <1>1 DEF Register, feedVars, pushVars, sweepVars, groupVars, serveVars,
       Typed, TypeOK, TypesToo, Fresh
  <2> QED
    BY <2>1, <2>2 DEF Typed
<1>2. CASE Disconnect(c)
  <2>1. TypeOK' /\ TypesToo'
    BY <1>2, EmptyTypes, NoResultTypes
       DEF Disconnect, feedVars, roster, pushVars, handlerVars, sweepVars, groupVars, serveVars,
       Typed, TypeOK, TypesToo
  <2>2. Fresh'
    BY <1>2 DEF Disconnect, feedVars, roster, pushVars, handlerVars, sweepVars, groupVars,
       serveVars, Typed, TypeOK, TypesToo, Fresh
  <2> QED
    BY <2>1, <2>2 DEF Typed
<1>3. CASE Unregister(c)
  <2>1. TypeOK' /\ TypesToo'
    BY <1>3 DEF Unregister, RegisteredAfter, feedVars, pushVars, sweepVars, groupVars, serveVars,
       pageVars, Typed, TypeOK, TypesToo
  <2>2. Fresh'
    BY <1>3 DEF Unregister, feedVars, pushVars, sweepVars, groupVars, serveVars, pageVars,
       Typed, TypeOK, TypesToo, Fresh
  <2> QED
    BY <2>1, <2>2 DEF Typed
<1> QED
  BY <1>1, <1>2, <1>3

(* A channel's only delta. *)
LEMMA OneDelta ==
  ASSUME NEW q \in Seq(DeltaType), Len(q) = 1
  PROVE  Head(q) = q[1] /\ Tail(q) = <<>>
<1>1. Tail(q) \in Seq(DeltaType) /\ Len(Tail(q)) = 0
  OBVIOUS
<1>2. Tail(q) = <<>>
  BY <1>1, EmptySeq
<1> QED
  BY <1>2

(* The handler's steps but the push. *)
LEMMA HandlerTyped ==
  ASSUME Typed, NEW c \in Clients,
         \/ \E v \in Viewports : SetViewport(c, v)
         \/ ViewportQuery(c) \/ TakeDelta(c) \/ WriteDelta(c) \/ Elapse(c) \/ ElapseBroadcast(c)
  PROVE  Typed'
<1>1. CASE \E v \in Viewports : SetViewport(c, v)
  <2>1. PICK v \in Views : SetViewport(c, v)
    BY <1>1 DEF Views
  <2>2. TypeOK' /\ TypesToo'
    BY <2>1 DEF SetViewport, feedVars, roster, pushVars, groupVars, serveVars, pageVars,
       Typed, TypeOK, TypesToo
  <2>3. Fresh'
    BY <2>1 DEF SetViewport, feedVars, roster, pushVars, groupVars, serveVars, pageVars,
       Typed, TypeOK, Fresh
  <2> QED
    BY <2>2, <2>3 DEF Typed
<1>2. CASE ViewportQuery(c)
  <2>1. Result(viewport[c]) \in ResultType
    BY ResultTypes DEF Typed, TypeOK
  <2>2. /\ hpc' \in [Clients -> {"new", "idle", "query", "push", "write", "exit", "done"}]
        /\ hres' \in [Clients -> ResultType]
        /\ hpc[c] = "query" /\ hpc'[c] \in {"idle", "push"}
        /\ \A d \in Clients \ {c} : hpc'[d] = hpc[d]
    BY <1>2, <2>1 DEF ViewportQuery, Typed, TypeOK
  <2>3. UNCHANGED <<feedVars, roster, viewport, pushVars, out, sweepVars, pageVars, crashed>>
    BY <1>2 DEF ViewportQuery
  <2>4. TypeOK' /\ TypesToo'
    BY <2>2, <2>3 DEF feedVars, roster, pushVars, sweepVars, groupVars, serveVars, pageVars,
       Typed, TypeOK, TypesToo
  <2>5. Fresh'
    BY <2>2, <2>3 DEF roster, pushVars, sweepVars, groupVars, serveVars, pageVars, Typed, Fresh
  <2> QED
    BY <2>4, <2>5 DEF Typed
<1>3. CASE TakeDelta(c)
  <2>1. /\ ch[c] # <<>> /\ Len(ch[c]) = 1 /\ ch[c][1] \in DeltaType /\ ch[c] \in Seq(DeltaType)
    BY <1>3 DEF TakeDelta, Typed, TypeOK, TypesToo
  <2>2. Head(ch[c]) = ch[c][1] /\ Tail(ch[c]) = <<>>
    BY <2>1, OneDelta
  <2>3. /\ ch' = [ch EXCEPT ![c] = <<>>] /\ out' = [out EXCEPT ![c] = ch[c][1]]
        /\ hpc[c] = "idle" /\ hpc' = [hpc EXCEPT ![c] = "write"]
        /\ UNCHANGED <<feedVars, roster, viewport, seen, lastPush, broadcastTo, hres, sweepVars,
                       pageVars>>
    BY <1>3, <2>2 DEF TakeDelta
  <2>4. TypeOK' /\ TypesToo'
    BY <2>1, <2>2, <2>3 DEF feedVars, roster, sweepVars, groupVars, serveVars, pageVars,
       Typed, TypeOK, TypesToo
  <2>5. Fresh'
    BY <2>3 DEF roster, sweepVars, groupVars, serveVars, pageVars, Typed, TypeOK, TypesToo, Fresh
  <2> QED
    BY <2>4, <2>5 DEF Typed
<1>4. CASE WriteDelta(c)
  <2>1. Applied(targets[c], out[c]) \in VersionMap
    BY AppliedType DEF Typed, TypeOK
  <2>2. /\ hpc[c] = "write" /\ out' = [out EXCEPT ![c] = NoDelta]
        /\ hpc' \in [Clients -> {"new", "idle", "query", "push", "write", "exit", "done"}]
        /\ targets' \in [Clients -> VersionMap]
        /\ hpc'[c] = IF up[c] THEN "idle" ELSE "exit"
        /\ ~up[c] => targets' = targets
        /\ \A d \in Clients \ {c} : hpc'[d] = hpc[d] /\ targets'[d] = targets[d]
    BY <1>4, <2>1 DEF WriteDelta, Typed, TypeOK
  <2>3. UNCHANGED <<feedVars, roster, viewport, pushVars, hres, sweepVars, up, basis, dropped>>
    BY <1>4 DEF WriteDelta
  <2>4. TypeOK' /\ TypesToo'
    BY <2>2, <2>3, EmptyTypes DEF feedVars, roster, pushVars, sweepVars, groupVars, serveVars,
       Typed, TypeOK, TypesToo
  <2>5. Fresh'
    BY <2>2, <2>3 DEF pushVars, sweepVars, groupVars, serveVars, Typed, TypeOK, Fresh
  <2> QED
    BY <2>4, <2>5 DEF Typed
<1>5. CASE Elapse(c)
  BY <1>5 DEF Elapse, feedVars, roster, handlerVars, sweepVars, groupVars, serveVars, pageVars,
     Typed, TypeOK, TypesToo, Fresh
<1>6. CASE ElapseBroadcast(c)
  BY <1>6 DEF ElapseBroadcast, feedVars, roster, handlerVars, sweepVars, groupVars, serveVars,
     pageVars, Typed, TypeOK, TypesToo, Fresh
<1> QED
  BY <1>1, <1>2, <1>3, <1>4, <1>5, <1>6

(* The two kinds of push. *)
LEMMA PushTyped ==
  ASSUME Typed, NEW c \in Clients, ViewportPush(c) \/ ComputeAndSend(c)
  PROVE  Typed'
<1>1. CASE ViewportPush(c)
  <2>1. /\ hpc[c] = "push" /\ Push(c, hres[c], "viewport") /\ hres[c] \in ResultType
        /\ hpc' = [hpc EXCEPT ![c] = "idle"] /\ hres' = [hres EXCEPT ![c] = NoResult]
        /\ UNCHANGED <<feedVars, roster, viewport, out, sweepVars>>
    BY <1>1 DEF ViewportPush, Typed, TypeOK
  <2>2. UNCHANGED <<up, targets>>
    BY <2>1, PushCases
  <2>3. /\ seen' \in [Clients -> VersionMap]
        /\ lastPush' \in [Clients -> {"old", "viewport", "broadcast"}]
        /\ broadcastTo' \subseteq {d \in Clients : lastPush'[d] # "old"}
        /\ ch' \in [Clients -> Seq(DeltaType)]
        /\ \A d \in Clients : ch'[d] = <<>> \/ (Len(ch'[d]) = 1 /\ ch'[d][1] \in DeltaType)
        /\ dropped' \in SUBSET Clients /\ basis' \in [Clients -> BasisType]
        /\ \A d \in Clients : ~up[d] => basis'[d] = basis[d] /\ (d \in dropped' => d \in dropped)
        /\ \A d \in Clients : hpc[d] = "new" => seen'[d] = seen[d] /\ ch'[d] = ch[d]
    BY <2>1, PushTypes
  <2>4. TypeOK' /\ TypesToo'
    BY <2>1, <2>2, <2>3, NoResultTypes DEF feedVars, roster, sweepVars, groupVars, serveVars,
       Typed, TypeOK, TypesToo
  <2>5. Fresh'
    <3>1. /\ \A d \in Clients : hpc'[d] = IF d = c THEN "idle" ELSE hpc[d]
          /\ UNCHANGED <<up, targets, out, ungrouped, eligible, groups>>
      BY <2>1, <2>2 DEF sweepVars, groupVars, serveVars, Typed, TypeOK
    <3> SUFFICES ASSUME NEW d \in Clients
                 PROVE  /\ hpc'[d] = "new" =>
                             /\ seen'[d] = Empty /\ ch'[d] = <<>>
                             /\ d \notin ungrouped' \cup eligible'
                             /\ \A v \in Views : d \notin groups'[v]
                        /\ up'[d] => hpc'[d] \notin {"new", "exit", "done"}
                        /\ ~up'[d] => targets'[d] = Empty /\ basis'[d] = NoBasis /\ d \notin dropped'
                        /\ hpc'[d] # "write" => out'[d] = NoDelta
      BY DEF Fresh
    <3>2. hpc'[d] = "new" => hpc[d] = "new"
      BY <3>1
    <3>3. hpc'[d] # "write" => hpc[d] # "write"
      BY <2>1, <3>1
    <3>4. up'[d] => hpc'[d] \notin {"new", "exit", "done"}
      BY <2>1, <3>1 DEF Typed, Fresh
    <3> QED
      BY <2>3, <3>1, <3>2, <3>3, <3>4 DEF Typed, Fresh
  <2> QED
    BY <2>4, <2>5 DEF Typed
<1>2. CASE ComputeAndSend(c)
  <2>1. /\ bpc = "send" /\ c \in eligible /\ hpc[c] # "new"
        /\ Push(c, bres, "broadcast") /\ bres \in ResultType
        /\ eligible' = eligible \ {c}
        /\ IF eligible' = {} THEN bpc' = "sweep" /\ bres' = NoResult ELSE UNCHANGED <<bpc, bres>>
        /\ UNCHANGED <<feedVars, roster, viewport, handlerVars, groupVars, group, due, moved>>
    BY <1>2 DEF ComputeAndSend, Typed, TypeOK, Fresh
  <2>2. UNCHANGED <<up, targets>>
    BY <2>1, PushCases
  <2>3. /\ seen' \in [Clients -> VersionMap]
        /\ lastPush' \in [Clients -> {"old", "viewport", "broadcast"}]
        /\ broadcastTo' \subseteq {d \in Clients : lastPush'[d] # "old"}
        /\ ch' \in [Clients -> Seq(DeltaType)]
        /\ \A d \in Clients : ch'[d] = <<>> \/ (Len(ch'[d]) = 1 /\ ch'[d][1] \in DeltaType)
        /\ dropped' \in SUBSET Clients /\ basis' \in [Clients -> BasisType]
        /\ \A d \in Clients : ~up[d] => basis'[d] = basis[d] /\ (d \in dropped' => d \in dropped)
        /\ \A d \in Clients : hpc[d] = "new" => seen'[d] = seen[d] /\ ch'[d] = ch[d]
    BY <2>1, PushTypes
  <2>4. TypeOK' /\ TypesToo'
    BY <2>1, <2>2, <2>3, NoResultTypes DEF feedVars, roster, handlerVars, groupVars,
       Typed, TypeOK, TypesToo
  <2>5. Fresh'
    BY <2>1, <2>2, <2>3 DEF handlerVars, groupVars, Typed, TypeOK, Fresh
  <2> QED
    BY <2>4, <2>5 DEF Typed
<1> QED
  BY <1>1, <1>2

(* The rest of a sweep. *)
LEMMA SweepTyped ==
  ASSUME Typed,
         \/ \E c \in Clients : GroupKey(c)
         \/ GroupAppend \/ Grouped \/ GroupQuery \/ Swept
         \/ \E v \in Views : Filter(v)
  PROVE  Typed'
<1>1. CASE \E c \in Clients : GroupKey(c)
  <2>1. PICK c \in Clients : GroupKey(c)
    BY <1>1
  <2>2. UNCHANGED <<feedVars, unswept, ungrouped, groups, serveVars, due, moved>>
    BY <2>1 DEF GroupKey
  <2>3. /\ bpc = "group" /\ bpc' = "regroup" /\ first' \in [client : Clients, view : Views]
        /\ first'.client = c /\ c \in ungrouped
    BY <2>1 DEF GroupKey, Typed, TypeOK
  <2>4. TypeOK' /\ TypesToo' /\ Fresh'
    BY <2>2, <2>3 DEF feedVars, unswept, roster, pushVars, handlerVars, pageVars, serveVars,
       Typed, TypeOK, TypesToo, Fresh
  <2> QED
    BY <2>4 DEF Typed
<1>2. CASE GroupAppend
  <2> DEFINE c == first.client
             value == viewport[c]
  <2>1. UNCHANGED <<feedVars, unswept, serveVars, due, moved>>
    BY <1>2 DEF GroupAppend
  <2>2. /\ bpc = "regroup" /\ bpc' = "group" /\ ungrouped' = ungrouped \ {c}
        /\ first.view \in Views /\ c \in Clients /\ c \in ungrouped /\ value \in Views
        /\ groups' = [groups EXCEPT ![first.view] = groups[value] \cup {c}]
    BY <1>2 DEF GroupAppend, Joined, Typed, TypeOK, TypesToo
  <2> HIDE DEF c, value
  <2>3. groups' \in [Views -> SUBSET Clients]
    BY <2>2 DEF Typed, TypeOK
  <2>4. TypeOK' /\ TypesToo'
    BY <2>1, <2>2, <2>3 DEF feedVars, unswept, roster, pushVars, handlerVars, pageVars, serveVars,
       Typed, TypeOK, TypesToo
  <2>5. Fresh'
    <3>1. \A d \in Clients : hpc[d] = "new" =>
            d \notin ungrouped' \cup eligible' /\ \A v \in Views : d \notin groups'[v]
      BY <2>1, <2>2 DEF serveVars, Typed, TypeOK, Fresh
    <3> QED
      BY <2>1, <3>1 DEF unswept, roster, pushVars, handlerVars, pageVars, Typed, Fresh
  <2> QED
    BY <2>4, <2>5 DEF Typed
<1>3. CASE Grouped
  BY <1>3 DEF Grouped, feedVars, unswept, roster, pushVars, handlerVars, pageVars, groupVars,
     serveVars, Typed, TypeOK, TypesToo, Fresh
<1>4. CASE GroupQuery
  <2>1. /\ bpc = "query" /\ group' = NoView /\ NoView \in Views
        /\ UNCHANGED <<feedVars, unswept, groupVars, due, moved>>
        /\ \/ bpc' = "sweep" /\ eligible' = {} /\ bres' = bres
           \/ bpc' = "send" /\ bres' = Result(group) /\ eligible' = eligible
    BY <1>4 DEF GroupQuery, Views
  <2>2. bres' \in ResultType
    BY <2>1, ResultTypes DEF Typed, TypeOK, TypesToo
  <2>3. TypeOK' /\ TypesToo' /\ Fresh'
    BY <2>1, <2>2 DEF feedVars, unswept, roster, pushVars, handlerVars, pageVars, groupVars,
       Typed, TypeOK, TypesToo, Fresh
  <2> QED
    BY <2>3 DEF Typed
<1>5. CASE Swept
  BY <1>5 DEF Swept, feedVars, unswept, roster, pushVars, handlerVars, pageVars, groupVars,
     serveVars, Typed, TypeOK, TypesToo, Fresh
<1>6. CASE \E v \in Views : Filter(v)
  <2>1. PICK v \in Views : Filter(v)
    BY <1>6
  <2> DEFINE can == {c \in groups[v] : IsEligible(c)}
  <2>2. /\ bpc = "sweep" /\ groups' = [groups EXCEPT ![v] = {}] /\ due' = due \ groups[v]
        /\ \/ can = {} /\ UNCHANGED <<bpc, group, eligible>>
           \/ can # {} /\ bpc' = "query" /\ group' = v /\ eligible' = can
        /\ UNCHANGED <<feedVars, unswept, ungrouped, first, bres, moved>>
        /\ can \subseteq groups[v] /\ groups[v] \in SUBSET Clients
    BY <2>1 DEF Filter, Typed, TypeOK
  <2> HIDE DEF can
  <2>3. TypeOK' /\ TypesToo'
    BY <2>2 DEF feedVars, unswept, roster, pushVars, handlerVars, pageVars, Typed, TypeOK, TypesToo
  <2>4. Fresh'
    <3>1. \A d \in Clients : hpc[d] = "new" =>
            d \notin ungrouped' \cup eligible' /\ \A w \in Views : d \notin groups'[w]
      BY <2>2 DEF Typed, TypeOK, Fresh
    <3> QED
      BY <2>2, <3>1 DEF unswept, roster, pushVars, handlerVars, pageVars, Typed, Fresh
  <2> QED
    BY <2>3, <2>4 DEF Typed
<1> QED
  BY <1>1, <1>2, <1>3, <1>4, <1>5, <1>6

(* Together: no step breaks the types. *)
LEMMA NextTyped ==
  ASSUME Typed, [Next]_vars
  PROVE  Typed'
<1>1. CASE UNCHANGED vars
  BY <1>1 DEF vars, feedVars, roster, pushVars, handlerVars, sweepVars, groupVars, serveVars,
     pageVars, Typed, TypeOK, TypesToo, Fresh
<1>2. CASE Sweep
  BY <1>2, PushTyped, SweepTyped DEF Sweep
<1>3. CASE \E c \in Clients : Handler(c) \/ Disconnect(c) \/ Elapse(c) \/ ElapseBroadcast(c)
  BY <1>3, ConnectionTyped, HandlerTyped, PushTyped DEF Handler
<1> QED
  BY <1>1, <1>2, <1>3, FeedTyped DEF Next

-----------------------------------------------------------------------------
(* What the browser will hold. *)

browserVars == <<seen, ch, out, up, targets, basis, dropped>>

(* The steps that touch what is on its way to a browser. *)
LEMMA BrowserSteps ==
  ASSUME [Next]_vars
  PROVE  \/ UNCHANGED browserVars
         \/ \E c \in Clients :
              \/ Register(c) \/ Disconnect(c) \/ TakeDelta(c) \/ WriteDelta(c)
              \/ ViewportPush(c) \/ ComputeAndSend(c)
<1> USE DEF browserVars, pushVars, handlerVars, pageVars
<1>1. CASE UNCHANGED vars
  BY <1>1 DEF vars
<1>2. CASE StoreStep \/ NewHub \/ Wake
  BY <1>2 DEF StoreStep, NewHub, Wake, unswept
<1>3. CASE Sweep
  BY <1>3 DEF Sweep, GroupKey, GroupAppend, Grouped, GroupQuery, Swept, Filter, unswept
<1>4. CASE \E c \in Clients : Handler(c) \/ Disconnect(c) \/ Elapse(c) \/ ElapseBroadcast(c)
  BY <1>4 DEF Handler, SetViewport, ViewportQuery, Unregister, Elapse, ElapseBroadcast
<1> QED
  BY <1>1, <1>2, <1>3, <1>4 DEF Next

(* The invariant's heart: a push that reaches the channel extends what is  *)
(* in flight by the very difference it records in c.seen.                  *)
LEMMA PushMirrors ==
  ASSUME Typed, SeenMirrorsBrowser, NEW c \in Clients, NEW res \in ResultType, NEW who,
         Push(c, res, who), out' = out
  PROVE  SeenMirrorsBrowser'
<1> DEFINE delta == DeltaOf(seen[c], res.visible)
<1>0. /\ seen' = [seen EXCEPT ![c] = SeenAfter(seen[c], res.visible)]
      /\ UNCHANGED <<up, targets, out>>
      /\ \/ ch[c] = <<>> /\ ch' = [ch EXCEPT ![c] = <<delta>>] /\ dropped' = dropped
         \/ /\ ch' = ch
            /\ dropped' = IF up[c] /\ delta # NoDelta THEN dropped \cup {c} ELSE dropped
  BY PushCases
<1>1. /\ seen \in [Clients -> VersionMap] /\ ch \in [Clients -> Seq(DeltaType)]
      /\ res.visible \in VersionMap
  BY DEF Typed, TypeOK, TypesToo, ResultType
<1>2. Applied(seen[c], delta) = SeenAfter(seen[c], res.visible)
  BY <1>1, AppliedDelta
<1>3. delta = NoDelta => SeenAfter(seen[c], res.visible) = seen[c]
  BY <1>1, <1>2, AppliedNothing
<1> HIDE DEF delta
<1> SUFFICES ASSUME NEW d \in Clients, up[d], d \notin dropped'
             PROVE  seen'[d] = InFlight(d)'
  BY <1>0 DEF SeenMirrorsBrowser
<1>4. d \notin dropped /\ seen[d] = InFlight(d)
  BY <1>0 DEF SeenMirrorsBrowser
<1>5. CASE d # c
  BY <1>0, <1>1, <1>4, <1>5 DEF InFlight
<1>6. CASE d = c /\ ch' = ch
  <2>1. delta = NoDelta \/ (ch[c] = <<>> /\ ch'[c] = <<delta>>)
    BY <1>0, <1>1, <1>6
  <2>2. delta = NoDelta
    BY <1>6, <2>1
  <2> QED
    BY <1>0, <1>1, <1>3, <1>4, <1>6, <2>2 DEF InFlight
<1>7. CASE d = c /\ ch[c] = <<>> /\ ch' = [ch EXCEPT ![c] = <<delta>>]
  <2>1. ch'[c] = <<delta>> /\ ch'[c] # <<>> /\ ch'[c][1] = delta
    BY <1>1, <1>7
  <2>2. seen[c] = Applied(targets[c], out[c])
    BY <1>4, <1>7 DEF InFlight
  <2>3. InFlight(c)' = Applied(seen[c], delta)
    BY <1>0, <2>1, <2>2 DEF InFlight
  <2> QED
    BY <1>0, <1>1, <1>2, <1>7, <2>3
<1> QED
  BY <1>0, <1>5, <1>6, <1>7

(* No step makes c.seen and an undropped browser differ. *)
LEMMA NextMirrors ==
  ASSUME Typed, SeenMirrorsBrowser, [Next]_vars
  PROVE  SeenMirrorsBrowser'
<1>0. /\ seen \in [Clients -> VersionMap] /\ targets \in [Clients -> VersionMap]
      /\ ch \in [Clients -> Seq(DeltaType)] /\ out \in [Clients -> DeltaType]
      /\ up \in [Clients -> BOOLEAN]
  BY DEF Typed, TypeOK, TypesToo
<1>1. CASE UNCHANGED browserVars
  BY <1>1 DEF browserVars, SeenMirrorsBrowser, InFlight
<1>2. ASSUME NEW c \in Clients, Register(c)
      PROVE  SeenMirrorsBrowser'
  <2>1. /\ up' = [up EXCEPT ![c] = TRUE] /\ UNCHANGED <<seen, ch, out, targets, dropped>>
        /\ hpc[c] = "new"
    BY <1>2 DEF Register, pushVars
  <2>2. /\ seen[c] = Empty /\ ch[c] = <<>> /\ out[c] = NoDelta /\ targets[c] = Empty
    BY <2>1 DEF Typed, Fresh
  <2>3. InFlight(c)' = Empty
    BY <2>1, <2>2, AppliedNothing, EmptyTypes DEF InFlight
  <2> QED
    BY <1>0, <2>1, <2>2, <2>3 DEF SeenMirrorsBrowser, InFlight
<1>3. ASSUME NEW c \in Clients, Disconnect(c)
      PROVE  SeenMirrorsBrowser'
  <2>1. /\ up' = [up EXCEPT ![c] = FALSE] /\ targets' = [targets EXCEPT ![c] = Empty]
        /\ dropped' = dropped \ {c} /\ UNCHANGED <<seen, ch, out>>
    BY <1>3 DEF Disconnect, pushVars, handlerVars
  <2> QED
    BY <1>0, <2>1 DEF SeenMirrorsBrowser, InFlight
<1>4. ASSUME NEW c \in Clients, TakeDelta(c)
      PROVE  SeenMirrorsBrowser'
  <2>1. /\ out' = [out EXCEPT ![c] = Head(ch[c])] /\ ch' = [ch EXCEPT ![c] = Tail(@)]
        /\ hpc[c] = "idle" /\ ch[c] # <<>> /\ UNCHANGED <<seen, up, targets, dropped>>
    BY <1>4 DEF TakeDelta, pageVars
  <2>2. Len(ch[c]) = 1 /\ out[c] = NoDelta
    BY <2>1 DEF Typed, TypeOK, Fresh
  <2>3. ch[c] \in Seq(DeltaType)
    BY <1>0
  <2>4. ch'[c] = <<>> /\ out'[c] = ch[c][1]
    BY <1>0, <2>1, <2>2, <2>3, OneDelta
  <2>5. InFlight(c)' = InFlight(c)
    BY <1>0, <2>1, <2>2, <2>4, AppliedNothing DEF InFlight
  <2> QED
    BY <1>0, <2>1, <2>5 DEF SeenMirrorsBrowser, InFlight
<1>5. ASSUME NEW c \in Clients, WriteDelta(c)
      PROVE  SeenMirrorsBrowser'
  <2>1. /\ targets' = IF up[c] THEN [targets EXCEPT ![c] = Applied(@, out[c])] ELSE targets
        /\ out' = [out EXCEPT ![c] = NoDelta] /\ UNCHANGED <<seen, ch, up, dropped>>
    BY <1>5 DEF WriteDelta, pushVars
  <2>2. CASE up[c]
    <3>1. targets'[c] = Applied(targets[c], out[c]) /\ out'[c] = NoDelta
      BY <1>0, <2>1, <2>2
    <3>2. Applied(targets'[c], out'[c]) = Applied(targets[c], out[c])
      BY <1>0, <3>1, AppliedType, AppliedNothing
    <3>3. InFlight(c)' = InFlight(c)
      BY <2>1, <3>2 DEF InFlight
    <3> QED
      BY <1>0, <2>1, <2>2, <3>3 DEF SeenMirrorsBrowser, InFlight
  <2>3. CASE ~up[c]
    BY <1>0, <2>1, <2>3 DEF SeenMirrorsBrowser, InFlight
  <2> QED
    BY <2>2, <2>3
<1>6. ASSUME NEW c \in Clients, ViewportPush(c) \/ ComputeAndSend(c)
      PROVE  SeenMirrorsBrowser'
  <2>1. CASE ViewportPush(c)
    BY <2>1, PushMirrors DEF ViewportPush, Typed, TypeOK
  <2>2. CASE ComputeAndSend(c)
    BY <2>2, PushMirrors DEF ComputeAndSend, handlerVars, Typed, TypeOK
  <2> QED
    BY <1>6, <2>1, <2>2
<1> QED
  BY BrowserSteps, <1>1, <1>2, <1>3, <1>4, <1>5, <1>6

-----------------------------------------------------------------------------
(* No delta takes an entity back. *)

(* The delta computed against what a browser will hold takes nothing back. *)
LEMMA DeltaGrows ==
  ASSUME NEW s \in VersionMap, NEW vis \in VersionMap
  PROVE  Grows(s, DeltaOf(s, vis))
<1>1. Applied(s, DeltaOf(s, vis)) = SeenAfter(s, vis)
  BY AppliedDelta
<1>2. /\ DOMAIN SeenAfter(s, vis) = DOMAIN vis
      /\ \A id \in DOMAIN s \cap DOMAIN vis : SeenAfter(s, vis)[id] >= s[id]
  BY SeenAfterVersions
<1> QED
  BY <1>1, <1>2 DEF Grows

(* Nor does one with nothing in it. *)
LEMMA NothingGrows ==
  ASSUME NEW t \in VersionMap
  PROVE  Grows(t, NoDelta)
<1>1. Applied(t, NoDelta) = t /\ t \in [DOMAIN t -> 0 .. MaxSeq]
  BY AppliedNothing, VersionMapElements
<1> QED
  BY <1>1, MaxSeqAssumption DEF Grows

(* A push is computed against c.seen, which is what an undropped browser   *)
(* will hold when the delta comes.                                         *)
LEMMA PushForward ==
  ASSUME Typed, SeenMirrorsBrowser, Forward, NEW c \in Clients, NEW res \in ResultType, NEW who,
         Push(c, res, who), out' = out
  PROVE  Forward'
<1> DEFINE delta == DeltaOf(seen[c], res.visible)
<1>0. /\ UNCHANGED <<up, targets, out>>
      /\ \/ ch[c] = <<>> /\ ch' = [ch EXCEPT ![c] = <<delta>>] /\ dropped' = dropped
         \/ ch' = ch /\ dropped \subseteq dropped'
  BY PushCases
<1>1. ch \in [Clients -> Seq(DeltaType)]
  BY DEF Typed, TypesToo
<1>2. Grows(seen[c], delta)
  BY DeltaGrows DEF Typed, TypeOK, ResultType
<1> HIDE DEF delta
<1> SUFFICES ASSUME NEW d \in Clients, up[d], d \notin dropped'
             PROVE  /\ Grows(targets[d], out[d])
                    /\ ch'[d] # <<>> => Grows(Applied(targets[d], out[d]), ch'[d][1])
  BY <1>0 DEF Forward
<1>3. d \notin dropped
  BY <1>0
<1>4. CASE ch'[d] = ch[d]
  BY <1>3, <1>4 DEF Forward
<1>5. CASE d = c /\ ch[c] = <<>> /\ ch' = [ch EXCEPT ![c] = <<delta>>]
  <2>1. ch'[d][1] = delta
    BY <1>1, <1>5
  <2>2. seen[c] = Applied(targets[c], out[c])
    BY <1>3, <1>5 DEF SeenMirrorsBrowser, InFlight
  <2> QED
    BY <1>2, <1>3, <1>5, <2>1, <2>2 DEF Forward
<1> QED
  BY <1>0, <1>1, <1>4, <1>5

(* No step puts a delta on its way that would take an entity back. *)
LEMMA NextForward ==
  ASSUME Typed, SeenMirrorsBrowser, Forward, [Next]_vars
  PROVE  Forward'
<1>0. /\ targets \in [Clients -> VersionMap] /\ ch \in [Clients -> Seq(DeltaType)]
      /\ out \in [Clients -> DeltaType] /\ up \in [Clients -> BOOLEAN]
  BY DEF Typed, TypeOK, TypesToo
<1>1. CASE UNCHANGED browserVars
  BY <1>1 DEF browserVars, Forward
<1>2. ASSUME NEW c \in Clients, Register(c)
      PROVE  Forward'
  <2>1. /\ up' = [up EXCEPT ![c] = TRUE] /\ UNCHANGED <<ch, out, targets, dropped>>
        /\ hpc[c] = "new"
    BY <1>2 DEF Register, pushVars
  <2>2. ch[c] = <<>> /\ out[c] = NoDelta
    BY <2>1 DEF Typed, Fresh
  <2>3. Grows(targets[c], out[c])
    BY <1>0, <2>2, NothingGrows
  <2> QED
    BY <1>0, <2>1, <2>2, <2>3 DEF Forward
<1>3. ASSUME NEW c \in Clients, Disconnect(c)
      PROVE  Forward'
  <2>1. /\ up' = [up EXCEPT ![c] = FALSE] /\ targets' = [targets EXCEPT ![c] = Empty]
        /\ dropped' = dropped \ {c} /\ UNCHANGED <<ch, out>>
    BY <1>3 DEF Disconnect, pushVars, handlerVars
  <2> QED
    BY <1>0, <2>1 DEF Forward
<1>4. ASSUME NEW c \in Clients, TakeDelta(c)
      PROVE  Forward'
  <2>1. /\ out' = [out EXCEPT ![c] = Head(ch[c])] /\ ch' = [ch EXCEPT ![c] = Tail(@)]
        /\ hpc[c] = "idle" /\ ch[c] # <<>> /\ UNCHANGED <<up, targets, dropped>>
    BY <1>4 DEF TakeDelta, pageVars
  <2>2. Len(ch[c]) = 1 /\ out[c] = NoDelta
    BY <2>1 DEF Typed, TypeOK, Fresh
  <2>3. ch'[c] = <<>> /\ out'[c] = ch[c][1]
    BY <1>0, <2>1, <2>2, OneDelta
  <2>4. Applied(targets[c], out[c]) = targets[c]
    BY <1>0, <2>2, AppliedNothing
  <2> QED
    BY <1>0, <2>1, <2>3, <2>4 DEF Forward
<1>5. ASSUME NEW c \in Clients, WriteDelta(c)
      PROVE  Forward'
  <2>1. /\ targets' = IF up[c] THEN [targets EXCEPT ![c] = Applied(@, out[c])] ELSE targets
        /\ out' = [out EXCEPT ![c] = NoDelta] /\ UNCHANGED <<ch, up, dropped>>
    BY <1>5 DEF WriteDelta, pushVars
  <2>2. CASE up[c]
    <3>1. targets'[c] = Applied(targets[c], out[c]) /\ out'[c] = NoDelta
      BY <1>0, <2>1, <2>2
    <3>2. Applied(targets'[c], out'[c]) = targets'[c] /\ Grows(targets'[c], out'[c])
      BY <1>0, <3>1, AppliedType, AppliedNothing, NothingGrows
    <3> QED
      BY <1>0, <2>1, <2>2, <3>1, <3>2 DEF Forward
  <2>3. CASE ~up[c]
    BY <1>0, <2>1, <2>3 DEF Forward
  <2> QED
    BY <2>2, <2>3
<1>6. ASSUME NEW c \in Clients, ViewportPush(c) \/ ComputeAndSend(c)
      PROVE  Forward'
  <2>1. CASE ViewportPush(c)
    BY <2>1, PushForward DEF ViewportPush, Typed, TypeOK
  <2>2. CASE ComputeAndSend(c)
    BY <2>2, PushForward DEF ComputeAndSend, handlerVars, Typed, TypeOK
  <2> QED
    BY <1>6, <2>1, <2>2
<1> QED
  BY BrowserSteps, <1>1, <1>2, <1>3, <1>4, <1>5, <1>6

-----------------------------------------------------------------------------
(* How old what is shown is. *)

(* What a query sees now is dated and current, and so is no result at all. *)
LEMMA ResultExact ==
  ASSUME TypesToo, Dating
  PROVE  /\ \A v \in Views : Dated(Result(v).visible) /\ Current(Result(v))
         /\ Dated(NoResult.visible) /\ Current(NoResult)
<1>1. Indexed \in 0 .. MaxSeq
  BY ResultTypes
<1>2. ASSUME NEW v \in Views
      PROVE  Dated(Result(v).visible) /\ Current(Result(v))
  <2>1. Result(v).visible = Visible(v) /\ Result(v).at = Indexed /\ Result(v).view = v
    BY DEF Result
  <2>2. Dated(Visible(v))
    <3> SUFFICES ASSUME NEW id \in DOMAIN Visible(v)
                 PROVE  /\ Visible(v)[id] <= Indexed
                        /\ id \in DOMAIN index => Visible(v)[id] <= index[id].Version
      BY DEF Dated
    <3>1. id \in DOMAIN index /\ Visible(v)[id] = index[id].Version
      BY VisibleType
    <3>2. index[id] \in Entry
      BY <3>1 DEF TypesToo
    <3> QED
      BY <3>1, <3>2, MaxSeqAssumption DEF Dating, Entry
  <2> QED
    BY <1>1, <2>1, <2>2 DEF Current
<1>3. Dated(NoResult.visible)
  BY EmptyTypes DEF NoResult, Dated
<1>4. Current(NoResult)
  <2>1. NoResult.visible = Empty /\ NoResult.at = 0 /\ NoResult.view = NoView
    BY DEF NoResult
  <2>2. DOMAIN Visible(NoView) = {}
    BY VisibleType, CoversAssumption DEF Views
  <2>3. Visible(NoView) = Empty
    BY <2>2 DEF Visible, Empty
  <2> QED
    BY <1>1, <2>1, <2>3 DEF Current
<1> QED
  BY <1>2, <1>3, <1>4

(* After a push computed from the newest poll c.seen is what the query     *)
(* saw: no version in it can be newer.                                     *)
LEMMA PushExact ==
  ASSUME Typed, Exact, NEW c \in Clients, NEW res \in ResultType, NEW who,
         Push(c, res, who), Dated(res.visible), Current(res)
  PROVE  \A d \in Clients :
           /\ Dated(seen'[d]) /\ basis'[d].at <= Indexed
           /\ up[d] /\ basis'[d].at = Indexed => seen'[d] = Visible(basis'[d].view)
<1> DEFINE vis == res.visible
           after == SeenAfter(seen[c], vis)
<1>1. /\ seen \in [Clients -> VersionMap] /\ vis \in VersionMap /\ res.view \in Views
      /\ basis \in [Clients -> BasisType]
      /\ after \in VersionMap
  BY DeltaTypes DEF Typed, TypeOK, TypesToo, ResultType
<1>2. /\ seen' = [seen EXCEPT ![c] = after]
      /\ basis' = IF up[c] THEN [basis EXCEPT ![c] = [view |-> res.view, at |-> res.at]]
                           ELSE basis
  BY PushCases
<1>3. /\ DOMAIN after = DOMAIN vis
      /\ \A id \in DOMAIN vis :
           \/ after[id] = vis[id]
           \/ id \in DOMAIN seen[c] /\ after[id] = seen[c][id] /\ vis[id] <= seen[c][id]
  BY <1>1, SeenAfterVersions
<1>4. Dated(seen[c])
  BY DEF Exact, Dating
<1> HIDE DEF after
<1>5. Dated(after)
  BY <1>3, <1>4 DEF Dated
<1>6. res.at = Indexed => after = Visible(res.view)
  <2> SUFFICES ASSUME res.at = Indexed PROVE after = Visible(res.view)
    OBVIOUS
  <2>1. vis = Visible(res.view)
    BY DEF Current
  <2>2. \A id \in DOMAIN vis : after[id] = vis[id]
    <3> SUFFICES ASSUME NEW id \in DOMAIN vis, id \in DOMAIN seen[c],
                        after[id] = seen[c][id], vis[id] <= seen[c][id]
                 PROVE  after[id] = vis[id]
      BY <1>3
    <3>1. vis[id] = index[id].Version /\ id \in DOMAIN index
      BY <1>1, <2>1, VisibleType DEF Typed
    <3>2. seen[c][id] <= vis[id]
      BY <1>4, <3>1 DEF Dated
    <3>3. seen[c] \in [DOMAIN seen[c] -> 0 .. MaxSeq] /\ vis \in [DOMAIN vis -> 0 .. MaxSeq]
      BY <1>1, VersionMapElements
    <3>4. vis[id] \in 0 .. MaxSeq /\ seen[c][id] \in 0 .. MaxSeq
      BY <3>3
    <3> QED
      BY <3>2, <3>4, MaxSeqAssumption
  <2>3. vis \in [DOMAIN vis -> 0 .. MaxSeq] /\ after \in [DOMAIN vis -> 0 .. MaxSeq]
    BY <1>1, <1>3, VersionMapElements
  <2>4. after = vis
    BY <2>2, <2>3
  <2> QED
    BY <2>1, <2>4
<1> SUFFICES ASSUME NEW d \in Clients
             PROVE  /\ Dated(seen'[d]) /\ basis'[d].at <= Indexed
                    /\ up[d] /\ basis'[d].at = Indexed => seen'[d] = Visible(basis'[d].view)
  OBVIOUS
<1>7. CASE d = c /\ up[c]
  <2>1. seen'[d] = after /\ basis'[d] = [view |-> res.view, at |-> res.at]
    BY <1>1, <1>2, <1>7
  <2>2. basis'[d].view = res.view /\ basis'[d].at = res.at
    BY <2>1
  <2> QED
    BY <1>5, <1>6, <2>1, <2>2 DEF Current
<1>8. CASE d = c /\ ~up[c]
  <2>1. seen'[d] = after /\ basis'[d] = basis[d]
    BY <1>1, <1>2, <1>8
  <2> QED
    BY <1>5, <1>8, <2>1 DEF Exact, Computed
<1>9. CASE d # c
  <2>1. seen'[d] = seen[d] /\ basis'[d] = basis[d]
    BY <1>1, <1>2, <1>9
  <2> QED
    BY <2>1 DEF Exact, Dating, Computed
<1> QED
  BY <1>7, <1>8, <1>9

(* A new index is newer than every version there is; until it is there,    *)
(* nothing that has been seen changes its age.                             *)
LEMMA StoreExact ==
  ASSUME Typed, Exact, StoreStep
  PROVE  Exact'
<1>0. /\ UNCHANGED <<seen, basis, up, hres, bres>>
      /\ Indexed \in 0 .. MaxSeq /\ seq \in 0 .. MaxSeq /\ MaxSeq \in Nat
  BY MaxSeqAssumption, ResultTypes DEF StoreStep, unswept, pushVars, handlerVars, pageVars, sweepVars,
     serveVars, Typed, TypesToo
<1>1. CASE FeedBegin \/ FeedPublish
  <2>1. Indexed' = Indexed /\ index' = index
    BY <1>0, <1>1 DEF FeedBegin, FeedPublish, Indexed
  <2>2. Dating' /\ Results' /\ Computed'
    BY <1>0, <2>1 DEF Exact, Dating, Results, Computed, Dated, Current, Visible
  <2> QED
    BY <2>2 DEF Exact
<1>2. CASE FeedReindex
  <2>1. PICK changed \in SUBSET EntityIDs : \E kept \in SUBSET (DOMAIN index \ changed) :
          \E at \in [changed -> Cells] :
            index' = [id \in changed \cup kept |->
                        IF id \in changed THEN [Version |-> seq, cell |-> at[id]]
                                          ELSE index[id]]
    BY <1>2 DEF FeedReindex
  <2>2. PICK kept \in SUBSET (DOMAIN index \ changed), at \in [changed -> Cells] :
          index' = [id \in changed \cup kept |->
                      IF id \in changed THEN [Version |-> seq, cell |-> at[id]]
                                        ELSE index[id]]
    BY <2>1
  <2>3. Indexed' = seq /\ Indexed = seq - 1 /\ Indexed' = Indexed + 1
    BY <1>0, <1>2 DEF FeedReindex, Indexed
  <2>4. \A id \in DOMAIN index' :
          \/ index'[id].Version = Indexed'
          \/ id \in DOMAIN index /\ index'[id].Version = index[id].Version
    BY <2>2, <2>3
  <2>5. \A id \in DOMAIN index : index[id].Version <= Indexed /\ index[id].Version \in 0 .. MaxSeq
    BY DEF Exact, Dating, Typed, TypesToo, Entry
  <2>6. ASSUME NEW f \in VersionMap, Dated(f)
        PROVE  \A id \in DOMAIN f :
                 f[id] <= Indexed' /\ (id \in DOMAIN index' => f[id] <= index'[id].Version)
    <3>1. \A id \in DOMAIN f : f[id] \in 0 .. MaxSeq
      BY VersionMapElements
    <3> QED
      BY <1>0, <2>3, <2>4, <2>6, <3>1 DEF Dated
  <2>7. Dating'
    <3>1. \A id \in DOMAIN index' : index'[id].Version <= Indexed'
      BY <1>0, <2>3, <2>4, <2>5
    <3>2. /\ bres.visible \in VersionMap
          /\ \A c \in Clients : seen[c] \in VersionMap /\ hres[c].visible \in VersionMap
      BY DEF Typed, TypeOK, ResultType
    <3>3. /\ Dated(bres.visible)
          /\ \A c \in Clients : Dated(seen[c]) /\ Dated(hres[c].visible)
      BY DEF Exact, Dating
    <3> QED
      BY <1>0, <2>6, <3>1, <3>2, <3>3 DEF Dating, Dated
  <2>8. Results' /\ Computed'
    <3>1. /\ bres.at \in 0 .. MaxSeq /\ bres.at <= Indexed
          /\ \A c \in Clients :
               /\ hres[c].at \in 0 .. MaxSeq /\ hres[c].at <= Indexed
               /\ basis[c].at \in 0 .. MaxSeq /\ basis[c].at <= Indexed
      BY DEF Exact, Results, Computed, Current, Typed, TypeOK, TypesToo, ResultType, BasisType
    <3>2. /\ bres'.at < Indexed'
          /\ \A c \in Clients : hres'[c].at < Indexed' /\ basis'[c].at < Indexed'
      BY <1>0, <2>3, <3>1
    <3>3. Indexed' \in Nat
      BY <1>0, <2>3
    <3>4. /\ bres'.at \in Nat
          /\ \A c \in Clients : hres'[c].at \in Nat /\ basis'[c].at \in Nat
      BY <1>0, <3>1
    <3> QED
      BY <3>2, <3>3, <3>4 DEF Results, Computed, Current
  <2> QED
    BY <2>7, <2>8 DEF Exact
<1> QED
  BY <1>1, <1>2 DEF StoreStep, FeedStep

(* While the index stays, what was dated and current remains so.           *)
LEMMA SameIndex ==
  ASSUME UNCHANGED <<seq, index, phase>>, Dating,
         Dated(bres'.visible) /\ Current(bres'),
         \A d \in Clients :
           /\ Dated(seen'[d]) /\ Dated(hres'[d].visible) /\ Current(hres'[d])
           /\ basis'[d].at <= Indexed
           /\ up'[d] /\ basis'[d].at = Indexed => seen'[d] = Visible(basis'[d].view)
  PROVE  Exact'
<1>1. Dating'
  BY DEF Dating, Dated, Indexed
<1>2. Results'
  <2>1. Current(bres)'
    BY DEF Current, Indexed, Visible
  <2>2. ASSUME NEW d \in Clients PROVE Current(hres[d])'
    <3>1. Current(hres'[d])
      OBVIOUS
    <3> QED
      BY <3>1 DEF Current, Indexed, Visible
  <2> QED
    BY <2>1, <2>2 DEF Results
<1>3. Computed'
  BY DEF Computed, Indexed, Visible
<1> QED
  BY <1>1, <1>2, <1>3 DEF Exact

exactVars == <<seq, index, phase, seen, basis, up, hres, bres>>

(* The steps that touch the index or what is known of it. *)
LEMMA ExactSteps ==
  ASSUME [Next]_vars
  PROVE  \/ UNCHANGED exactVars
         \/ StoreStep \/ GroupQuery
         \/ \E c \in Clients :
              \/ Register(c) \/ Disconnect(c) \/ ViewportQuery(c)
              \/ ViewportPush(c) \/ ComputeAndSend(c)
<1> USE DEF exactVars, feedVars, pushVars, handlerVars, pageVars, serveVars, sweepVars
<1>1. CASE UNCHANGED vars
  BY <1>1 DEF vars
<1>2. CASE StoreStep \/ NewHub \/ Wake
  BY <1>2 DEF NewHub, FeedSubscribe, Wake, FeedReceive, unswept
<1>3. CASE Sweep
  BY <1>3 DEF Sweep, GroupKey, GroupAppend, Grouped, Swept, Filter, unswept
<1>4. CASE \E c \in Clients : Handler(c) \/ Disconnect(c) \/ Elapse(c) \/ ElapseBroadcast(c)
  BY <1>4 DEF Handler, SetViewport, TakeDelta, WriteDelta, Unregister, Elapse, ElapseBroadcast
<1> QED
  BY <1>1, <1>2, <1>3, <1>4 DEF Next

(* No step shows anything newer than the index, or takes for exact what    *)
(* was not computed from it.                                               *)
LEMMA NextExact ==
  ASSUME Typed, Exact, [Next]_vars
  PROVE  Exact'
<1>0. /\ seen \in [Clients -> VersionMap] /\ hres \in [Clients -> ResultType]
      /\ bres \in ResultType /\ up \in [Clients -> BOOLEAN] /\ viewport \in [Clients -> Views]
      /\ basis \in [Clients -> BasisType] /\ TypesToo /\ group \in Views
  BY DEF Typed, TypeOK, TypesToo
<1>1. /\ Dating /\ Dated(bres.visible) /\ Current(bres)
      /\ \A d \in Clients :
           /\ Dated(seen[d]) /\ Dated(hres[d].visible) /\ Current(hres[d])
           /\ basis[d].at <= Indexed
           /\ up[d] /\ basis[d].at = Indexed => seen[d] = Visible(basis[d].view)
  BY DEF Exact, Dating, Results, Computed
<1>2. /\ \A v \in Views : Dated(Result(v).visible) /\ Current(Result(v))
      /\ Dated(NoResult.visible) /\ Current(NoResult)
  BY <1>0, <1>1, ResultExact
<1>3. CASE UNCHANGED exactVars
  BY <1>1, <1>3, SameIndex DEF exactVars
<1>4. CASE GroupQuery
  <2>1. /\ bres' = bres \/ bres' = Result(group)
        /\ UNCHANGED <<seq, index, phase, seen, basis, up, hres>>
    BY <1>4 DEF GroupQuery, feedVars, unswept, pushVars, handlerVars, pageVars
  <2>2. Dated(bres'.visible) /\ Current(bres')
    BY <1>0, <1>1, <1>2, <2>1
  <2> QED
    BY <1>1, <2>1, <2>2, SameIndex
<1>5. ASSUME NEW c \in Clients, ViewportQuery(c)
      PROVE  Exact'
  <2>1. /\ hres' = hres \/ hres' = [hres EXCEPT ![c] = Result(viewport[c])]
        /\ UNCHANGED <<seq, index, phase, seen, basis, up, bres>>
    BY <1>5 DEF ViewportQuery, feedVars, pushVars, sweepVars, serveVars, pageVars
  <2>2. \A d \in Clients : Dated(hres'[d].visible) /\ Current(hres'[d])
    <3>1. \A d \in Clients : hres'[d] = hres[d] \/ hres'[d] = Result(viewport[c])
      BY <1>0, <2>1
    <3> QED
      BY <1>0, <1>1, <1>2, <3>1
  <2> QED
    BY <1>1, <2>1, <2>2, SameIndex
<1>6. ASSUME NEW c \in Clients, ViewportPush(c)
      PROVE  Exact'
  <2>1. /\ Push(c, hres[c], "viewport") /\ hres' = [hres EXCEPT ![c] = NoResult]
        /\ UNCHANGED <<seq, index, phase, bres>>
    BY <1>6 DEF ViewportPush, feedVars, sweepVars, serveVars
  <2>2. up' = up
    BY <2>1, PushCases
  <2>3. \A d \in Clients :
          /\ Dated(seen'[d]) /\ basis'[d].at <= Indexed
          /\ up[d] /\ basis'[d].at = Indexed => seen'[d] = Visible(basis'[d].view)
    BY <1>0, <1>1, <2>1, PushExact
  <2>4. \A d \in Clients : Dated(hres'[d].visible) /\ Current(hres'[d])
    <3>1. \A d \in Clients : hres'[d] = hres[d] \/ hres'[d] = NoResult
      BY <1>0, <2>1
    <3> QED
      BY <1>1, <1>2, <3>1
  <2> QED
    BY <1>1, <2>1, <2>2, <2>3, <2>4, SameIndex
<1>7. ASSUME NEW c \in Clients, ComputeAndSend(c)
      PROVE  Exact'
  <2>1. /\ Push(c, bres, "broadcast") /\ bres' \in {bres, NoResult}
        /\ UNCHANGED <<seq, index, phase, hres>>
    BY <1>7 DEF ComputeAndSend, feedVars, handlerVars
  <2>2. up' = up
    BY <2>1, PushCases
  <2>3. \A d \in Clients :
          /\ Dated(seen'[d]) /\ basis'[d].at <= Indexed
          /\ up[d] /\ basis'[d].at = Indexed => seen'[d] = Visible(basis'[d].view)
    BY <1>0, <1>1, <2>1, PushExact
  <2>4. Dated(bres'.visible) /\ Current(bres')
    BY <1>1, <1>2, <2>1
  <2> QED
    BY <1>1, <2>1, <2>2, <2>3, <2>4, SameIndex
<1>8. ASSUME NEW c \in Clients, Register(c)
      PROVE  Exact'
  <2>1. /\ hpc[c] = "new" /\ up' = [up EXCEPT ![c] = TRUE]
        /\ UNCHANGED <<seq, index, phase, seen, basis, hres, bres>>
    BY <1>8 DEF Register, feedVars, pushVars, sweepVars, serveVars
  <2>2. seen[c] = Empty /\ basis[c] = NoBasis
    BY <1>0, <2>1 DEF Typed, Fresh
  <2>3. basis[c].at = Indexed => seen[c] = Visible(basis[c].view)
    BY <1>2, <2>2 DEF NoBasis, NoResult, Current
  <2>4. \A d \in Clients : up'[d] /\ basis'[d].at = Indexed => seen'[d] = Visible(basis'[d].view)
    BY <1>0, <1>1, <2>1, <2>3
  <2> QED
    BY <1>1, <2>1, <2>4, SameIndex
<1>9. ASSUME NEW c \in Clients, Disconnect(c)
      PROVE  Exact'
  <2>1. /\ up' = [up EXCEPT ![c] = FALSE] /\ basis' = [basis EXCEPT ![c] = NoBasis]
        /\ UNCHANGED <<seq, index, phase, seen, hres, bres>>
    BY <1>9 DEF Disconnect, feedVars, pushVars, handlerVars, sweepVars, serveVars
  <2>2. NoBasis.at <= Indexed
    BY <1>0, ResultTypes DEF NoBasis
  <2>3. \A d \in Clients :
          /\ basis'[d].at <= Indexed
          /\ up'[d] /\ basis'[d].at = Indexed => seen'[d] = Visible(basis'[d].view)
    <3> SUFFICES ASSUME NEW d \in Clients
                 PROVE  /\ basis'[d].at <= Indexed
                        /\ up'[d] /\ basis'[d].at = Indexed => seen'[d] = Visible(basis'[d].view)
      OBVIOUS
    <3>1. CASE d = c
      BY <1>0, <2>1, <2>2, <3>1
    <3>2. CASE d # c
      <4>1. basis'[d] = basis[d] /\ up'[d] = up[d] /\ seen'[d] = seen[d]
        BY <1>0, <2>1, <3>2
      <4> QED
        BY <1>1, <4>1
    <3> QED
      BY <3>1, <3>2
  <2> QED
    BY <1>1, <2>1, <2>3, SameIndex
<1> QED
  BY <1>3, <1>4, <1>5, <1>6, <1>7, <1>8, <1>9, ExactSteps, StoreExact

-----------------------------------------------------------------------------
(* The sweep's accounts. *)

(* No step lets the goroutine owe a client a second push of its own.       *)
LEMMA NextSpaced ==
  ASSUME Typed, Spaced, [Next]_vars
  PROVE  Spaced'
<1>0. /\ lastPush \in [Clients -> {"old", "viewport", "broadcast"}] /\ eligible \in SUBSET Clients
      /\ broadcastTo \subseteq {c \in Clients : lastPush[c] # "old"}
  BY DEF Typed, TypeOK, TypesToo
<1>1. CASE UNCHANGED <<eligible, broadcastTo>>
  BY <1>1 DEF Spaced
<1>2. ASSUME NEW v \in Views, Filter(v)
      PROVE  Spaced'
  <2>1. /\ broadcastTo' = broadcastTo
        /\ eligible' = eligible \/ \A c \in eligible' : lastPush[c] = "old"
    BY <1>2 DEF Filter, IsEligible, unswept, pushVars
  <2> QED
    BY <1>0, <2>1 DEF Spaced
<1>3. CASE GroupQuery
  BY <1>3 DEF GroupQuery, unswept, pushVars, Spaced
<1>4. ASSUME NEW c \in Clients, ComputeAndSend(c)
      PROVE  Spaced'
  <2>1. /\ Push(c, bres, "broadcast") /\ eligible' = eligible \ {c}
    BY <1>4 DEF ComputeAndSend
  <2>2. broadcastTo' \subseteq broadcastTo \cup {c}
    BY <2>1, PushCases
  <2> QED
    BY <1>0, <2>1, <2>2 DEF Spaced
<1>5. ASSUME NEW c \in Clients, ViewportPush(c)
      PROVE  Spaced'
  <2>1. Push(c, hres[c], "viewport") /\ eligible' = eligible
    BY <1>5 DEF ViewportPush, sweepVars, serveVars
  <2>2. broadcastTo' = broadcastTo
    BY <2>1, PushCases
  <2> QED
    BY <1>0, <2>1, <2>2 DEF Spaced
<1>6. ASSUME NEW c \in Clients, Elapse(c) \/ ElapseBroadcast(c)
      PROVE  Spaced'
  BY <1>0, <1>6 DEF Elapse, ElapseBroadcast, sweepVars, serveVars, Spaced
<1>7. CASE UNCHANGED vars \/ StoreStep \/ NewHub \/ Wake
  <2>1. UNCHANGED <<eligible, broadcastTo>>
    BY <1>7 DEF vars, StoreStep, NewHub, Wake, unswept, pushVars, sweepVars, serveVars
  <2> QED
    BY <1>1, <2>1
<1>8. CASE Sweep
  <2>1. CASE \E c \in Clients : GroupKey(c)
    BY <1>1, <2>1 DEF GroupKey, unswept, pushVars, serveVars
  <2>2. CASE GroupAppend \/ Grouped \/ Swept
    BY <1>1, <2>2 DEF GroupAppend, Grouped, Swept, unswept, pushVars, serveVars
  <2> QED
    BY <1>2, <1>3, <1>4, <1>8, <2>1, <2>2 DEF Sweep
<1>9. ASSUME NEW c \in Clients, Handler(c) \/ Disconnect(c)
      PROVE  Spaced'
  <2>1. CASE ~ViewportPush(c)
    <3>1. UNCHANGED <<eligible, broadcastTo>>
      BY <1>9, <2>1 DEF Handler, Register, SetViewport, ViewportQuery, TakeDelta, WriteDelta,
         Unregister, Disconnect, pushVars, sweepVars, serveVars
    <3> QED
      BY <1>1, <3>1
  <2> QED
    BY <1>5, <2>1
<1> QED
  BY <1>6, <1>7, <1>8, <1>9 DEF Next

accountVars == <<bpc, moved, first, viewport, due, ungrouped, groups>>

(* No step loses a client of the snapshot, unless a viewport changed       *)
(* between the two reads that choose its group.                            *)
LEMMA NextAccounted ==
  ASSUME Typed, Accounted, [Next]_vars
  PROVE  Accounted'
<1>0. /\ groups \in [Views -> SUBSET Clients] /\ viewport \in [Clients -> Views]
      /\ due \in SUBSET Clients /\ ungrouped \in SUBSET Clients
  BY DEF Typed, TypeOK, TypesToo
<1>1. CASE UNCHANGED accountVars
  BY <1>1 DEF accountVars, Accounted
<1>2. CASE StoreStep \/ NewHub \/ UNCHANGED vars
  <2>1. UNCHANGED accountVars
    BY <1>2 DEF accountVars, vars, StoreStep, NewHub, unswept, sweepVars, groupVars
  <2> QED
    BY <1>1, <2>1
<1>3. CASE Wake
  BY <1>3 DEF Wake, unswept, Accounted
<1>4. ASSUME NEW c \in Clients, NEW v \in Viewports, SetViewport(c, v)
      PROVE  Accounted'
  BY <1>4 DEF SetViewport, groupVars, Accounted
<1>5. ASSUME NEW c \in Clients, GroupKey(c)
      PROVE  Accounted'
  BY <1>5 DEF GroupKey, unswept, Accounted
<1>6. CASE GroupAppend
  <2> DEFINE c == first.client
  <2>1. /\ bpc = "regroup" /\ bpc' = "group" /\ first.view \in Views /\ viewport[c] \in Views
        /\ groups' = [groups EXCEPT ![first.view] = groups[viewport[c]] \cup {c}]
        /\ ungrouped' = ungrouped \ {c} /\ UNCHANGED <<viewport, due, moved>>
    BY <1>0, <1>6 DEF GroupAppend, Joined, unswept, Typed, TypeOK
  <2> HIDE DEF c
  <2>2. ASSUME ~moved, NEW d \in due
        PROVE  d \in ungrouped' \/ \E v \in Views : d \in groups'[v]
    <3>1. first.view = viewport[c]
      BY <2>1, <2>2 DEF c, Accounted
    <3>2. d \in ungrouped \/ \E v \in Views : d \in groups[v]
      BY <2>2 DEF Accounted
    <3>3. \A v \in Views : groups[v] \subseteq groups'[v]
      BY <1>0, <2>1, <3>1
    <3>4. c \in groups'[first.view]
      BY <1>0, <2>1
    <3> QED
      BY <2>1, <3>2, <3>3, <3>4
  <2> QED
    BY <2>1, <2>2 DEF Accounted
<1>7. CASE Grouped
  BY <1>7 DEF Grouped, unswept, groupVars, Accounted
<1>8. ASSUME NEW v \in Views, Filter(v)
      PROVE  Accounted'
  <2>1. /\ bpc = "sweep" /\ bpc' \in {"sweep", "query"} /\ groups' = [groups EXCEPT ![v] = {}]
        /\ due' = due \ groups[v] /\ UNCHANGED <<viewport, ungrouped, moved>>
    BY <1>8 DEF Filter, unswept
  <2> QED
    BY <1>0, <2>1 DEF Accounted
<1>9. CASE GroupQuery
  <2>1. /\ bpc = "query" /\ bpc' \in {"sweep", "send"}
        /\ UNCHANGED <<moved, first, viewport, due, ungrouped, groups>>
    BY <1>9 DEF GroupQuery, unswept, groupVars
  <2> QED
    BY <2>1 DEF Accounted
<1>10. ASSUME NEW c \in Clients, ComputeAndSend(c)
       PROVE  Accounted'
  <2>1. /\ bpc = "send" /\ bpc' \in {"sweep", "send"}
        /\ UNCHANGED <<moved, first, viewport, due, ungrouped, groups>>
    BY <1>10 DEF ComputeAndSend, groupVars
  <2> QED
    BY <2>1 DEF Accounted
<1>11. CASE Swept
  <2>1. bpc' = "wait" /\ due' = {}
    BY <1>11 DEF Swept
  <2> QED
    BY <2>1 DEF Accounted
<1>12. ASSUME NEW c \in Clients, Handler(c) \/ Disconnect(c) \/ Elapse(c) \/ ElapseBroadcast(c)
       PROVE  Accounted'
  <2>1. CASE \E v \in Viewports : SetViewport(c, v)
    BY <1>4, <2>1
  <2>2. CASE ~ \E v \in Viewports : SetViewport(c, v)
    <3>1. UNCHANGED accountVars
      BY <1>12, <2>2 DEF Handler, Register, ViewportQuery, ViewportPush, TakeDelta, WriteDelta,
         Unregister, Disconnect, Elapse, ElapseBroadcast, sweepVars, groupVars, accountVars
    <3> QED
      BY <1>1, <3>1
  <2> QED
    BY <2>1, <2>2
<1> QED
  BY <1>2, <1>3, <1>5, <1>6, <1>7, <1>8, <1>9, <1>10, <1>11, <1>12 DEF Next, Sweep

-----------------------------------------------------------------------------
(* The invariant holds initially ... *)
LEMMA InitInv == Init => IInv
<1> SUFFICES ASSUME Init PROVE IInv
  OBVIOUS
<1>1. Typed
  BY InitTyped
<1>2. SeenMirrorsBrowser
  BY DEF Init, SeenMirrorsBrowser
<1>3. Exact
  <2>1. Indexed = 0 /\ DOMAIN index = {}
    BY DEF Init, FeedInit, Indexed
  <2>2. Dating
    BY <2>1, EmptyTypes DEF Init, Dating, Dated, NoResult
  <2>3. Results
    BY <1>1, <2>2, ResultExact DEF Init, Results, Typed
  <2>4. \A c \in Clients : basis[c].at = 0 /\ up[c] = FALSE
    BY DEF Init, NoBasis
  <2>5. Computed
    BY <2>1, <2>4 DEF Computed
  <2> QED
    BY <2>2, <2>3, <2>5 DEF Exact
<1>4. Forward /\ Spaced /\ Accounted
  BY DEF Init, Forward, Spaced, Accounted
<1> QED
  BY <1>1, <1>2, <1>3, <1>4 DEF IInv

(* ... and every step keeps it. *)
LEMMA NextInv ==
  ASSUME IInv, [Next]_vars
  PROVE  IInv'
BY NextTyped, NextMirrors, NextForward, NextExact, NextSpaced, NextAccounted DEF IInv

(* The inductive invariant holds in every reachable state. *)
THEOREM HubInvariant == Spec => []IInv
  BY InitInv, NextInv, PTL DEF Spec

-----------------------------------------------------------------------------
(* Registration, channel closing and the goroutines' program counters      *)
(* agree in every reachable state.                                         *)
THEOREM Typing == Spec => []TypeOK
<1>1. IInv => TypeOK
  BY DEF IInv, Typed
<1> QED
  BY <1>1, HubInvariant, PTL

(* c.seen mirrors the browser until a delta is dropped on a full channel,  *)
(* whatever the order in which broadcasts and viewport updates compute     *)
(* their deltas (hub.go 206-226, 290-306).                                 *)
THEOREM Mirrored == Spec => []SeenMirrorsBrowser
<1>1. IInv => SeenMirrorsBrowser
  BY DEF IInv
<1> QED
  BY <1>1, HubInvariant, PTL

(* A browser at rest that was served from the newest poll shows exactly    *)
(* what its viewport covers (hub.go 190-252, 256-329).                     *)
THEOREM ExactAtRest == Spec => []AtRestExact
<1>1. ASSUME IInv
      PROVE  AtRestExact
  <2> SUFFICES ASSUME NEW c \in Clients,
                      up[c], hpc[c] = "idle", ch[c] = <<>>, c \notin dropped,
                      basis[c] = [view |-> viewport[c], at |-> Indexed]
               PROVE  targets[c] = Visible(viewport[c])
    BY DEF AtRestExact
  <2>1. basis[c].at = Indexed /\ basis[c].view = viewport[c]
    OBVIOUS
  <2>2. seen[c] = Visible(viewport[c])
    BY <1>1, <2>1 DEF IInv, Exact, Computed
  <2>3. out[c] = NoDelta /\ targets[c] \in VersionMap
    BY <1>1 DEF IInv, Typed, Fresh, TypeOK
  <2>4. InFlight(c) = targets[c]
    BY <2>3, AppliedNothing DEF InFlight
  <2> QED
    BY <1>1, <2>2, <2>4 DEF IInv, SeenMirrorsBrowser
<1> QED
  BY <1>1, HubInvariant, PTL

(* No delta takes an entity of a browser back to an older version, unless  *)
(* one to that browser was dropped (hub.go 206-226, 290-306).              *)
THEOREM VersionsOnlyAdvance == Spec => VersionsAdvance
<1>1. ASSUME IInv, [Next]_vars
      PROVE  \A c \in Clients : up[c] /\ c \notin dropped =>
               \A id \in DOMAIN targets[c] \cap DOMAIN targets'[c] :
                 targets'[c][id] >= targets[c][id]
  <2> SUFFICES ASSUME NEW c \in Clients, up[c], c \notin dropped,
                      NEW id \in DOMAIN targets[c] \cap DOMAIN targets'[c]
               PROVE  targets'[c][id] >= targets[c][id]
    OBVIOUS
  <2>0. targets \in [Clients -> VersionMap] /\ Typed
    BY <1>1 DEF IInv, Typed, TypeOK
  <2>1. CASE targets'[c] = targets[c]
    <3>1. targets[c] \in [DOMAIN targets[c] -> 0 .. MaxSeq]
      BY <2>0, VersionMapElements
    <3> QED
      BY <2>1, <3>1, MaxSeqAssumption
  <2>2. ASSUME NEW d \in Clients, WriteDelta(d), targets'[c] # targets[c]
        PROVE  targets'[c][id] >= targets[c][id]
    <3>1. d = c /\ targets'[c] = Applied(targets[c], out[c])
      BY <2>0, <2>2 DEF WriteDelta
    <3>2. Grows(targets[c], out[c])
      BY <1>1 DEF IInv, Forward
    <3> QED
      BY <3>1, <3>2 DEF Grows
  <2>3. ASSUME NEW d \in Clients, Disconnect(d), targets'[c] # targets[c]
        PROVE  FALSE
    <3>1. d = c /\ targets'[c] = Empty
      BY <2>0, <2>3 DEF Disconnect
    <3> QED
      BY <3>1, EmptyTypes
  <2>4. ASSUME NEW d \in Clients,
               Register(d) \/ TakeDelta(d) \/ ViewportPush(d) \/ ComputeAndSend(d)
        PROVE  targets' = targets
    BY <2>0, <2>4, PushCases DEF Register, TakeDelta, ViewportPush, ComputeAndSend, pageVars
  <2> QED
    BY <1>1, <2>1, <2>2, <2>3, <2>4, BrowserSteps DEF browserVars
<1> QED
  BY <1>1, HubInvariant, PTL DEF Spec, VersionsAdvance

(* No broadcast follows another one to the same client within              *)
(* minPushInterval, whatever viewport pushes come before, between and      *)
(* after eligibility check and push (hub.go 142-146).                      *)
THEOREM BroadcastsAreSpaced == Spec => BroadcastsSpaced
<1>1. ASSUME IInv, [Next]_vars
      PROVE  \A c \in Clients : bpc = "send" /\ Len(ch'[c]) > Len(ch[c]) /\ hpc'[c] = hpc[c]
               => c \notin broadcastTo
  <2> SUFFICES ASSUME NEW c \in Clients, Len(ch'[c]) > Len(ch[c]), hpc'[c] = hpc[c]
               PROVE  c \notin broadcastTo
    OBVIOUS
  <2>0. /\ ch \in [Clients -> Seq(DeltaType)] /\ Len(ch[c]) \in Nat /\ Typed
        /\ hpc \in [Clients -> {"new", "idle", "query", "push", "write", "exit", "done"}]
    BY <1>1 DEF IInv, Typed, TypeOK, TypesToo
  <2>1. ch'[c] # ch[c]
    BY <2>0
  <2>2. ASSUME NEW d \in Clients, TakeDelta(d)
        PROVE  FALSE
    BY <2>0, <2>1, <2>2 DEF TakeDelta
  <2>3. ASSUME NEW d \in Clients, ViewportPush(d)
        PROVE  FALSE
    <3>1. hpc[d] = "push" /\ hpc' = [hpc EXCEPT ![d] = "idle"] /\ Push(d, hres[d], "viewport")
      BY <2>3 DEF ViewportPush
    <3>2. d # c
      BY <2>0, <3>1
    <3> QED
      BY <2>0, <2>1, <3>1, <3>2, PushCases
  <2>4. ASSUME NEW d \in Clients, ComputeAndSend(d)
        PROVE  c \notin broadcastTo
    <3>1. d \in eligible /\ Push(d, bres, "broadcast")
      BY <2>4 DEF ComputeAndSend
    <3>2. d = c
      BY <2>0, <2>1, <3>1, PushCases
    <3> QED
      BY <1>1, <3>1, <3>2 DEF IInv, Spaced
  <2>5. ASSUME NEW d \in Clients, Register(d) \/ Disconnect(d) \/ WriteDelta(d)
        PROVE  ch' = ch
    BY <2>5 DEF Register, Disconnect, WriteDelta, pushVars
  <2> QED
    BY <1>1, <2>1, <2>2, <2>3, <2>4, <2>5, BrowserSteps DEF browserVars
<1> QED
  BY <1>1, HubInvariant, PTL DEF Spec, BroadcastsSpaced

(* A sweep that ends has looked at every client registered when it woke    *)
(* up, unless a viewport changed while it grouped them (hub.go 130-133).   *)
THEOREM SkipsOnlyByMove == Spec => SkippedOnlyByMove
<1>1. ASSUME IInv, [Next]_vars, bpc = "sweep", bpc' = "wait"
      PROVE  due = {} \/ moved
  <2>1. Swept
    BY <1>1 DEF Next, StoreStep, NewHub, Wake, Sweep, GroupKey, ComputeAndSend, GroupAppend, Grouped,
       GroupQuery, Filter, Handler, Register, SetViewport, ViewportQuery, ViewportPush, TakeDelta,
       WriteDelta, Unregister, Disconnect, Elapse, ElapseBroadcast, vars, sweepVars
  <2>2. \A v \in Views : groups[v] = {}
    BY <2>1 DEF Swept, NoGroups
  <2>3. due \subseteq Clients /\ ungrouped = {}
    BY <1>1 DEF IInv, Typed, TypesToo, Accounted
  <2> QED
    BY <1>1, <2>2, <2>3 DEF IInv, Accounted
<1> QED
  BY <1>1, HubInvariant, PTL DEF Spec, SkippedOnlyByMove

(* The hub does to the store only what EntityFeed allows, and Store.tla    *)
(* implements that (StoreProofs.tla, FeedImplemented): the two may be      *)
(* reasoned about apart.                                                   *)
THEOREM UsesFeed == Spec => FeedSpec
<1>1. Init => FeedInit
  BY DEF Init
<1>2. ASSUME [Next]_vars
      PROVE  [FeedNext]_feedVars
  <2>1. CASE UNCHANGED vars \/ StoreStep \/ NewHub \/ Wake
    BY <2>1 DEF vars, StoreStep, NewHub, Wake, FeedNext
  <2>2. CASE Sweep
    BY <2>2 DEF Sweep, GroupKey, ComputeAndSend, GroupAppend, Grouped, GroupQuery, Filter, Swept
  <2>3. CASE \E c \in Clients : Handler(c) \/ Disconnect(c) \/ Elapse(c) \/ ElapseBroadcast(c)
    BY <2>3 DEF Handler, Register, SetViewport, ViewportQuery, ViewportPush, TakeDelta,
       WriteDelta, Unregister, Disconnect, Elapse, ElapseBroadcast
  <2> QED
    BY <1>2, <2>1, <2>2, <2>3 DEF Next
<1> QED
  BY <1>1, <1>2, PTL DEF Spec, FeedSpec
=============================================================================
