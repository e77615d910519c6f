-------------------------- MODULE DeltaPoolProofs --------------------------
(***************************************************************************)
(* Proofs about DeltaPool.tla, for every set of clients, viewports, deltas *)
(* and buffers, and for groups of every size.                              *)
(*                                                                         *)
(* NoForeignClusters speaks of a thread that encodes.  OwnClusters says    *)
(* why it holds there: from the query on, nobody but the thread itself     *)
(* adds to its buffer's map, whichever map a pooled delta points at.       *)
(***************************************************************************)
EXTENDS DeltaPool, TLAPS

(* What a thread holds at each point of its turn. *)
RunOK ==
  /\ run \in [Threads ->
       [pc : {"idle", "reset", "query", "next", "clear", "delta", "encode"},
        view : Views \cup {None}, todo : SUBSET Clients, client : Clients \cup {None},
        buf : Buffers \cup {None}, delta : Deltas \cup {None}]]
  /\ \A t \in Threads :
       /\ run[t].pc = "idle" => run[t] = Idle
       /\ run[t].pc # "idle" => run[t].view \in Views /\ run[t].buf \in Buffers
       /\ run[t].pc \in {"reset", "query", "next"} =>
            run[t].client = None /\ run[t].delta = None
       /\ run[t].pc \in {"clear", "delta", "encode"} =>
            run[t].client \in Clients /\ run[t].delta \in Deltas

(* From the reset on a thread's buffer holds clusters of its own query. *)
OwnClusters ==
  \A t \in Threads :
    run[t].pc \in {"query", "next", "clear", "delta", "encode"} =>
      contents[run[t].buf] \subseteq {run[t].view}

IInv == TypeOK /\ RunOK /\ OwnClusters

-----------------------------------------------------------------------------
(* Initially every thread is idle and holds nothing. *)
LEMMA InitInv == Init => IInv
BY NoneAssumption DEF Init, IInv, TypeOK, RunOK, OwnClusters, Idle, Held, Threads, Maps

(* What an operation may count on: pooled objects are held by nobody, and  *)
(* an object in use by nobody else.                                        *)
LEMMA Ownership ==
  ASSUME TypeOK, NEW t \in Threads
  PROVE  /\ run[t].buf \notin queryBufferPool /\ run[t].delta \notin deltaPool
         /\ \A u \in Threads \ {t} :
              /\ run[u].buf = run[t].buf => run[t].buf = None
              /\ run[u].delta = run[t].delta => run[t].delta = None
              /\ run[u].client = run[t].client => run[t].client = None
<1>1. run[t].buf \in Held("buf") /\ run[t].delta \in Held("delta")
  BY DEF Held
<1>2. run[t].buf \notin queryBufferPool /\ run[t].delta \notin deltaPool
  BY <1>1 DEF TypeOK
<1>3. ASSUME NEW u \in Threads \ {t}, NEW field \in {"buf", "delta", "client"},
             run[u][field] = run[t][field]
      PROVE  run[t][field] = None
  BY <1>3 DEF TypeOK
<1> QED
  BY <1>2, <1>3

(* Held, one thread at a time: the form in which a step re-establishes it. *)
LEMMA OwnershipKept ==
  ASSUME \A t \in Threads :
           /\ run'[t].buf \notin queryBufferPool' /\ run'[t].delta \notin deltaPool'
           /\ \A u \in Threads \ {t} :
                /\ run'[u].buf = run'[t].buf => run'[t].buf = None
                /\ run'[u].delta = run'[t].delta => run'[t].delta = None
                /\ run'[u].client = run'[t].client => run'[t].client = None
  PROVE  /\ Held("buf")' \cap queryBufferPool' = {}
         /\ Held("delta")' \cap deltaPool' = {}
         /\ \A t, u \in Threads : \A field \in {"buf", "delta", "client"} :
              run'[t][field] = run'[u][field] => t = u \/ run'[t][field] = None
BY DEF Held

(* A thread that takes a buffer is its only owner: the pool gives what was *)
(* put back, or what nobody holds.                                         *)
LEMMA TakeBufferInv ==
  ASSUME IInv, NEW t \in Threads, NEW v \in Views, NEW group \in SUBSET Clients,
         NEW b \in Buffers, TakeBuffer(t, v, group, b)
  PROVE  IInv'
<1>1. /\ run[t] = Idle
      /\ run' = [run EXCEPT ![t] = [@ EXCEPT !.pc = "reset", !.view = v, !.todo = group,
                                            !.buf = b]]
      /\ queryBufferPool' = queryBufferPool \ {b}
      /\ UNCHANGED <<deltaPool, Clusters, contents>>
  BY DEF TakeBuffer
<1>2. \A u \in Threads : run[u].buf # b
  <2>1. CASE b \in queryBufferPool
    BY <2>1, Ownership DEF IInv
  <2>2. CASE b \notin queryBufferPool
    BY <2>2 DEF TakeBuffer, Pooled, Held
  <2> QED
    BY <2>1, <2>2
<1>3. /\ run'[t].pc = "reset" /\ run'[t].view = v /\ run'[t].todo = group
      /\ run'[t].client = None /\ run'[t].buf = b /\ run'[t].delta = None
      /\ \A u \in Threads \ {t} : run'[u] = run[u]
  BY <1>1 DEF IInv, RunOK, Idle
<1>5. RunOK'
  BY <1>1, <1>3 DEF IInv, RunOK, Idle
<1>6. TypeOK'
  BY <1>1, <1>2, <1>3, Ownership, OwnershipKept, NoneAssumption DEF IInv, TypeOK
<1>7. OwnClusters'
  BY <1>1, <1>3 DEF IInv, OwnClusters
<1> QED
  BY <1>5, <1>6, <1>7 DEF IInv

(* The two steps that fill a map, the reset of a buffer and the query into *)
(* it: no other thread has that buffer.                                    *)
LEMMA FillInv ==
  ASSUME IInv, NEW t \in Threads, ResetDone(t) \/ Queried(t)
  PROVE  IInv'
<1>1. run[t].pc \in {"reset", "query"} /\ run[t].buf \in Buffers /\ run[t].view \in Views
  BY DEF ResetDone, Queried, IInv, RunOK
<1>2. /\ run' = [run EXCEPT ![t].pc = run'[t].pc]
      /\ run'[t].pc = IF run[t].pc = "reset" THEN "query" ELSE "next"
      /\ UNCHANGED <<queryBufferPool, deltaPool, Clusters>>
  BY DEF ResetDone, Queried, IInv, RunOK
<1>3. \A u \in Threads \ {t} : run'[u] = run[u] /\ run[u].buf # run[t].buf
  BY <1>1, <1>2, Ownership, NoneAssumption DEF IInv, RunOK
<1>4. PICK found \in SUBSET {run[t].view} :
        contents' = [contents EXCEPT ![run[t].buf] =
                       IF run[t].pc = "reset" THEN {} ELSE @ \cup found]
  <2>1. CASE ResetDone(t)
    BY <2>1 DEF ResetDone, Reset
  <2>2. CASE Queried(t)
    <3>1. PICK found \in {{}, {run[t].view}} :
            contents' = [contents EXCEPT ![run[t].buf] = @ \cup found]
      BY <2>2 DEF Queried
    <3> QED
      BY <2>2, <3>1 DEF Queried
  <2> QED
    BY <2>1, <2>2
<1>5. RunOK'
  BY <1>1, <1>2, <1>3 DEF IInv, RunOK, Idle
<1>6. TypeOK'
  <2>1. contents' \in [Maps -> SUBSET Views]
    BY <1>1, <1>4 DEF IInv, TypeOK, Maps
  <2>2. /\ run'[t].buf = run[t].buf /\ run'[t].delta = run[t].delta
        /\ run'[t].client = run[t].client
    BY <1>2 DEF IInv, RunOK
  <2> QED
    BY <1>2, <1>3, <2>1, <2>2, Ownership, OwnershipKept DEF IInv, TypeOK
<1>7. OwnClusters'
  <2>1. \A u \in Threads \ {t} :
          run[u].pc # "idle" => contents'[run[u].buf] = contents[run[u].buf]
    BY <1>3, <1>4 DEF IInv, RunOK, TypeOK, Maps
  <2>2. contents'[run[t].buf] \subseteq {run[t].view}
    BY <1>1, <1>4 DEF IInv, OwnClusters, TypeOK, Maps
  <2> QED
    BY <1>2, <1>3, <2>1, <2>2 DEF IInv, OwnClusters, RunOK
<1> QED
  BY <1>5, <1>6, <1>7 DEF IInv

(* A failed query gives the buffer back, and leaves the thread idle. *)
LEMMA QueryFailsInv ==
  ASSUME IInv, NEW t \in Threads, QueryFails(t)
  PROVE  IInv'
<1>1. /\ run' = [run EXCEPT ![t] = Idle]
      /\ queryBufferPool' = queryBufferPool \cup {run[t].buf}
      /\ run[t].buf \in Buffers
      /\ UNCHANGED <<deltaPool, Clusters, contents>>
  BY DEF QueryFails, PutBuffer, IInv, RunOK
<1>2. run'[t] = Idle /\ \A u \in Threads \ {t} : run'[u] = run[u]
  BY <1>1 DEF IInv, RunOK
<1>3. RunOK'
  BY <1>1, <1>2 DEF IInv, RunOK, Idle
<1>4. TypeOK'
  BY <1>1, <1>2, Ownership, OwnershipKept, NoneAssumption DEF IInv, TypeOK, Idle
<1>5. OwnClusters'
  BY <1>1, <1>2 DEF IInv, OwnClusters, Idle
<1> QED
  BY <1>3, <1>4, <1>5 DEF IInv

(* The next client's turn, when nobody has its viewportMu. *)
LEMMA TakeDeltaInv ==
  ASSUME IInv, NEW t \in Threads, NEW c \in Clients, NEW d \in Deltas, TakeDelta(t, c, d)
  PROVE  IInv'
<1>1. /\ run[t].pc = "next"
      /\ run' = [run EXCEPT ![t] = [@ EXCEPT !.pc = "clear", !.client = c, !.delta = d]]
      /\ deltaPool' = deltaPool \ {d}
      /\ UNCHANGED <<queryBufferPool, Clusters, contents>>
  BY DEF TakeDelta
<1>2. \A u \in Threads : run[u].delta # d /\ run[u].client # c
  <2>1. \A u \in Threads : run[u].client # c
    BY DEF TakeDelta, Held
  <2>2. CASE d \in deltaPool
    BY <2>1, <2>2, Ownership DEF IInv
  <2>3. CASE d \notin deltaPool
    BY <2>1, <2>3 DEF TakeDelta, Pooled, Held
  <2> QED
    BY <2>2, <2>3
<1>3. /\ run'[t].pc = "clear" /\ run'[t].view = run[t].view /\ run'[t].todo = run[t].todo
      /\ run'[t].client = c /\ run'[t].buf = run[t].buf /\ run'[t].delta = d
      /\ \A u \in Threads \ {t} : run'[u] = run[u]
  BY <1>1 DEF IInv, RunOK
<1>4. RunOK'
  BY <1>1, <1>3 DEF IInv, RunOK, Idle
<1>5. TypeOK'
  BY <1>1, <1>2, <1>3, Ownership, OwnershipKept, NoneAssumption DEF IInv, TypeOK
<1>6. OwnClusters'
  BY <1>1, <1>3 DEF IInv, OwnClusters
<1> QED
  BY <1>4, <1>5, <1>6 DEF IInv

(* Clearing the delta's old map empties it, whosever it is, and the delta  *)
(* then shares the map of its thread's buffer.                             *)
LEMMA ClearedInv ==
  ASSUME IInv, NEW t \in Threads, Cleared(t)
  PROVE  IInv'
<1>1. /\ run[t].pc = "clear" /\ run[t].buf \in Buffers /\ run[t].delta \in Deltas
      /\ contents' = [contents EXCEPT ![Clusters[run[t].delta]] = {}]
      /\ Clusters' = [Clusters EXCEPT ![run[t].delta] = run[t].buf]
      /\ run' = [run EXCEPT ![t].pc = "delta"]
      /\ UNCHANGED <<queryBufferPool, deltaPool>>
  BY DEF Cleared, IInv, RunOK
<1>2. /\ run'[t].pc = "delta" /\ run'[t].view = run[t].view /\ run'[t].todo = run[t].todo
      /\ run'[t].client = run[t].client /\ run'[t].buf = run[t].buf
      /\ run'[t].delta = run[t].delta
      /\ \A u \in Threads \ {t} : run'[u] = run[u]
  BY <1>1 DEF IInv, RunOK
<1>3. RunOK'
  BY <1>1, <1>2 DEF IInv, RunOK, Idle
<1>4. TypeOK'
  <2>1. Clusters' \in [Deltas -> Maps] /\ contents' \in [Maps -> SUBSET Views]
    BY <1>1 DEF IInv, TypeOK, Maps
  <2> QED
    BY <1>1, <1>2, <2>1, Ownership, OwnershipKept DEF IInv, TypeOK
<1>5. OwnClusters'
  <2>1. \A m \in Maps : contents'[m] \subseteq contents[m]
    BY <1>1 DEF IInv, TypeOK
  <2>2. \A u \in Threads : run[u].pc # "idle" => run[u].buf \in Maps
    BY DEF IInv, RunOK, Maps
  <2> QED
    BY <1>1, <1>2, <2>1, <2>2 DEF IInv, OwnClusters
<1> QED
  BY <1>3, <1>4, <1>5 DEF IInv

(* The start of the encoding changes the program counter only. *)
LEMMA EncodeInv ==
  ASSUME IInv, NEW t \in Threads, Encode(t)
  PROVE  IInv'
<1>1. /\ run[t].pc = "delta" /\ run' = [run EXCEPT ![t].pc = "encode"]
      /\ UNCHANGED <<queryBufferPool, deltaPool, Clusters, contents>>
  BY DEF Encode
<1>2. /\ run'[t].pc = "encode" /\ run'[t].view = run[t].view /\ run'[t].todo = run[t].todo
      /\ run'[t].client = run[t].client /\ run'[t].buf = run[t].buf
      /\ run'[t].delta = run[t].delta
      /\ \A u \in Threads \ {t} : run'[u] = run[u]
  BY <1>1 DEF IInv, RunOK
<1>3. RunOK'
  BY <1>1, <1>2 DEF IInv, RunOK, Idle
<1>4. TypeOK'
  BY <1>1, <1>2, Ownership, OwnershipKept DEF IInv, TypeOK
<1>5. OwnClusters'
  BY <1>1, <1>2 DEF IInv, OwnClusters
<1> QED
  BY <1>3, <1>4, <1>5 DEF IInv

(* The end of a turn gives the delta back, and after the last client's the *)
(* buffer as well: each goes to its pool when its holder lets go of it.    *)
LEMMA TurnDoneInv ==
  ASSUME IInv, NEW t \in Threads, TurnDone(t)
  PROVE  IInv'
<1> DEFINE rest == run[t].todo \ {run[t].client}
<1>1. /\ run[t].pc \in {"delta", "encode"}
      /\ run[t].buf \in Buffers /\ run[t].delta \in Deltas
      /\ deltaPool' = deltaPool \cup {run[t].delta}
      /\ UNCHANGED <<Clusters, contents>>
  BY DEF TurnDone, IInv, RunOK
<1>2. CASE rest = {}
  <2>1. /\ run' = [run EXCEPT ![t] = Idle]
        /\ queryBufferPool' = queryBufferPool \cup {run[t].buf}
    BY <1>2 DEF TurnDone, AfterLast, PutBuffer
  <2>2. run'[t] = Idle /\ \A u \in Threads \ {t} : run'[u] = run[u]
    BY <2>1 DEF IInv, RunOK
  <2>3. RunOK'
    BY <2>1, <2>2 DEF IInv, RunOK, Idle
  <2>4. TypeOK'
    BY <1>1, <2>1, <2>2, Ownership, OwnershipKept, NoneAssumption DEF IInv, TypeOK, Idle
  <2>5. OwnClusters'
    BY <1>1, <2>2 DEF IInv, OwnClusters, Idle
  <2> QED
    BY <2>3, <2>4, <2>5 DEF IInv
<1>3. CASE rest # {}
  <2>1. /\ run' = [run EXCEPT ![t] = [@ EXCEPT !.pc = "next", !.todo = rest, !.client = None,
                                              !.delta = None]]
        /\ UNCHANGED queryBufferPool
    BY <1>3 DEF TurnDone, AfterLast
  <2>2. /\ run'[t].pc = "next" /\ run'[t].view = run[t].view /\ run'[t].todo = rest
        /\ run'[t].client = None /\ run'[t].buf = run[t].buf /\ run'[t].delta = None
        /\ \A u \in Threads \ {t} : run'[u] = run[u]
    BY <2>1 DEF IInv, RunOK
  <2>3. RunOK'
    BY <1>1, <2>1, <2>2 DEF IInv, RunOK, Idle
  <2>4. TypeOK'
    BY <1>1, <2>1, <2>2, Ownership, OwnershipKept, NoneAssumption DEF IInv, TypeOK
  <2>5. OwnClusters'
    BY <1>1, <2>2 DEF IInv, OwnClusters
  <2> QED
    BY <2>3, <2>4, <2>5 DEF IInv
<1> QED
  BY <1>2, <1>3

(* No step of any thread breaks the invariant. *)
LEMMA NextInv ==
  ASSUME IInv, [Next]_vars
  PROVE  IInv'
<1>1. CASE Next
  <2>1. PICK t \in Threads :
          \/ \E v \in Views, group \in SUBSET Clients, b \in Buffers :
               TakeBuffer(t, v, group, b)
          \/ ResetDone(t) \/ Queried(t) \/ QueryFails(t)
          \/ \E c \in Clients, d \in Deltas : TakeDelta(t, c, d)
          \/ Cleared(t) \/ Encode(t) \/ TurnDone(t)
    BY <1>1 DEF Next
  <2> QED
    BY <2>1, TakeBufferInv, FillInv, QueryFailsInv, TakeDeltaInv, ClearedInv, EncodeInv,
       TurnDoneInv
<1>2. CASE UNCHANGED vars
  BY <1>2 DEF vars, IInv, TypeOK, RunOK, OwnClusters, Held
<1> QED
  BY <1>1, <1>2

-----------------------------------------------------------------------------
(* Every buffer and delta has one owner at most, whoever takes one and on  *)
(* whatever path it comes back (hub.go 152-178, 195-241, 259-321).         *)
THEOREM Typing == Spec => []TypeOK
<1>1. IInv => TypeOK
  BY DEF IInv
<1> QED
  BY <1>1, InitInv, NextInv, PTL DEF Spec

(* What a thread reads while it encodes a delta is what it found itself,   *)
(* whatever became of the maps that pooled deltas still point at (hub.go   *)
(* 157-161, 204, 263-267, 286).                                            *)
THEOREM OwnClustersOnly == Spec => []NoForeignClusters
<1>1. IInv => NoForeignClusters
  <2> SUFFICES ASSUME IInv, NEW t \in Threads, Reading(t) # None
               PROVE  contents[Reading(t)] \subseteq {run[t].view}
    BY DEF NoForeignClusters
  <2>1. run[t].pc = "encode" /\ Reading(t) = run[t].buf
    BY DEF Reading
  <2> QED
    BY <2>1 DEF IInv, OwnClusters
<1> QED
  BY <1>1, InitInv, NextInv, PTL DEF Spec
=============================================================================
