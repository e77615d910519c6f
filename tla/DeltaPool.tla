----------------------------- MODULE DeltaPool -----------------------------
(***************************************************************************)
(* server/hub.go: the pools of deltas and query buffers, and the maps they *)
(* point at.  The broadcast goroutine serves a group of clients from one   *)
(* buffer, the handler of a client serves that client from another; each   *)
(* client's turn takes a delta from the pool and lends it the buffer's     *)
(* clusters map.  A delta put back keeps pointing at that map.             *)
(*                                                                         *)
(* Work on a map takes time: it goes on from the step that enters a        *)
(* thread's "reset", "query", "clear" or "encode" to the one that leaves   *)
(* it.  What is sent, and everything else in a delta, is Hub.tla.          *)
(***************************************************************************)
EXTENDS Naturals, FiniteSets

CONSTANTS
  Clients,
  Broadcast,   \* the broadcast goroutine; a client stands for its handler
  Views,       \* viewports queried for
  Deltas,      \* deltas, each standing for the map it was made with as well
  Buffers,     \* query buffers, each standing for its map as well
  None

Threads == Clients \cup {Broadcast}
Maps == Deltas \cup Buffers

ASSUME BroadcastAssumption == Broadcast \notin Clients
ASSUME EnoughAssumption ==
  /\ IsFiniteSet(Maps)
  /\ Cardinality(Deltas) >= Cardinality(Threads)
  /\ Cardinality(Buffers) >= Cardinality(Threads)
ASSUME MapsAssumption == Deltas \cap Buffers = {}
ASSUME NoneAssumption == None \notin Clients \cup Views \cup Deltas \cup Buffers

VARIABLES
  run,              \* what each thread is doing
  queryBufferPool,
  deltaPool,
  Clusters,         \* [delta -> the map it points at]
  contents          \* [map -> the viewports whose clusters it holds]

vars == <<run, queryBufferPool, deltaPool, Clusters, contents>>

Idle ==
  [pc |-> "idle",     \* "reset", "query", "next", "clear", "delta", "encode"
   view |-> None,     \* the viewport it has queried for
   todo |-> {},       \* the clients it has still to serve
   client |-> None,   \* the one it serves, whose viewportMu it holds
   buf |-> None, delta |-> None]

Init ==
  /\ run = [t \in Threads |-> Idle]
  /\ queryBufferPool = {} /\ deltaPool = {}
  /\ Clusters = [d \in Deltas |-> d]
  /\ contents = [m \in Maps |-> {}]

(* The map a thread works on, while it changes it, and while it reads it.  *)
Changing(t) ==
  CASE run[t].pc \in {"reset", "query"} -> run[t].buf
    [] run[t].pc = "clear" -> Clusters[run[t].delta]
    [] OTHER -> None
Reading(t) == IF run[t].pc = "encode" THEN run[t].buf ELSE None

(* What a pool may give: an object put back, or one made anew.             *)
Held(field) == {run[t][field] : t \in Threads}
Pooled(pool, all, field) == pool \cup (all \ Held(field))

-----------------------------------------------------------------------------
(* A thread takes a buffer and starts to reset it: broadcast for a group   *)
(* of eligible clients, a handler for its own.                             *)
TakeBuffer(t, v, group, b) ==
  /\ run[t] = Idle
  /\ group # {} /\ (t # Broadcast => group = {t})
  /\ b \in Pooled(queryBufferPool, Buffers, "buf")
  /\ run' = [run EXCEPT ![t] = [@ EXCEPT !.pc = "reset", !.view = v, !.todo = group, !.buf = b]]
  /\ queryBufferPool' = queryBufferPool \ {b}
  /\ UNCHANGED <<deltaPool, Clusters, contents>>

ResetNot(S) == S
Reset(S) == {}

ResetDone(t) ==
  /\ run[t].pc = "reset"
  /\ contents' = [contents EXCEPT ![run[t].buf] = Reset(@)]
  /\ run' = [run EXCEPT ![t].pc = "query"]
  /\ UNCHANGED <<queryBufferPool, deltaPool, Clusters>>

(* The query fills the map with clusters, if there are any.                *)
Queried(t) ==
  /\ run[t].pc = "query"
  /\ \E found \in {{}, {run[t].view}} :
       contents' = [contents EXCEPT ![run[t].buf] = @ \cup found]
  /\ run' = [run EXCEPT ![t].pc = "next"]
  /\ UNCHANGED <<queryBufferPool, deltaPool, Clusters>>

PutBuffer(t) == queryBufferPool' = queryBufferPool \cup {run[t].buf}

QueryFails(t) ==
  /\ run[t].pc = "query"
  /\ run' = [run EXCEPT ![t] = Idle]
  /\ PutBuffer(t)
  /\ UNCHANGED <<deltaPool, Clusters, contents>>

(* The next client's turn, once its viewportMu is free: the delta is taken *)
(* from the pool and the map it points at cleared.                         *)
TakeDelta(t, c, d) ==
  /\ run[t].pc = "next"
  /\ c \in run[t].todo
  /\ c \notin Held("client")
  /\ d \in Pooled(deltaPool, Deltas, "delta")
  /\ run' = [run EXCEPT ![t] = [@ EXCEPT !.pc = "clear", !.client = c, !.delta = d]]
  /\ deltaPool' = deltaPool \ {d}
  /\ UNCHANGED <<queryBufferPool, Clusters, contents>>

Cleared(t) ==
  /\ run[t].pc = "clear"
  /\ contents' = [contents EXCEPT ![Clusters[run[t].delta]] = {}]
  /\ Clusters' = [Clusters EXCEPT ![run[t].delta] = run[t].buf]
  /\ run' = [run EXCEPT ![t].pc = "delta"]
  /\ UNCHANGED <<queryBufferPool, deltaPool>>

Encode(t) ==
  /\ run[t].pc = "delta"
  /\ run' = [run EXCEPT ![t].pc = "encode"]
  /\ UNCHANGED <<queryBufferPool, deltaPool, Clusters, contents>>

(* The turn ends, with nothing to send or with the delta encoded: the      *)
(* delta goes back, and after the last client the buffer.                  *)
AfterEach(rest) == TRUE
AfterLast(rest) == rest = {}

TurnDone(t) ==
  LET rest == run[t].todo \ {run[t].client} IN
  /\ run[t].pc = "encode" \/ (run[t].pc = "delta" /\ contents[run[t].buf] = {})
  /\ deltaPool' = deltaPool \cup {run[t].delta}
  /\ run' = [run EXCEPT ![t] =
                IF rest = {} THEN Idle
                ELSE [@ EXCEPT !.pc = "next", !.todo = rest, !.client = None, !.delta = None]]
  /\ IF AfterLast(rest) THEN PutBuffer(t) ELSE UNCHANGED queryBufferPool
  /\ UNCHANGED <<Clusters, contents>>

Next ==
  \E t \in Threads :
    \/ \E v \in Views, group \in SUBSET Clients, b \in Buffers : TakeBuffer(t, v, group, b)
    \/ ResetDone(t) \/ Queried(t) \/ QueryFails(t)
    \/ \E c \in Clients, d \in Deltas : TakeDelta(t, c, d)
    \/ Cleared(t) \/ Encode(t) \/ TurnDone(t)

Spec == Init /\ [][Next]_vars

-----------------------------------------------------------------------------
(* Every variable keeps its type, and each pooled object has one owner: a  *)
(* buffer or delta that a thread holds is in no pool and held by no other, *)
(* on every way out of a turn (hub.go 152-178, 195-241, 259-321).          *)
TypeOK ==
  /\ queryBufferPool \subseteq Buffers /\ deltaPool \subseteq Deltas
  /\ Clusters \in [Deltas -> Maps]
  /\ contents \in [Maps -> SUBSET Views]
  /\ Held("buf") \cap queryBufferPool = {} /\ Held("delta") \cap deltaPool = {}
  /\ \A t, u \in Threads : \A field \in {"buf", "delta", "client"} :
       run[t][field] = run[u][field] => t = u \/ run[t][field] = None

(* A delta is encoded with clusters of its own query or with none, never   *)
(* with those another goroutine found for another viewport, however deltas *)
(* and buffers go round (hub.go 157-161, 204, 263-267, 286).               *)
NoForeignClusters ==
  \A t \in Threads : Reading(t) # None => contents[Reading(t)] \subseteq {run[t].view}
-----------------------------------------------------------------------------
(* A statement of the repository that the code does not keep.              *)

(* integration_test.sh takes the absence of "fatal" in the server's log as *)
(* success.  Go stops the process with a fatal error when it finds a map   *)
(* changed by one goroutine while another goes through it, unless there is *)
(* nothing in it to go through.                                            *)
NoConcurrentMapUse ==
  \A t, u \in Threads :
    t # u /\ Changing(t) # None /\ contents[Changing(t)] # {} => Changing(t) # Reading(u)
=============================================================================
