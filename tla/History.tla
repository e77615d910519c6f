------------------------------ MODULE History ------------------------------
(***************************************************************************)
(* store/store.go: the position history.  Apply hands each poll's batch to *)
(* one worker through historyChan; recordHistory writes it to SQLite, one  *)
(* transaction per batch and one INSERT per chunk; GetHistory reads a      *)
(* table that outlives the process.                                        *)
(*                                                                         *)
(* A batch travels in a slice of entitySlicePool; a slice is its backing   *)
(* array, and content is what the array holds.  The rest of Apply is       *)
(* Store.tla.                                                              *)
(*                                                                         *)
(* External: SQLite in shared-cache mode.  The table has one lock: a write *)
(* fails while a query is open, a query fails while a transaction has      *)
(* written, and neither waits.                                             *)
(***************************************************************************)
EXTENDS Integers, SequencesExt

CONSTANTS
  EntityIDs,
  Batches,      \* the batches a seeder reports: sequences of entities
  Arrays,       \* backing arrays
  HistoryCap,   \* capacity of historyChan (100 in the code)
  chunkSize,    \* rows of one INSERT (5000 in the code)
  Readers,      \* requests for the history of an entity
  MaxPolls,     \* bound: polls
  MaxNow,       \* bound: the last second
  MaxBoots      \* bound: starts of the process

ASSUME BatchesAssumption == Batches \subseteq Seq(EntityIDs)
ASSUME SizesAssumption == HistoryCap \in Nat /\ chunkSize \in Nat \ {0}
ASSUME ArraysAssumption == IsFiniteSet(Arrays) /\ Cardinality(Arrays) >= MaxPolls
ASSUME BoundsAssumption == MaxPolls \in Nat \ {0} /\ MaxNow \in Nat /\ MaxBoots \in Nat

VARIABLES
  pool,         \* entitySlicePool
  content,      \* [array -> the rows it holds]
  historyChan,  \* the queued batches: [array, poll]
  wpc,          \* the worker: "wait", "begin", "insert"
  entities,     \* the batch it records
  inserted,     \* how many of its rows
  tx,           \* the rows its transaction has written
  table,        \* history
  open,         \* the readers between Query and Close
  \* outside the program and history
  now,          \* the second the clock shows
  boots,        \* starts of the process
  lastPoll,     \* the second of this process's last poll, -1 for none
  pastPoll,     \* the same of the processes before
  polled,       \* the rows of each poll
  ended,        \* polls whose batch was recorded, dropped, or lost
  excused       \* polls whose batch something from outside spoilt

arrays == <<pool, content, historyChan>>
worker == <<wpc, entities, inserted, tx>>
world == <<now, boots, lastPoll, pastPoll>>
account == <<polled, ended, excused>>
vars == <<arrays, worker, table, open, world, account>>

NoBatch == [array |-> CHOOSE a \in Arrays : TRUE, poll |-> 0]
Row == [id : EntityIDs, timestamp : 0 .. MaxNow, poll : 1 .. MaxPolls]
Polls == DOMAIN polled

(* NewStore *)
Init ==
  /\ pool = {} /\ content = [a \in Arrays |-> <<>>] /\ historyChan = <<>>
  /\ wpc = "wait" /\ entities = NoBatch /\ inserted = 0 /\ tx = {} /\ open = {}
  /\ table = {}
  /\ now = 0 /\ boots = 1 /\ lastPoll = -1 /\ pastPoll = -1
  /\ polled = <<>> /\ ended = {} /\ excused = {}

-----------------------------------------------------------------------------
(* Apply *)

(* sync.Pool gives an array put back to it, or a new one.                  *)
InUse == pool \cup {b.array : b \in ToSet(historyChan)}
              \cup (IF wpc = "wait" THEN {} ELSE {entities.array})
Get == pool \cup {CHOOSE a \in Arrays : a \notin InUse}

(* It goes back to the pool if the queue does not take it. *)
PutBackAlways(a, queued) == pool \cup {a}
PutBack(a, queued) == IF queued THEN pool \ {a} ELSE pool \cup {a}

(* A seeder's polls are an interval apart (UpdatesSpaced in Seeder.tla). *)
SpacedNever == TRUE
Spaced == now > lastPoll

Rows(report, poll) ==
  [i \in DOMAIN report |-> [id |-> report[i], timestamp |-> now, poll |-> poll]]

(* Fill an array with the batch and queue it, or recycle the array.        *)
Apply(report, a) ==
  LET poll == Len(polled) + 1
      queued == Len(historyChan) < HistoryCap
      rows == Rows(report, poll)
  IN /\ poll <= MaxPolls
     /\ Spaced
     /\ a \in Get
     /\ content' = [content EXCEPT ![a] = rows]
     /\ historyChan' = IF queued THEN Append(historyChan, [array |-> a, poll |-> poll])
                                 ELSE historyChan
     /\ pool' = PutBack(a, queued)
     /\ polled' = Append(polled, rows)
     /\ lastPoll' = now
     /\ ended' = IF queued THEN ended ELSE ended \cup {poll}
     /\ excused' = IF ~queued \/ ~IsInjective(report) \/ now <= pastPoll
                     THEN excused \cup {poll} ELSE excused
     /\ UNCHANGED <<worker, table, open, now, boots, pastPoll>>

-----------------------------------------------------------------------------
(* historyWorker and recordHistory *)

Take ==
  /\ wpc = "wait"
  /\ historyChan # <<>>
  /\ entities' = Head(historyChan)
  /\ historyChan' = Tail(historyChan)
  /\ wpc' = "begin"
  /\ UNCHANGED <<pool, content, inserted, tx, table, open, world, account>>

(* recordHistory returns, and the worker recycles the array. *)
Return ==
  /\ wpc' = "wait"
  /\ pool' = pool \cup {entities.array}
  /\ ended' = ended \cup {entities.poll}
  /\ inserted' = 0 /\ tx' = {} /\ entities' = NoBatch
  /\ UNCHANGED <<content, historyChan, open, world, polled>>

(* The array is what is recorded. *)
batch == content[entities.array]

(* An empty batch is not recorded. *)
Begin ==
  /\ wpc = "begin"
  /\ IF batch = <<>> THEN Return /\ UNCHANGED <<table, excused>>
     ELSE /\ wpc' = "insert"
          /\ UNCHANGED <<arrays, entities, inserted, tx, table, open, world, account>>

chunk == SubSeq(batch, inserted + 1, Min({inserted + chunkSize, Len(batch)}))
Key(row) == <<row.id, row.timestamp>>

(* What the database has against the chunk: a repeated key, or a reader.   *)
RepeatsInChunk == ~IsInjective([i \in DOMAIN chunk |-> Key(chunk[i])])
Repeats ==
  \/ ~IsInjective([i \in DOMAIN chunk |-> Key(chunk[i])])
  \/ {Key(row) : row \in ToSet(chunk)} \cap {Key(row) : row \in table \cup tx} # {}
Refused == Repeats \/ open # {}

Insert ==
  /\ wpc = "insert"
  /\ inserted < Len(batch)
  /\ ~Refused
  /\ tx' = tx \cup ToSet(chunk)
  /\ inserted' = inserted + Len(chunk)
  /\ UNCHANGED <<arrays, wpc, entities, table, open, world, account>>

(* A failed INSERT, or a failure of the database at any of its calls: the  *)
(* transaction is rolled back and the batch is lost.                       *)
CommitAnyway == table \cup tx
Rollback == table

InsertRefused ==
  /\ wpc = "insert"
  /\ inserted < Len(batch)
  /\ Refused
  /\ table' = Rollback
  /\ excused' = IF open # {} THEN excused \cup {entities.poll} ELSE excused
  /\ Return

DatabaseFails ==
  /\ wpc = "insert" \/ (wpc = "begin" /\ batch # <<>>)
  /\ table' = Rollback
  /\ excused' = excused \cup {entities.poll}
  /\ Return

Commit ==
  /\ wpc = "insert"
  /\ inserted = Len(batch)
  /\ table' = table \cup tx
  /\ UNCHANGED excused
  /\ Return

-----------------------------------------------------------------------------
(* GetHistory: a query, open until its rows are read, or an error while a  *)
(* transaction has written.                                                *)
Locked == tx # {}

QueryHistory(r) ==
  /\ r \notin open
  /\ ~Locked
  /\ open' = open \cup {r}
  /\ UNCHANGED <<arrays, worker, table, world, account>>

CloseRows(r) ==
  /\ r \in open
  /\ open' = open \ {r}
  /\ UNCHANGED <<arrays, worker, table, world, account>>

-----------------------------------------------------------------------------
Tick ==
  /\ now < MaxNow
  /\ now' = now + 1
  /\ UNCHANGED <<arrays, worker, table, open, boots, lastPoll, pastPoll, account>>

(* The process ends at any point; NewStore opens the table it left.        *)
Restart ==
  /\ boots < MaxBoots
  /\ boots' = boots + 1
  /\ pool' = {} /\ content' = [a \in Arrays |-> <<>>] /\ historyChan' = <<>>
  /\ wpc' = "wait" /\ entities' = NoBatch /\ inserted' = 0 /\ tx' = {} /\ open' = {}
  /\ pastPoll' = Max({lastPoll, pastPoll})
  /\ lastPoll' = -1
  /\ ended' = Polls
  /\ excused' = excused \cup (Polls \ ended)
  /\ UNCHANGED <<table, now, polled>>

Worker == Take \/ Begin \/ Insert \/ InsertRefused \/ Commit

Next ==
  \/ \E b \in Batches, a \in Arrays : Apply(b, a)
  \/ Worker \/ DatabaseFails
  \/ \E r \in Readers : CloseRows(r) \/ QueryHistory(r)
  \/ Tick \/ Restart

Spec == Init /\ [][Next]_vars

-----------------------------------------------------------------------------
(* Every variable keeps its type, and a key is in the table at most once.  *)
TypeOK ==
  /\ pool \subseteq Arrays
  /\ \A a \in Arrays : ToSet(content[a]) \subseteq Row
  /\ Len(historyChan) <= HistoryCap
  /\ wpc \in {"wait", "begin", "insert"}
  /\ inserted \in 0 .. Len(batch)
  /\ table \cup tx \subseteq Row
  /\ \A row, other \in table \cup tx : Key(row) = Key(other) => row = other
  /\ wpc # "insert" => tx = {}
  /\ ended \cup excused \subseteq Polls

(* A batch is recorded as a whole or not at all, wherever its chunks fail  *)
(* and whenever the process ends (store.go 124-172).                       *)
BatchWhole ==
  \A p \in Polls :
    \/ ToSet(polled[p]) \subseteq table
    \/ ToSet(polled[p]) \cap table = {}

(* What waits for the worker, or is being recorded, is what Apply put      *)
(* there: no later poll overwrites an array that is still queued (store.go *)
(* 115, 223-236).                                                          *)
QueuedIntact ==
  \A b \in ToSet(historyChan) \cup (IF wpc = "wait" THEN {} ELSE {entities}) :
    content[b.array] = polled[b.poll]

(* A batch is missing from the history only for a cause: it named an       *)
(* entity twice, it fell into a second of the process before, the queue    *)
(* was full, a query was open, the database failed or the process ended.   *)
(* The key never turns away a batch of polls that are spaced (store.go     *)
(* 165-169).                                                               *)
LostOnlyWithCause ==
  \A p \in ended \ excused : ToSet(polled[p]) \subseteq table
=============================================================================
