---------------------------- MODULE HistoryProofs ----------------------------
(***************************************************************************)
(* Proofs about History.tla, for every set of entities, every batch, every *)
(* capacity of the queue and every size of a chunk.                        *)
(*                                                                         *)
(* QueuedIntact rests on ownership: an array is in the pool, or in one     *)
(* place of the queue, or with the worker (Owned), and there is a free one *)
(* for a poll that needs it (ArraysSuffice).  BatchWhole rests on the      *)
(* stamp of a row's poll, and on what the transaction has written so far   *)
(* (Recording).  LostOnlyWithCause rests on time: the batches that wait    *)
(* are of seconds nothing else recorded falls into (Alone).                *)
(***************************************************************************)
EXTENDS History, SequenceTheorems, FiniteSetTheorems, TLAPS

(* The batches that wait for the worker, and the one it has.               *)
InHand == ToSet(historyChan) \cup (IF wpc = "wait" THEN {} ELSE {entities})

Job == [array : Arrays, poll : Int]

Types ==
  /\ pool \subseteq Arrays
  /\ content \in [Arrays -> Seq(Row)]
  /\ historyChan \in Seq(Job) /\ \A i \in DOMAIN historyChan : historyChan[i].poll \in Polls
  /\ wpc \in {"wait", "begin", "insert"}
  /\ entities \in Job /\ (wpc # "wait" => entities.poll \in Polls)
  /\ polled \in Seq(Seq(Row)) /\ Len(polled) <= MaxPolls
  /\ now \in 0 .. MaxNow /\ lastPoll \in -1 .. now /\ pastPoll \in -1 .. now

Written ==
  /\ table \cup tx \subseteq Row
  /\ \A row, other \in table \cup tx : Key(row) = Key(other) => row = other
  /\ Len(historyChan) <= HistoryCap
  /\ ended \cup excused \subseteq Polls

(* Every array has one owner, and there are enough of them.                *)
Owned ==
  /\ \A i, j \in DOMAIN historyChan :
       i # j => /\ historyChan[i].array # historyChan[j].array
                /\ historyChan[i].poll # historyChan[j].poll
  /\ wpc # "wait" => \A i \in DOMAIN historyChan :
       historyChan[i].array # entities.array /\ historyChan[i].poll # entities.poll
  /\ \A b \in InHand : b.array \notin pool

ArraysSuffice == IsFiniteSet(InUse) /\ Cardinality(InUse) <= Len(polled)

(* The transaction has written the rows up to inserted. *)
Recording ==
  /\ wpc # "insert" => inserted = 0 /\ tx = {}
  /\ wpc = "insert" => /\ inserted \in 0 .. Len(batch)
                       /\ tx = {batch[i] : i \in 1 .. inserted}

(* Rows bear the number of their poll, and its second, which is past.      *)
Stamped ==
  \A p \in Polls : \A i \in DOMAIN polled[p] :
    /\ polled[p][i].poll = p
    /\ polled[p][i].timestamp <= lastPoll \/ polled[p][i].timestamp <= pastPoll

(* A batch in hand has not been given up; the history holds rows of those  *)
(* that are done with.                                                     *)
Unfinished ==
  /\ \A b \in InHand : b.poll \notin ended
  /\ \A row \in table : row.poll \in ended /\ row \in ToSet(polled[row.poll])

(* A batch in hand is of this process; if nothing spoilt it, it names no   *)
(* entity twice and shares no second with another poll's.                  *)
Alone ==
  \A b \in InHand :
    /\ \A i \in DOMAIN polled[b.poll] : polled[b.poll][i].timestamp <= lastPoll
    /\ b.poll \notin excused =>
         /\ \A i, j \in DOMAIN polled[b.poll] :
              polled[b.poll][i].id = polled[b.poll][j].id => i = j
         /\ \A q \in Polls \ {b.poll} :
              \A i \in DOMAIN polled[q], j \in DOMAIN polled[b.poll] :
                polled[q][i].timestamp # polled[b.poll][j].timestamp

IInv ==
  /\ Types /\ Written /\ Owned /\ ArraysSuffice /\ QueuedIntact /\ Recording
  /\ Stamped /\ Unfinished /\ Alone /\ BatchWhole /\ LostOnlyWithCause

-----------------------------------------------------------------------------
(* Sequences as sets: what Append, Head and Tail do.                       *)
LEMMA AppendToSet ==
  ASSUME NEW S, NEW s \in Seq(S), NEW e \in S
  PROVE  /\ Append(s, e) \in Seq(S) /\ Len(Append(s, e)) = Len(s) + 1
         /\ DOMAIN Append(s, e) = DOMAIN s \cup {Len(s) + 1} /\ Len(s) + 1 \notin DOMAIN s
         /\ Append(s, e)[Len(s) + 1] = e
         /\ \A i \in DOMAIN s : Append(s, e)[i] = s[i]
         /\ ToSet(Append(s, e)) = ToSet(s) \cup {e}
<1>1. /\ Append(s, e) \in Seq(S) /\ Len(Append(s, e)) = Len(s) + 1
      /\ DOMAIN Append(s, e) = DOMAIN s \cup {Len(s) + 1} /\ Len(s) + 1 \notin DOMAIN s
      /\ Append(s, e)[Len(s) + 1] = e
      /\ \A i \in DOMAIN s : Append(s, e)[i] = s[i]
  OBVIOUS
<1> QED
  BY <1>1 DEF ToSet

(* What a queue holds is its head and what its tail holds.                 *)
LEMMA HeadTailToSet ==
  ASSUME NEW S, NEW s \in Seq(S), s # <<>>
  PROVE  ToSet(s) = {Head(s)} \cup ToSet(Tail(s)) /\ Tail(s) \in Seq(S) /\ Head(s) \in S
<1>1. /\ 1 \in DOMAIN s /\ Head(s) = s[1] /\ Tail(s) \in Seq(S) /\ s[1] \in S
      /\ DOMAIN Tail(s) = 1 .. Len(s) - 1 /\ DOMAIN s = 1 .. Len(s) /\ Len(s) \in Nat
      /\ \A i \in DOMAIN Tail(s) : i + 1 \in DOMAIN s /\ Tail(s)[i] = s[i + 1]
  BY EmptySeq
<1>2. \A i \in DOMAIN s : i = 1 \/ (i - 1 \in DOMAIN Tail(s) /\ Tail(s)[i - 1] = s[i])
  BY <1>1
<1>3. \A x \in ToSet(Tail(s)) : x \in ToSet(s)
  BY <1>1 DEF ToSet
<1>4. \A x \in ToSet(s) : x = Head(s) \/ x \in ToSet(Tail(s))
  BY <1>1, <1>2 DEF ToSet
<1>5. Head(s) \in ToSet(s)
  BY <1>1 DEF ToSet
<1> QED
  BY <1>1, <1>3, <1>4, <1>5

(* The invariant implies the type invariant.                               *)
LEMMA TypesHold == IInv => TypeOK
<1> SUFFICES ASSUME IInv PROVE TypeOK
  OBVIOUS
<1>1. \A a \in Arrays : content[a] \in Seq(Row) /\ ToSet(content[a]) \subseteq Row
  BY DEF IInv, Types, ToSet
<1>2. batch \in Seq(Row) /\ Len(batch) \in Nat
  <2>1. entities.array \in Arrays /\ content \in [Arrays -> Seq(Row)]
    BY DEF IInv, Types, Job
  <2> QED
    BY <2>1 DEF batch
<1>3. inserted \in 0 .. Len(batch)
  BY <1>2 DEF IInv, Recording
<1> QED
  BY <1>1, <1>3 DEF IInv, Types, Written, Recording, TypeOK

(* While a poll remains to be made, an array is free.                      *)
LEMMA ArrayIsFree ==
  ASSUME IInv, Len(polled) < MaxPolls
  PROVE  \E a \in Arrays : a \notin InUse
<1>1. /\ IsFiniteSet(InUse) /\ Cardinality(InUse) <= Len(polled)
      /\ Cardinality(InUse) \in Nat /\ Len(polled) \in Nat
  BY FS_CardinalityType DEF IInv, ArraysSuffice, Types
<1>2. SUFFICES ASSUME Arrays \subseteq InUse PROVE FALSE
  OBVIOUS
<1>3. Cardinality(Arrays) <= Cardinality(InUse) /\ Cardinality(Arrays) \in Nat
  BY <1>1, <1>2, ArraysAssumption, FS_Subset, FS_CardinalityType
<1> QED
  BY <1>1, <1>3, ArraysAssumption, BoundsAssumption

(* So the array a poll fills is of the pool or of nobody.                  *)
LEMMA GetFindsFree ==
  ASSUME IInv, Len(polled) < MaxPolls, NEW a \in Get
  PROVE  a \in Arrays /\ \A b \in InHand : b.array # a
<1>1. (CHOOSE x \in Arrays : x \notin InUse) \in Arrays \ InUse
  BY ArrayIsFree
<1>2. \A b \in InHand : b.array \in InUse
  BY DEF InHand, InUse
<1>3. CASE a \in pool
  BY <1>3 DEF IInv, Types, Owned
<1>4. CASE a \notin pool
  BY <1>1, <1>2, <1>4 DEF Get
<1> QED
  BY <1>3, <1>4

-----------------------------------------------------------------------------
(* What is known of a batch in hand.                                       *)
LEMMA HandTypes ==
  ASSUME IInv
  PROVE  /\ \A b \in InHand : b.array \in Arrays /\ b.poll \in Polls
         /\ wpc # "wait" => entities \in InHand
         /\ \A i \in DOMAIN historyChan : historyChan[i] \in InHand
         /\ \A b \in InHand : content[b.array] = polled[b.poll]
<1>1. \A i \in DOMAIN historyChan :
        historyChan[i].array \in Arrays /\ historyChan[i].poll \in Polls
  <2>1. \A i \in DOMAIN historyChan : historyChan[i] \in Job
    BY DEF IInv, Types
  <2> QED
    BY <2>1 DEF IInv, Types, Job
<1>2. \A b \in ToSet(historyChan) : b.array \in Arrays /\ b.poll \in Polls
  BY <1>1 DEF ToSet
<1>3. \A i \in DOMAIN historyChan : historyChan[i] \in ToSet(historyChan)
  BY DEF ToSet
<1>4. wpc # "wait" => entities.array \in Arrays /\ entities.poll \in Polls
  BY DEF IInv, Types, Job
<1>5. \A b \in InHand : content[b.array] = polled[b.poll]
  BY DEF IInv, QueuedIntact, InHand
<1> QED
  BY <1>2, <1>3, <1>4, <1>5 DEF InHand

(* A poll: the array it fills is nobody's, and no other batch is of its    *)
(* second.                                                                 *)
LEMMA ApplyInv ==
  ASSUME IInv, NEW report \in Batches, NEW a \in Arrays, Apply(report, a)
  PROVE  IInv'
<1> DEFINE poll == Len(polled) + 1
           rows == Rows(report, poll)
           queued == Len(historyChan) < HistoryCap
           new == [array |-> a, poll |-> poll]
<1>1. /\ poll <= MaxPolls /\ now > lastPoll /\ a \in Get
      /\ content' = [content EXCEPT ![a] = rows]
      /\ historyChan' = IF queued THEN Append(historyChan, new) ELSE historyChan
      /\ pool' = IF queued THEN pool \ {a} ELSE pool \cup {a}
      /\ polled' = Append(polled, rows)
      /\ lastPoll' = now
      /\ ended' = IF queued THEN ended ELSE ended \cup {poll}
      /\ excused' = IF ~queued \/ ~IsInjective(report) \/ now <= pastPoll
                      THEN excused \cup {poll} ELSE excused
      /\ UNCHANGED <<worker, table, open, now, boots, pastPoll>>
  BY DEF Apply, Spaced, PutBack
<1>2. UNCHANGED <<wpc, entities, inserted, tx, table, now, boots, pastPoll>>
  BY <1>1 DEF worker
<1>3. /\ polled \in Seq(Seq(Row)) /\ historyChan \in Seq(Job)
      /\ content \in [Arrays -> Seq(Row)] /\ pool \subseteq Arrays
      /\ now \in 0 .. MaxNow /\ lastPoll \in Int /\ pastPoll \in Int
      /\ Len(polled) \in Nat /\ Polls = 1 .. Len(polled)
      /\ Len(historyChan) \in Nat /\ HistoryCap \in Nat /\ MaxPolls \in Nat
  <2>1. polled \in Seq(Seq(Row)) /\ historyChan \in Seq(Job)
    BY DEF IInv, Types
  <2>2. Len(polled) \in Nat /\ Polls = 1 .. Len(polled) /\ Len(historyChan) \in Nat
    BY <2>1 DEF Polls
  <2>3. /\ content \in [Arrays -> Seq(Row)] /\ pool \subseteq Arrays
        /\ now \in 0 .. MaxNow /\ lastPoll \in Int /\ pastPoll \in Int
    BY BoundsAssumption DEF IInv, Types
  <2> QED
    BY <2>1, <2>2, <2>3, SizesAssumption, BoundsAssumption
<1>4. poll \in 1 .. MaxPolls /\ poll \notin Polls
  BY <1>1, <1>3
<1>5. /\ rows \in Seq(Row) /\ DOMAIN rows = DOMAIN report
      /\ \A i \in DOMAIN rows :
           rows[i].id = report[i] /\ rows[i].timestamp = now /\ rows[i].poll = poll
  <2>1. report \in Seq(EntityIDs)
    BY BatchesAssumption
  <2>2. DOMAIN report = 1 .. Len(report) /\ Len(report) \in Nat
        /\ \A i \in DOMAIN report : report[i] \in EntityIDs
    BY <2>1
  <2> HIDE DEF poll
  <2>3. rows = [i \in DOMAIN report |-> [id |-> report[i], timestamp |-> now, poll |-> poll]]
    BY DEF Rows
  <2>4. \A i \in DOMAIN report : [id |-> report[i], timestamp |-> now, poll |-> poll] \in Row
    BY <1>3, <1>4, <2>2 DEF Row
  <2>5. rows \in [1 .. Len(report) -> Row]
    BY <2>2, <2>3, <2>4
  <2>6. rows \in Seq(Row)
    BY <2>2, <2>5
  <2> QED
    BY <2>3, <2>6
<1>6. a \in Arrays /\ \A b \in InHand : b.array # a
  <2>1. Len(polled) < MaxPolls
    BY <1>1, <1>3
  <2> QED
    BY <1>1, <2>1, GetFindsFree
<1> HIDE DEF rows
<1>7. /\ polled' \in Seq(Seq(Row)) /\ Len(polled') = poll
      /\ polled'[poll] = rows /\ Polls' = Polls \cup {poll}
      /\ \A p \in Polls : polled'[p] = polled[p]
  <2>1. /\ Append(polled, rows) \in Seq(Seq(Row)) /\ Len(Append(polled, rows)) = Len(polled) + 1
        /\ DOMAIN Append(polled, rows) = DOMAIN polled \cup {Len(polled) + 1}
        /\ Append(polled, rows)[Len(polled) + 1] = rows
        /\ \A i \in DOMAIN polled : Append(polled, rows)[i] = polled[i]
    BY <1>3, <1>5, AppendToSet
  <2> QED
    BY <1>1, <2>1 DEF Polls
<1>8. /\ content' \in [Arrays -> Seq(Row)] /\ content'[a] = rows
      /\ \A other \in Arrays \ {a} : content'[other] = content[other]
  BY <1>1, <1>3, <1>5
<1> HIDE DEF poll, queued
<1>9. /\ new \in Job /\ new.array = a /\ new.poll = poll
      /\ ToSet(historyChan') = ToSet(historyChan) \cup (IF queued THEN {new} ELSE {})
  <2>1. new \in Job
    BY <1>4 DEF Job
  <2>2. ToSet(Append(historyChan, new)) = ToSet(historyChan) \cup {new}
    BY <1>3, <2>1, AppendToSet
  <2> QED
    BY <1>1, <1>7, <2>1, <2>2
<1> HIDE DEF new
<1>10. InHand' = InHand \cup (IF queued THEN {new} ELSE {})
  BY <1>2, <1>9 DEF InHand
<1>11. /\ \A b \in InHand : b.array \in Arrays /\ b.poll \in Polls /\ b.poll # poll
       /\ \A b \in InHand : content'[b.array] = content[b.array] /\ polled'[b.poll] = polled[b.poll]
       /\ wpc # "wait" => entities \in InHand
       /\ \A i \in DOMAIN historyChan : historyChan[i] \in InHand
       /\ \A b \in InHand : content[b.array] = polled[b.poll]
  BY <1>4, <1>6, <1>7, <1>8, HandTypes
<1>12. /\ historyChan' \in Seq(Job)
       /\ \A i \in DOMAIN historyChan' : historyChan'[i].poll \in Polls'
       /\ queued => /\ Len(historyChan') = Len(historyChan) + 1
                    /\ DOMAIN historyChan' = DOMAIN historyChan \cup {Len(historyChan) + 1}
                    /\ Len(historyChan) + 1 \notin DOMAIN historyChan
                    /\ historyChan'[Len(historyChan) + 1] = new
                    /\ \A i \in DOMAIN historyChan : historyChan'[i] = historyChan[i]
  <2>1. CASE queued
    <3>1. historyChan' = Append(historyChan, new)
      BY <1>1, <2>1
    <3>2. /\ historyChan' \in Seq(Job) /\ Len(historyChan') = Len(historyChan) + 1
          /\ DOMAIN historyChan' = DOMAIN historyChan \cup {Len(historyChan) + 1}
          /\ Len(historyChan) + 1 \notin DOMAIN historyChan
          /\ historyChan'[Len(historyChan) + 1] = new
          /\ \A i \in DOMAIN historyChan : historyChan'[i] = historyChan[i]
      BY <1>3, <1>9, <3>1, AppendToSet
    <3> QED
      BY <1>7, <1>9, <1>11, <3>2
  <2>2. CASE ~queued
    BY <1>1, <1>3, <1>7, <1>11, <2>2
  <2> QED
    BY <2>1, <2>2
<1>13. Types'
  <2>1. pool' \subseteq Arrays
    BY <1>1, <1>3
  <2>2. entities' \in Job /\ (wpc' # "wait" => entities'.poll \in Polls')
    BY <1>2, <1>7 DEF IInv, Types
  <2>3. lastPoll' \in -1 .. now' /\ now' \in 0 .. MaxNow /\ pastPoll' \in -1 .. now'
    BY <1>1, <1>2, <1>3 DEF IInv, Types
  <2>4. Len(polled') <= MaxPolls
    BY <1>1, <1>7
  <2>5. wpc' \in {"wait", "begin", "insert"}
    BY <1>2 DEF IInv, Types
  <2> QED
    BY <1>7, <1>8, <1>12, <2>1, <2>2, <2>3, <2>4, <2>5 DEF Types
<1>14. Written'
  <2>1. Len(historyChan') <= HistoryCap
    BY <1>1, <1>3 DEF IInv, Written, queued
  <2>2. ended' \cup excused' \subseteq Polls'
    BY <1>1, <1>7 DEF IInv, Written
  <2>3. table' \cup tx' = table \cup tx
    BY <1>2
  <2> QED
    BY <2>1, <2>2, <2>3 DEF IInv, Written, Key
<1>15. Owned'
  <2>1. CASE queued
    <3>1. /\ Len(historyChan') = Len(historyChan) + 1
          /\ DOMAIN historyChan' = DOMAIN historyChan \cup {Len(historyChan) + 1}
          /\ Len(historyChan) + 1 \notin DOMAIN historyChan
          /\ historyChan'[Len(historyChan) + 1] = new
          /\ \A i \in DOMAIN historyChan : historyChan'[i] = historyChan[i]
      BY <1>12, <2>1
    <3>2. \A i, j \in DOMAIN historyChan' :
            i # j => /\ historyChan'[i].array # historyChan'[j].array
                     /\ historyChan'[i].poll # historyChan'[j].poll
      BY <1>6, <1>9, <1>11, <3>1 DEF IInv, Owned
    <3>3. wpc' # "wait" => \A i \in DOMAIN historyChan' :
            historyChan'[i].array # entities'.array /\ historyChan'[i].poll # entities'.poll
      BY <1>2, <1>6, <1>9, <1>11, <3>1 DEF IInv, Owned
    <3>4. \A b \in InHand' : b.array \notin pool'
      BY <1>1, <1>9, <1>10, <2>1 DEF IInv, Owned
    <3> QED
      BY <3>2, <3>3, <3>4 DEF Owned
  <2>2. CASE ~queued
    <3>1. historyChan' = historyChan /\ InHand' = InHand /\ pool' = pool \cup {a}
      BY <1>1, <1>10, <2>2
    <3> QED
      BY <1>2, <1>6, <3>1 DEF IInv, Owned
  <2> QED
    BY <2>1, <2>2
<1>16. ArraysSuffice'
  <2>1. InUse' \subseteq InUse \cup {a}
    BY <1>1, <1>2, <1>9 DEF InUse
  <2>2. IsFiniteSet(InUse) /\ Cardinality(InUse) <= Len(polled) /\ Cardinality(InUse) \in Nat
    BY FS_CardinalityType DEF IInv, ArraysSuffice
  <2>3. IsFiniteSet(InUse \cup {a}) /\ Cardinality(InUse \cup {a}) <= Cardinality(InUse) + 1
    <3>1. /\ IsFiniteSet(InUse \cup {a})
          /\ Cardinality(InUse \cup {a}) =
               IF a \in InUse THEN Cardinality(InUse) ELSE Cardinality(InUse) + 1
      BY <2>2, FS_AddElement
    <3> QED
      BY <2>2, <3>1
  <2>4. /\ IsFiniteSet(InUse') /\ Cardinality(InUse') <= Cardinality(InUse \cup {a})
        /\ Cardinality(InUse') \in Nat /\ Cardinality(InUse \cup {a}) \in Nat
    BY <2>1, <2>3, FS_Subset, FS_CardinalityType
  <2> QED
    BY <1>3, <1>7, <2>2, <2>3, <2>4 DEF ArraysSuffice, poll
<1>17. QueuedIntact'
  <2>1. \A b \in InHand' : content'[b.array] = polled'[b.poll]
    BY <1>7, <1>8, <1>9, <1>10, <1>11
  <2> QED
    BY <2>1 DEF QueuedIntact, InHand
<1>18. Recording'
  <2>1. wpc # "wait" => batch' = batch
    BY <1>2, <1>11 DEF batch
  <2> QED
    BY <1>2, <2>1 DEF IInv, Recording
<1>19. Stamped'
  <2> SUFFICES ASSUME NEW p \in Polls \cup {poll}, NEW i \in DOMAIN polled'[p]
               PROVE  /\ polled'[p][i].poll = p
                      /\ polled'[p][i].timestamp <= lastPoll' \/ polled'[p][i].timestamp <= pastPoll'
    BY <1>7 DEF Stamped
  <2>1. CASE p = poll
    BY <1>1, <1>3, <1>5, <1>7, <2>1
  <2>2. CASE p \in Polls
    <3>1. polled'[p][i] = polled[p][i] /\ i \in DOMAIN polled[p] /\ polled[p][i] \in Row
      BY <1>3, <1>7, <2>2
    <3>2. polled[p][i].timestamp \in Int
      BY <3>1 DEF Row
    <3> QED
      BY <1>1, <1>2, <1>3, <2>2, <3>1, <3>2 DEF IInv, Stamped
  <2> QED
    BY <2>1, <2>2
<1>20. Unfinished'
  <2>1. \A b \in InHand' : b.poll \notin ended'
    BY <1>1, <1>4, <1>9, <1>10, <1>11 DEF IInv, Unfinished, Written
  <2>2. \A row \in table' : row.poll \in ended' /\ row \in ToSet(polled'[row.poll])
    <3>1. ended \subseteq Polls /\ ended \subseteq ended'
      BY <1>1 DEF IInv, Written
    <3> QED
      BY <1>2, <1>7, <3>1 DEF IInv, Unfinished
  <2> QED
    BY <2>1, <2>2 DEF Unfinished
<1>21. \A p \in Polls : \A i \in DOMAIN polled[p] :
         /\ polled[p][i].timestamp \in Int
         /\ polled[p][i].timestamp <= lastPoll \/ polled[p][i].timestamp <= pastPoll
  <2>1. \A p \in Polls : polled[p] \in Seq(Row)
    BY <1>3
  <2>2. \A p \in Polls : \A i \in DOMAIN polled[p] : polled[p][i] \in Row
    BY <2>1
  <2> QED
    BY <2>2 DEF Row, IInv, Stamped
<1>22. Alone'
  <2> SUFFICES ASSUME NEW b \in InHand'
               PROVE  /\ \A i \in DOMAIN polled'[b.poll] : polled'[b.poll][i].timestamp <= lastPoll'
                      /\ b.poll \notin excused' =>
                           /\ \A i, j \in DOMAIN polled'[b.poll] :
                                polled'[b.poll][i].id = polled'[b.poll][j].id => i = j
                           /\ \A q \in Polls' \ {b.poll} :
                                \A i \in DOMAIN polled'[q], j \in DOMAIN polled'[b.poll] :
                                  polled'[q][i].timestamp # polled'[b.poll][j].timestamp
    BY DEF Alone
  <2>1. CASE b \in InHand
    <3>1. \A i \in DOMAIN polled[b.poll] :
            polled[b.poll][i].timestamp <= lastPoll /\ polled[b.poll][i].timestamp \in Int
      BY <1>11, <1>21, <2>1 DEF IInv, Alone
    <3>2. \A i \in DOMAIN polled'[b.poll] : polled'[b.poll][i].timestamp <= lastPoll'
      BY <1>1, <1>3, <1>11, <2>1, <3>1
    <3>3. ASSUME b.poll \notin excused'
          PROVE  /\ \A i, j \in DOMAIN polled'[b.poll] :
                      polled'[b.poll][i].id = polled'[b.poll][j].id => i = j
                 /\ \A q \in Polls' \ {b.poll} :
                      \A i \in DOMAIN polled'[q], j \in DOMAIN polled'[b.poll] :
                        polled'[q][i].timestamp # polled'[b.poll][j].timestamp
      <4>1. b.poll \notin excused /\ polled'[b.poll] = polled[b.poll]
        BY <1>1, <1>11, <2>1, <3>3
      <4>2. \A i, j \in DOMAIN polled'[b.poll] :
              polled'[b.poll][i].id = polled'[b.poll][j].id => i = j
        BY <2>1, <4>1 DEF IInv, Alone
      <4>3. \A q \in Polls \ {b.poll} :
              \A i \in DOMAIN polled[q], j \in DOMAIN polled[b.poll] :
                polled[q][i].timestamp # polled[b.poll][j].timestamp
        BY <2>1, <4>1 DEF IInv, Alone
      <4>4. \A i \in DOMAIN rows, j \in DOMAIN polled[b.poll] :
              rows[i].timestamp # polled[b.poll][j].timestamp
        BY <1>1, <1>3, <1>5, <3>1
      <4> QED
        BY <1>7, <4>1, <4>2, <4>3, <4>4
    <3> QED
      BY <3>2, <3>3
  <2>2. CASE b \notin InHand
    <3>1. queued /\ b.poll = poll /\ polled'[b.poll] = rows
      BY <1>7, <1>9, <1>10, <2>2
    <3>2. \A i \in DOMAIN polled'[b.poll] : polled'[b.poll][i].timestamp <= lastPoll'
      BY <1>1, <1>3, <1>5, <3>1
    <3>3. ASSUME b.poll \notin excused'
          PROVE  /\ \A i, j \in DOMAIN polled'[b.poll] :
                      polled'[b.poll][i].id = polled'[b.poll][j].id => i = j
                 /\ \A q \in Polls' \ {b.poll} :
                      \A i \in DOMAIN polled'[q], j \in DOMAIN polled'[b.poll] :
                        polled'[q][i].timestamp # polled'[b.poll][j].timestamp
      <4>1. IsInjective(report) /\ now > pastPoll
        BY <1>1, <1>3, <3>1, <3>3
      <4>2. \A i, j \in DOMAIN rows : rows[i].id = rows[j].id => i = j
        BY <1>5, <4>1 DEF IsInjective
      <4>3. \A q \in Polls : \A i \in DOMAIN polled[q], j \in DOMAIN rows :
              polled[q][i].timestamp # rows[j].timestamp
        <5> SUFFICES ASSUME NEW q \in Polls, NEW i \in DOMAIN polled[q], NEW j \in DOMAIN rows
                     PROVE  polled[q][i].timestamp # rows[j].timestamp
          OBVIOUS
        <5>1. /\ polled[q][i].timestamp \in Int
              /\ polled[q][i].timestamp <= lastPoll \/ polled[q][i].timestamp <= pastPoll
          BY <1>21
        <5>2. lastPoll < now /\ pastPoll < now /\ now \in Int /\ lastPoll \in Int /\ pastPoll \in Int
          BY <1>1, <1>3, <4>1
        <5>3. rows[j].timestamp = now
          BY <1>5
        <5> QED
          BY <5>1, <5>2, <5>3
      <4>4. \A q \in Polls' \ {b.poll} : q \in Polls /\ polled'[q] = polled[q]
        BY <1>7, <3>1
      <4> QED
        BY <3>1, <4>2, <4>3, <4>4
    <3> QED
      BY <3>2, <3>3
  <2> QED
    BY <2>1, <2>2
<1>23. BatchWhole'
  <2> SUFFICES ASSUME NEW p \in Polls \cup {poll}
               PROVE  ToSet(polled'[p]) \subseteq table' \/ ToSet(polled'[p]) \cap table' = {}
    BY <1>7 DEF BatchWhole
  <2>1. CASE p \in Polls
    BY <1>2, <1>7, <2>1 DEF IInv, BatchWhole
  <2>2. CASE p = poll
    <3>1. \A row \in ToSet(rows) : row.poll = poll
      BY <1>5 DEF ToSet
    <3>2. \A row \in table : row.poll # poll
      BY <1>4 DEF IInv, Unfinished, Written
    <3> QED
      BY <1>2, <1>7, <2>2, <3>1, <3>2
  <2> QED
    BY <2>1, <2>2
<1>24. LostOnlyWithCause'
  <2> SUFFICES ASSUME NEW p \in ended' \ excused'
               PROVE  ToSet(polled'[p]) \subseteq table'
    BY DEF LostOnlyWithCause
  <2>1. p \in ended \ excused /\ p \in Polls
    BY <1>1 DEF IInv, Written
  <2> QED
    BY <1>2, <1>7, <2>1 DEF IInv, LostOnlyWithCause
<1> QED
  BY <1>13, <1>14, <1>15, <1>16, <1>17, <1>18, <1>19, <1>20, <1>22, <1>23, <1>24 DEF IInv

-----------------------------------------------------------------------------
(* The worker.  A step that changes only what the transaction has written  *)
(* has to account for that alone.                                          *)
LEMMA QuietInv ==
  ASSUME IInv,
         UNCHANGED <<pool, content, historyChan, entities, table, polled, ended, excused,
                     lastPoll, pastPoll>>,
         wpc' \in {"wait", "begin", "insert"}, wpc' = "wait" <=> wpc = "wait",
         now' \in now .. MaxNow, Recording', Written'
  PROVE  IInv'
<1>1. InHand' = InHand /\ InUse' = InUse /\ Polls' = Polls
  BY DEF InHand, InUse, Polls
<1>2. Types'
  <2>1. now \in 0 .. MaxNow /\ lastPoll \in -1 .. now /\ pastPoll \in -1 .. now /\ MaxNow \in Nat
    BY BoundsAssumption DEF IInv, Types
  <2>2. now' \in 0 .. MaxNow /\ lastPoll' \in -1 .. now' /\ pastPoll' \in -1 .. now'
    BY <2>1
  <2> QED
    BY <1>1, <2>2 DEF IInv, Types
<1>3. Owned' /\ ArraysSuffice' /\ QueuedIntact'
  BY <1>1 DEF IInv, Owned, ArraysSuffice, QueuedIntact
<1>4. Stamped' /\ Unfinished' /\ Alone' /\ BatchWhole' /\ LostOnlyWithCause'
  BY <1>1 DEF IInv, Stamped, Unfinished, Alone, BatchWhole, LostOnlyWithCause
<1> QED
  BY <1>2, <1>3, <1>4 DEF IInv

(* The worker takes the next batch: as many are in hand as before.         *)
LEMMA TakeInv ==
  ASSUME IInv, Take
  PROVE  IInv'
<1>1. /\ wpc = "wait" /\ historyChan # <<>> /\ wpc' = "begin"
      /\ entities' = Head(historyChan) /\ historyChan' = Tail(historyChan)
      /\ UNCHANGED <<pool, content, inserted, tx, table, polled, ended, excused, now,
                     lastPoll, pastPoll>>
  BY DEF Take, world, account
<1>2. historyChan \in Seq(Job)
  BY DEF IInv, Types
<1>3. /\ historyChan' \in Seq(Job) /\ entities' \in Job
      /\ ToSet(historyChan) = {entities'} \cup ToSet(historyChan')
  BY <1>1, <1>2, HeadTailToSet
<1>4. /\ 1 \in DOMAIN historyChan /\ entities' = historyChan[1]
      /\ Len(historyChan') = Len(historyChan) - 1 /\ Len(historyChan) \in Nat
      /\ \A i \in DOMAIN historyChan' :
           /\ i + 1 \in DOMAIN historyChan /\ historyChan'[i] = historyChan[i + 1]
           /\ i \in Int /\ i + 1 # 1
      /\ \A i, j \in DOMAIN historyChan' : i # j => i + 1 # j + 1
  BY <1>1, <1>2, EmptySeq
<1>5. InHand' = InHand /\ InUse' = InUse /\ Polls' = Polls
  <2>1. InHand' = InHand
    BY <1>1, <1>3 DEF InHand
  <2>2. {b.array : b \in ToSet(historyChan)} =
          {entities'.array} \cup {b.array : b \in ToSet(historyChan')}
    BY <1>3
  <2> QED
    BY <1>1, <2>1, <2>2 DEF InUse, Polls
<1>6. Types'
  <2>1. \A i \in DOMAIN historyChan' : historyChan'[i].poll \in Polls
    BY <1>4 DEF IInv, Types
  <2>2. entities'.poll \in Polls
    BY <1>4 DEF IInv, Types
  <2> QED
    BY <1>1, <1>3, <1>5, <2>1, <2>2 DEF IInv, Types
<1>7. Written' /\ Recording'
  BY <1>1, <1>4, <1>5, SizesAssumption DEF IInv, Written, Recording, Key
<1>8. Owned'
  <2>1. \A i, j \in DOMAIN historyChan' :
          i # j => /\ historyChan'[i].array # historyChan'[j].array
                   /\ historyChan'[i].poll # historyChan'[j].poll
    BY <1>4 DEF IInv, Owned
  <2>2. \A i \in DOMAIN historyChan' :
          historyChan'[i].array # entities'.array /\ historyChan'[i].poll # entities'.poll
    BY <1>4 DEF IInv, Owned
  <2> QED
    BY <1>1, <1>5, <2>1, <2>2 DEF IInv, Owned
<1>9. QueuedIntact'
  <2>1. \A b \in InHand' : content'[b.array] = polled'[b.poll]
    BY <1>1, <1>5, HandTypes
  <2> QED
    BY <2>1 DEF QueuedIntact, InHand
<1>10. ArraysSuffice' /\ Stamped' /\ Unfinished' /\ Alone' /\ BatchWhole' /\ LostOnlyWithCause'
  BY <1>1, <1>5 DEF IInv, ArraysSuffice, Stamped, Unfinished, Alone, BatchWhole,
                    LostOnlyWithCause
<1> QED
  BY <1>6, <1>7, <1>8, <1>9, <1>10 DEF IInv

(* recordHistory returns: what it leaves is either all of the batch or     *)
(* nothing, and nothing only for a cause.                                  *)
LEMMA ReturnInv ==
  ASSUME IInv, wpc # "wait", Return,
         \/ table' = table
         \/ table' = table \cup tx /\ tx = ToSet(polled[entities.poll]),
         excused' \in {excused, excused \cup {entities.poll}},
         ToSet(polled[entities.poll]) \subseteq table' \/ entities.poll \in excused'
  PROVE  IInv'
<1>1. /\ wpc' = "wait" /\ pool' = pool \cup {entities.array}
      /\ ended' = ended \cup {entities.poll}
      /\ inserted' = 0 /\ tx' = {} /\ entities' = NoBatch
      /\ UNCHANGED <<content, historyChan, polled, now, lastPoll, pastPoll>>
  BY DEF Return, world
<1>2. /\ entities \in InHand /\ entities.array \in Arrays /\ entities.poll \in Polls
      /\ \A b \in InHand : b.array \in Arrays /\ b.poll \in Polls
      /\ \A b \in InHand : content[b.array] = polled[b.poll]
      /\ \A i \in DOMAIN historyChan : historyChan[i] \in InHand
  BY HandTypes
<1>3. InHand' = ToSet(historyChan) /\ InHand' \subseteq InHand /\ Polls' = Polls
  BY <1>1 DEF InHand, Polls
<1>4. \A b \in InHand' : b.array # entities.array /\ b.poll # entities.poll
  BY <1>3 DEF ToSet, IInv, Owned
<1>5. Types'
  <2>1. NoBatch \in Job
    <3>1. Arrays # {}
      BY ArraysAssumption, BoundsAssumption, FS_EmptySet
    <3>2. (CHOOSE a \in Arrays : TRUE) \in Arrays
      BY <3>1
    <3> QED
      BY <3>2 DEF NoBatch, Job
  <2> QED
    BY <1>1, <1>2, <1>3, <2>1 DEF IInv, Types
<1>6. Written'
  <2>1. table' \cup tx' \subseteq table \cup tx
    BY <1>1
  <2> QED
    BY <1>1, <1>2, <1>3, <2>1 DEF IInv, Written, Key
<1>7. Owned'
  <2>1. \A b \in InHand' : b.array \notin pool'
    BY <1>1, <1>3, <1>4 DEF IInv, Owned
  <2> QED
    BY <1>1, <2>1 DEF IInv, Owned
<1>8. ArraysSuffice'
  <2>1. InUse' \subseteq InUse
    BY <1>1 DEF InUse
  <2>2. IsFiniteSet(InUse) /\ Cardinality(InUse) <= Len(polled) /\ Cardinality(InUse) \in Nat
    BY FS_CardinalityType DEF IInv, ArraysSuffice
  <2>3. /\ IsFiniteSet(InUse') /\ Cardinality(InUse') <= Cardinality(InUse)
        /\ Cardinality(InUse') \in Nat
    BY <2>1, <2>2, FS_Subset, FS_CardinalityType
  <2>4. Len(polled) \in Nat
    BY DEF IInv, Types
  <2> QED
    BY <1>1, <2>2, <2>3, <2>4 DEF ArraysSuffice
<1>9. QueuedIntact'
  <2>1. \A b \in InHand' : content'[b.array] = polled'[b.poll]
    BY <1>1, <1>2, <1>3
  <2> QED
    BY <2>1 DEF QueuedIntact, InHand
<1>10. Recording' /\ Stamped'
  BY <1>1, <1>3 DEF IInv, Recording, Stamped
<1>11. \A row \in ToSet(polled[entities.poll]) : row.poll = entities.poll
  BY <1>2 DEF IInv, Stamped, ToSet
<1>12. Unfinished'
  <2>1. \A b \in InHand' : b.poll \notin ended'
    BY <1>1, <1>3, <1>4 DEF IInv, Unfinished
  <2>2. \A row \in table' : row.poll \in ended' /\ row \in ToSet(polled'[row.poll])
    BY <1>1, <1>11 DEF IInv, Unfinished
  <2> QED
    BY <2>1, <2>2 DEF Unfinished
<1>13. Alone'
  BY <1>1, <1>3 DEF IInv, Alone
<1>14. BatchWhole'
  <2> SUFFICES ASSUME NEW p \in Polls
               PROVE  ToSet(polled[p]) \subseteq table' \/ ToSet(polled[p]) \cap table' = {}
    BY <1>1, <1>3 DEF BatchWhole
  <2>1. ToSet(polled[p]) \subseteq table \/ ToSet(polled[p]) \cap table = {}
    BY DEF IInv, BatchWhole
  <2>2. CASE p = entities.poll
    BY <2>1, <2>2
  <2>3. CASE p # entities.poll
    <3>1. \A row \in ToSet(polled[p]) : row.poll = p
      BY DEF IInv, Stamped, ToSet
    <3> QED
      BY <1>11, <2>1, <2>3, <3>1
  <2> QED
    BY <2>2, <2>3
<1>15. LostOnlyWithCause'
  <2> SUFFICES ASSUME NEW p \in ended' \ excused'
               PROVE  ToSet(polled[p]) \subseteq table'
    BY <1>1 DEF LostOnlyWithCause
  <2>1. CASE p = entities.poll
    BY <2>1
  <2>2. CASE p # entities.poll
    <3>1. p \in ended \ excused
      BY <1>1, <2>2
    <3> QED
      BY <3>1 DEF IInv, LostOnlyWithCause
  <2> QED
    BY <2>1, <2>2
<1> QED
  BY <1>5, <1>6, <1>7, <1>8, <1>9, <1>10, <1>12, <1>13, <1>14, <1>15 DEF IInv

-----------------------------------------------------------------------------
(* A chunk is a stretch of the batch, from inserted on.                    *)
LEMMA ChunkIs ==
  ASSUME IInv, wpc = "insert", inserted < Len(batch)
  PROVE  /\ batch = polled[entities.poll] /\ batch \in Seq(Row) /\ inserted \in Nat
         /\ \E last \in (inserted + 1) .. Len(batch) :
              /\ Len(chunk) = last - inserted /\ DOMAIN chunk = 1 .. (last - inserted)
              /\ \A i \in DOMAIN chunk : inserted + i \in DOMAIN batch /\ chunk[i] = batch[inserted + i]
              /\ ToSet(chunk) = {batch[i] : i \in (inserted + 1) .. last}
<1> DEFINE last == Min({inserted + chunkSize, Len(batch)})
<1>1. entities.array \in Arrays /\ batch = polled[entities.poll]
  BY HandTypes DEF batch
<1>2. batch \in Seq(Row) /\ inserted \in Nat /\ Len(batch) \in Nat /\ DOMAIN batch = 1 .. Len(batch)
  <2>1. batch \in Seq(Row)
    BY <1>1 DEF batch, IInv, Types
  <2>2. Len(batch) \in Nat /\ DOMAIN batch = 1 .. Len(batch)
    BY <2>1
  <2> QED
    BY <2>1, <2>2 DEF IInv, Recording
<1>3. last \in (inserted + 1) .. Len(batch)
  <2>1. chunkSize \in Nat \ {0}
    BY SizesAssumption
  <2>2. \E x \in {inserted + chunkSize, Len(batch)} :
          \A y \in {inserted + chunkSize, Len(batch)} : x <= y
    <3>1. CASE inserted + chunkSize <= Len(batch)
      BY <1>2, <2>1, <3>1
    <3>2. CASE ~(inserted + chunkSize <= Len(batch))
      BY <1>2, <2>1, <3>2
    <3> QED
      BY <3>1, <3>2
  <2>3. last \in {inserted + chunkSize, Len(batch)} /\ last <= Len(batch)
    BY <2>2 DEF Min
  <2>4. inserted + 1 <= inserted + chunkSize /\ inserted + 1 <= Len(batch)
        /\ inserted + chunkSize \in Nat
    BY <1>2, <2>1
  <2> HIDE DEF last
  <2>5. last \in Nat /\ inserted + 1 <= last
    BY <1>2, <2>3, <2>4
  <2>6. last <= Len(batch)
    BY <2>3
  <2>7. Len(batch) \in Int
    BY <1>2
  <2>8. inserted + 1 \in Int
    BY <1>2
  <2> QED
    BY <2>5, <2>6, <2>7, <2>8
<1>4. chunk = SubSeq(batch, inserted + 1, last)
  BY DEF chunk
<1> HIDE DEF last
<1>5. /\ Len(chunk) = last - inserted /\ DOMAIN chunk = 1 .. (last - inserted)
      /\ \A i \in 1 .. (last - inserted) : chunk[i] = batch[inserted + i]
  BY <1>2, <1>3, <1>4
<1>6. \A i \in 1 .. (last - inserted) :
        inserted + i \in DOMAIN batch /\ inserted + i \in (inserted + 1) .. last
  BY <1>2, <1>3
<1>7. \A i \in (inserted + 1) .. last :
        i - inserted \in 1 .. (last - inserted) /\ inserted + (i - inserted) = i
  BY <1>2, <1>3
<1>8. ToSet(chunk) = {batch[i] : i \in (inserted + 1) .. last}
  <2>1. ASSUME NEW x \in ToSet(chunk) PROVE x \in {batch[i] : i \in (inserted + 1) .. last}
    BY <1>5, <1>6 DEF ToSet
  <2>2. ASSUME NEW i \in (inserted + 1) .. last PROVE batch[i] \in ToSet(chunk)
    <3>1. chunk[i - inserted] = batch[i] /\ i - inserted \in DOMAIN chunk
      BY <1>5, <1>7
    <3> QED
      BY <3>1 DEF ToSet
  <2> QED
    BY <2>1, <2>2
<1> QED
  BY <1>1, <1>2, <1>3, <1>5, <1>6, <1>8

(* The key turns away no chunk of a batch that nothing spoilt.             *)
LEMMA NoRepeats ==
  ASSUME IInv, wpc = "insert", inserted < Len(batch), entities.poll \notin excused
  PROVE  ~Repeats
<1>1. /\ batch = polled[entities.poll] /\ batch \in Seq(Row) /\ inserted \in Nat
      /\ \E last \in (inserted + 1) .. Len(batch) :
           /\ Len(chunk) = last - inserted /\ DOMAIN chunk = 1 .. (last - inserted)
           /\ \A i \in DOMAIN chunk : inserted + i \in DOMAIN batch /\ chunk[i] = batch[inserted + i]
  BY ChunkIs
<1>2. PICK last \in (inserted + 1) .. Len(batch) :
           /\ Len(chunk) = last - inserted /\ DOMAIN chunk = 1 .. (last - inserted)
           /\ \A i \in DOMAIN chunk : inserted + i \in DOMAIN batch /\ chunk[i] = batch[inserted + i]
  BY <1>1
<1>3. entities \in InHand /\ entities.poll \in Polls
  BY HandTypes
<1>4. /\ \A i, j \in DOMAIN batch : batch[i].id = batch[j].id => i = j
      /\ \A q \in Polls \ {entities.poll} : \A i \in DOMAIN polled[q], j \in DOMAIN batch :
           polled[q][i].timestamp # batch[j].timestamp
  <2> DEFINE mine == polled[entities.poll]
  <2>1. /\ \A i, j \in DOMAIN mine : mine[i].id = mine[j].id => i = j
        /\ \A q \in Polls \ {entities.poll} : \A i \in DOMAIN polled[q], j \in DOMAIN mine :
             polled[q][i].timestamp # mine[j].timestamp
    BY <1>3 DEF IInv, Alone
  <2>2. mine = batch
    BY <1>1
  <2> HIDE DEF mine
  <2> QED
    BY <2>1, <2>2
<1>5. \A i \in DOMAIN chunk : i \in 1 .. (last - inserted)
  BY <1>2
<1>6. IsInjective([i \in DOMAIN chunk |-> Key(chunk[i])])
  <2> SUFFICES ASSUME NEW i \in DOMAIN chunk, NEW j \in DOMAIN chunk,
                      Key(chunk[i]) = Key(chunk[j])
               PROVE  i = j
    BY DEF IsInjective
  <2>1. batch[inserted + i].id = batch[inserted + j].id
    BY <1>2 DEF Key
  <2>2. inserted + i = inserted + j
    BY <1>2, <1>4, <2>1
  <2>3. i \in Int /\ j \in Int
    BY <1>5
  <2> QED
    BY <1>1, <2>2, <2>3
<1>7. ASSUME NEW row \in ToSet(chunk), NEW other \in table \cup tx PROVE Key(row) # Key(other)
  <2>1. PICK i \in DOMAIN chunk : row = chunk[i]
    BY DEF ToSet
  <2>2. inserted + i \in DOMAIN batch /\ row = batch[inserted + i] /\ i \in Int /\ i >= 1
    BY <1>2, <1>5, <2>1
  <2>3. CASE other \in table
    <3>1. other.poll \in ended /\ other \in ToSet(polled[other.poll]) /\ other.poll # entities.poll
      BY <1>3, <2>3 DEF IInv, Unfinished
    <3>2. other.poll \in Polls
      BY <3>1 DEF IInv, Written
    <3>3. PICK j \in DOMAIN polled[other.poll] : other = polled[other.poll][j]
      BY <3>1 DEF ToSet
    <3>4. other.timestamp # row.timestamp
      BY <1>4, <2>2, <3>1, <3>2, <3>3
    <3> QED
      BY <3>4 DEF Key
  <2>4. CASE other \in tx
    <3>1. PICK j \in 1 .. inserted : other = batch[j]
      BY <2>4 DEF IInv, Recording
    <3>2. Len(batch) \in Nat /\ inserted <= Len(batch) /\ DOMAIN batch = 1 .. Len(batch)
      BY <1>1 DEF IInv, Recording
    <3>3. j \in DOMAIN batch /\ j # inserted + i
      BY <1>1, <2>2, <3>1, <3>2
    <3> QED
      BY <1>4, <2>2, <3>1, <3>3 DEF Key
  <2> QED
    BY <2>3, <2>4
<1> QED
  BY <1>6, <1>7 DEF Repeats

(* One chunk more is written. *)
LEMMA InsertInv ==
  ASSUME IInv, Insert
  PROVE  IInv'
<1>1. /\ wpc = "insert" /\ inserted < Len(batch) /\ ~Repeats
      /\ tx' = tx \cup ToSet(chunk) /\ inserted' = inserted + Len(chunk)
      /\ UNCHANGED <<pool, content, historyChan, wpc, entities, table, polled, ended, excused,
                     now, lastPoll, pastPoll>>
  BY DEF Insert, Refused, arrays, world, account
<1>2. /\ batch \in Seq(Row) /\ inserted \in Nat
      /\ \E last \in (inserted + 1) .. Len(batch) :
           /\ Len(chunk) = last - inserted
           /\ ToSet(chunk) = {batch[i] : i \in (inserted + 1) .. last}
  BY <1>1, ChunkIs
<1>3. PICK last \in (inserted + 1) .. Len(batch) :
           /\ Len(chunk) = last - inserted
           /\ ToSet(chunk) = {batch[i] : i \in (inserted + 1) .. last}
  BY <1>2
<1>4. batch' = batch /\ Polls' = Polls /\ Len(batch) \in Nat /\ DOMAIN batch = 1 .. Len(batch)
  BY <1>1, <1>2 DEF batch, Polls
<1>5. Recording'
  <2>1. inserted' = last /\ last \in 0 .. Len(batch)
    BY <1>1, <1>2, <1>3, <1>4
  <2>2. tx = {batch[i] : i \in 1 .. inserted}
    BY <1>1 DEF IInv, Recording
  <2>3. 1 .. last = (1 .. inserted) \cup ((inserted + 1) .. last)
    BY <1>2, <1>3, <1>4
  <2>4. tx' = {batch[i] : i \in 1 .. last}
    BY <1>1, <1>3, <2>2, <2>3
  <2> QED
    BY <1>1, <1>4, <2>1, <2>4 DEF Recording
<1>6. Written'
  <2>1. ToSet(chunk) \subseteq Row
    <3>1. \A i \in (inserted + 1) .. last : i \in DOMAIN batch
      BY <1>2, <1>3, <1>4
    <3> QED
      BY <1>2, <1>3, <3>1
  <2>2. \A row, other \in ToSet(chunk) : Key(row) = Key(other) => row = other
    <3>1. IsInjective([i \in DOMAIN chunk |-> Key(chunk[i])])
      BY <1>1 DEF Repeats
    <3> QED
      BY <3>1 DEF IsInjective, ToSet
  <2>3. \A row \in ToSet(chunk), other \in table \cup tx : Key(row) # Key(other)
    BY <1>1 DEF Repeats
  <2>4. table' \cup tx' = (table \cup tx) \cup ToSet(chunk)
    BY <1>1
  <2>5. \A row, other \in table' \cup tx' : Key(row) = Key(other) => row = other
    BY <2>2, <2>3, <2>4 DEF IInv, Written
  <2> QED
    BY <1>1, <1>4, <2>1, <2>4, <2>5 DEF IInv, Written, Key
<1>7. now' \in now .. MaxNow
  BY <1>1, BoundsAssumption DEF IInv, Types
<1> QED
  BY <1>1, <1>5, <1>6, <1>7, QuietInv

(* The batch is refused for a cause, fails, or is recorded.                *)
LEMMA EndInv ==
  ASSUME IInv, InsertRefused \/ DatabaseFails \/ Commit \/ Begin
  PROVE  IInv'
<1>1. CASE InsertRefused
  <2>1. /\ wpc = "insert" /\ inserted < Len(batch) /\ Refused /\ Return /\ table' = table
        /\ excused' = IF open # {} THEN excused \cup {entities.poll} ELSE excused
    BY <1>1 DEF InsertRefused, Rollback
  <2>2. entities.poll \in excused'
    BY <2>1, NoRepeats DEF Refused
  <2> QED
    BY <2>1, <2>2, ReturnInv
<1>2. CASE DatabaseFails
  <2>1. /\ wpc # "wait" /\ Return /\ table' = table /\ excused' = excused \cup {entities.poll}
    BY <1>2 DEF DatabaseFails, Rollback
  <2> QED
    BY <2>1, ReturnInv
<1>3. CASE Commit
  <2>1. /\ wpc = "insert" /\ inserted = Len(batch) /\ Return /\ table' = table \cup tx
        /\ excused' = excused
    BY <1>3 DEF Commit
  <2>2. batch = polled[entities.poll] /\ batch \in Seq(Row)
    <3>1. entities.array \in Arrays /\ batch = polled[entities.poll]
      BY <2>1, HandTypes DEF batch
    <3> QED
      BY <3>1 DEF batch, IInv, Types
  <2>3. tx = ToSet(polled[entities.poll])
    <3>1. tx = {batch[i] : i \in 1 .. Len(batch)}
      BY <2>1 DEF IInv, Recording
    <3> QED
      BY <2>2, <3>1 DEF ToSet
  <2> QED
    BY <2>1, <2>3, ReturnInv
<1>4. CASE Begin
  <2>1. CASE batch = <<>>
    <3>1. wpc # "wait" /\ Return /\ table' = table /\ excused' = excused
      BY <1>4, <2>1 DEF Begin
    <3>2. batch = polled[entities.poll]
      BY <3>1, HandTypes DEF batch
    <3>3. ToSet(polled[entities.poll]) = {}
      BY <2>1, <3>2 DEF ToSet
    <3> QED
      BY <3>1, <3>3, ReturnInv
  <2>2. CASE batch # <<>>
    <3>1. /\ wpc = "begin" /\ wpc' = "insert"
          /\ UNCHANGED <<pool, content, historyChan, entities, inserted, tx, table, polled, ended,
                         excused, now, lastPoll, pastPoll>>
      BY <1>4, <2>2 DEF Begin, arrays, world, account
    <3>2. inserted = 0 /\ tx = {} /\ batch' = batch /\ Polls' = Polls
      BY <3>1 DEF IInv, Recording, batch, Polls
    <3>3. Len(batch) \in Nat
      BY <3>1, HandTypes DEF batch, IInv, Types
    <3>4. Recording'
      BY <3>1, <3>2, <3>3 DEF Recording
    <3>5. Written' /\ now' \in now .. MaxNow
      BY <3>1, <3>2, BoundsAssumption DEF IInv, Written, Types, Key
    <3> QED
      BY <3>1, <3>4, <3>5, QuietInv
  <2> QED
    BY <2>1, <2>2
<1> QED
  BY <1>1, <1>2, <1>3, <1>4

-----------------------------------------------------------------------------
(* The process ends, and starts again on the table it left.                *)
LEMMA RestartInv ==
  ASSUME IInv, Restart
  PROVE  IInv'
<1>1. /\ pool' = {} /\ content' = [a \in Arrays |-> <<>>] /\ historyChan' = <<>>
      /\ wpc' = "wait" /\ entities' = NoBatch /\ inserted' = 0 /\ tx' = {}
      /\ pastPoll' = Max({lastPoll, pastPoll}) /\ lastPoll' = -1
      /\ ended' = Polls /\ excused' = excused \cup (Polls \ ended)
      /\ UNCHANGED <<table, now, polled>>
  BY DEF Restart
<1>2. ToSet(historyChan') = {} /\ DOMAIN historyChan' = {} /\ Len(historyChan') = 0
  BY <1>1 DEF ToSet
<1>3. InHand' = {} /\ InUse' = {} /\ Polls' = Polls
  BY <1>1, <1>2 DEF InHand, InUse, Polls
<1>4. /\ now \in 0 .. MaxNow /\ lastPoll \in -1 .. now /\ pastPoll \in -1 .. now
      /\ MaxNow \in Nat
  BY BoundsAssumption DEF IInv, Types
<1>5. pastPoll' \in -1 .. now /\ lastPoll <= pastPoll' /\ pastPoll <= pastPoll'
  <2>1. \E x \in {lastPoll, pastPoll} : \A y \in {lastPoll, pastPoll} : x >= y
    <3>1. lastPoll <= pastPoll \/ pastPoll <= lastPoll
      BY <1>4
    <3> QED
      BY <1>4, <3>1
  <2>2. /\ Max({lastPoll, pastPoll}) \in {lastPoll, pastPoll}
        /\ \A y \in {lastPoll, pastPoll} : Max({lastPoll, pastPoll}) >= y
    BY <2>1 DEF Max
  <2> QED
    BY <1>1, <1>4, <2>2
<1>6. NoBatch \in Job
  <2>1. Arrays # {}
    BY ArraysAssumption, BoundsAssumption, FS_EmptySet
  <2>2. (CHOOSE a \in Arrays : TRUE) \in Arrays
    BY <2>1
  <2> QED
    BY <2>2 DEF NoBatch, Job
<1>7. Types'
  <2>1. content' \in [Arrays -> Seq(Row)] /\ historyChan' \in Seq(Job) /\ pool' \subseteq Arrays
    BY <1>1
  <2>2. /\ now' \in 0 .. MaxNow /\ lastPoll' \in -1 .. now' /\ pastPoll' \in -1 .. now'
        /\ polled' \in Seq(Seq(Row)) /\ Len(polled') <= MaxPolls
    BY <1>1, <1>4, <1>5 DEF IInv, Types
  <2> QED
    BY <1>1, <1>2, <1>6, <2>1, <2>2 DEF Types
<1>8. Written'
  <2>1. table' \cup tx' \subseteq table \cup tx
    BY <1>1
  <2>2. Len(historyChan') <= HistoryCap
    BY <1>2, SizesAssumption
  <2> QED
    BY <1>1, <1>3, <2>1, <2>2 DEF IInv, Written, Key
<1>9. Owned' /\ QueuedIntact' /\ Recording' /\ Alone'
  BY <1>1, <1>2, <1>3 DEF Owned, QueuedIntact, InHand, Recording, Alone
<1>10. ArraysSuffice'
  <2>1. Len(polled) \in Nat
    BY DEF IInv, Types
  <2> QED
    BY <1>1, <1>3, <2>1, FS_EmptySet DEF ArraysSuffice
<1>11. Stamped'
  <2> SUFFICES ASSUME NEW p \in Polls, NEW i \in DOMAIN polled[p]
               PROVE  polled[p][i].poll = p /\ polled[p][i].timestamp <= pastPoll'
    BY <1>1, <1>3 DEF Stamped
  <2>1. polled[p] \in Seq(Row)
    BY DEF IInv, Types, Polls
  <2>2. polled[p][i].timestamp \in Int
    <3>1. polled[p][i] \in Row
      BY <2>1
    <3> QED
      BY <3>1 DEF Row
  <2>3. /\ polled[p][i].poll = p
        /\ polled[p][i].timestamp <= lastPoll \/ polled[p][i].timestamp <= pastPoll
    BY DEF IInv, Stamped
  <2> QED
    BY <1>4, <1>5, <2>2, <2>3
<1>12. Unfinished'
  BY <1>1, <1>3 DEF IInv, Unfinished, Written
<1>13. BatchWhole' /\ LostOnlyWithCause'
  <2>1. BatchWhole'
    BY <1>1, <1>3 DEF IInv, BatchWhole
  <2>2. \A p \in ended' \ excused' : p \in ended \ excused
    BY <1>1
  <2> QED
    BY <1>1, <2>1, <2>2 DEF IInv, LostOnlyWithCause
<1> QED
  BY <1>7, <1>8, <1>9, <1>10, <1>11, <1>12, <1>13 DEF IInv

(* At the start there is nothing to be wrong. *)
LEMMA InitInv == Init => IInv
<1> SUFFICES ASSUME Init PROVE IInv
  OBVIOUS
<1>1. ToSet(historyChan) = {} /\ DOMAIN historyChan = {} /\ Len(historyChan) = 0
  BY DEF Init, ToSet
<1>2. InHand = {} /\ InUse = {} /\ Polls = {} /\ Len(polled) = 0
  BY <1>1 DEF Init, InHand, InUse, Polls
<1>3. NoBatch \in Job
  <2>1. Arrays # {}
    BY ArraysAssumption, BoundsAssumption, FS_EmptySet
  <2>2. (CHOOSE a \in Arrays : TRUE) \in Arrays
    BY <2>1
  <2> QED
    BY <2>2 DEF NoBatch, Job
<1>4. Types
  <2>1. content \in [Arrays -> Seq(Row)] /\ historyChan \in Seq(Job) /\ polled \in Seq(Seq(Row))
    BY DEF Init
  <2> QED
    BY <1>1, <1>2, <1>3, <2>1, BoundsAssumption DEF Init, Types
<1>5. Written /\ Owned /\ QueuedIntact /\ Recording
  BY <1>1, <1>2, SizesAssumption DEF Init, Written, Owned, QueuedIntact, InHand, Recording
<1>6. ArraysSuffice
  BY <1>2, FS_EmptySet DEF ArraysSuffice
<1>7. Stamped /\ Unfinished /\ Alone /\ BatchWhole /\ LostOnlyWithCause
  BY <1>2 DEF Init, Stamped, Unfinished, Alone, BatchWhole, LostOnlyWithCause
<1> QED
  BY <1>4, <1>5, <1>6, <1>7 DEF IInv

(* Every step keeps the invariant. *)
LEMMA NextInv == IInv /\ [Next]_vars => IInv'
<1> SUFFICES ASSUME IInv, [Next]_vars PROVE IInv'
  OBVIOUS
<1>1. CASE \E b \in Batches, a \in Arrays : Apply(b, a)
  BY <1>1, ApplyInv
<1>2. CASE Worker \/ DatabaseFails
  BY <1>2, TakeInv, InsertInv, EndInv DEF Worker
<1>3. CASE \/ \E r \in Readers : CloseRows(r) \/ QueryHistory(r)
           \/ Tick \/ UNCHANGED vars
  <2>1. /\ UNCHANGED <<pool, content, historyChan, wpc, entities, inserted, tx, table, polled,
                       ended, excused, lastPoll, pastPoll>>
        /\ now' = now \/ (now < MaxNow /\ now' = now + 1)
    BY <1>3 DEF CloseRows, QueryHistory, Tick, vars, arrays, worker, world, account
  <2>2. now' \in now .. MaxNow /\ wpc' \in {"wait", "begin", "insert"}
    BY <2>1, BoundsAssumption DEF IInv, Types
  <2>3. Recording' /\ Written'
    <3>1. batch' = batch /\ Polls' = Polls
      BY <2>1 DEF batch, Polls
    <3> QED
      BY <2>1, <3>1 DEF IInv, Recording, Written, Key
  <2> QED
    BY <2>1, <2>2, <2>3, QuietInv
<1>4. CASE Restart
  BY <1>4, RestartInv
<1> QED
  BY <1>1, <1>2, <1>3, <1>4 DEF Next

(* The history always satisfies the inductive invariant.                   *)
THEOREM HistoryInvariant == Spec => []IInv
<1> QED
  BY InitInv, NextInv, PTL DEF Spec

(* TypeOK: among other things, a key is in the table at most once (store.go*)
(* 85-91, 112-179).                                                        *)
THEOREM Typing == Spec => []TypeOK
<1> QED
  BY TypesHold, HistoryInvariant, PTL

(* BatchWhole: a batch is recorded as a whole or not at all, wherever its  *)
(* chunks fail and whenever the process ends (store.go 124-172).           *)
THEOREM RecordedWhole == Spec => []BatchWhole
<1>1. IInv => BatchWhole
  BY DEF IInv
<1> QED
  BY <1>1, HistoryInvariant, PTL

(* QueuedIntact: no later poll overwrites an array that is still queued or *)
(* being recorded (store.go 115, 223-236).                                 *)
THEOREM QueueIsIntact == Spec => []QueuedIntact
<1>1. IInv => QueuedIntact
  BY DEF IInv
<1> QED
  BY <1>1, HistoryInvariant, PTL

(* LostOnlyWithCause: a batch is missing from the history only for a cause *)
(* (store.go 165-169).                                                     *)
THEOREM NothingLostWithoutCause == Spec => []LostOnlyWithCause
<1>1. IInv => LostOnlyWithCause
  BY DEF IInv
<1> QED
  BY <1>1, HistoryInvariant, PTL
=============================================================================
