---------------------------- MODULE SeederProofs ----------------------------
(***************************************************************************)
(* Proofs about Seeder.tla, for every set of entities, of token lifetimes  *)
(* and of Retry-After values, however polls fail and however long they     *)
(* take.                                                                   *)
(*                                                                         *)
(* None of the properties is inductive: each speaks of the moment a        *)
(* request goes out.  Their parts of the invariant say what the waiting    *)
(* that comes before it will have made up for: Pausing what is left of a   *)
(* pause, Spacing of an interval, Ageing how long ago an entity was        *)
(* reported, and Lasting how far the client's clock is behind the token.   *)
(***************************************************************************)
EXTENDS Seeder, TLAPS

(* The types of what TypeOK leaves open. *)
TypesToo ==
  /\ updateAge \in 0 .. Interval
  /\ reportAge \in [EntityIDs -> 0 .. 2 * Interval]
  /\ misses \in [EntityIDs -> {0, 1}]

Polling == pc \in {"fetch", "grant", "request"}

(* The delay waited out covers what is left of a pause. *)
Pausing == (Polling => hold = 0) /\ (pc = "wait" => hold <= delay)

(* The delay after an update is an interval or more. *)
Spacing ==
  /\ Polling => updateAge = Interval
  /\ pc = "wait" => updateAge = Interval \/ delay >= Interval

(* The server gives up a token one slow request before the client does.    *)
Lasting == tokenExpiry <= life + Timeout

(* Every update an entity has missed adds an interval to its age. *)
Ageing ==
  \A id \in live : reportAge[id] >= updateAge + (IF misses[id] = 0 THEN 0 ELSE Interval)

IInv == TypeOK /\ TypesToo /\ Pausing /\ Spacing /\ Lasting /\ Ageing

-----------------------------------------------------------------------------
(* The smaller of two numbers ... *)
LEMMA LeastIs ==
  ASSUME NEW a \in Int, NEW b \in Int
  PROVE  Least(a, b) = IF a <= b THEN a ELSE b
<1>1. CASE a <= b
  <2>1. \E x \in {a, b} : \A y \in {a, b} : x <= y
    BY <1>1
  <2> QED
    BY <1>1, <2>1 DEF Least, Min
<1>2. CASE ~(a <= b)
  <2>1. \E x \in {a, b} : \A y \in {a, b} : x <= y
    BY <1>2
  <2> QED
    BY <1>2, <2>1 DEF Least, Min
<1> QED
  BY <1>1, <1>2

(* ... and what is left of a time. *)
LEMMA LeftIs ==
  ASSUME NEW t \in Nat, NEW d \in Nat
  PROVE  Left(t, d) = IF t <= d THEN 0 ELSE t - d
<1>1. \E x \in {t - d, 0} : \A y \in {t - d, 0} : x >= y
  OBVIOUS
<1> QED
  BY <1>1 DEF Left, Max

(* The interval between polls. *)
LEMMA Intervals == Interval \in {25000, 60000}
BY DEF Interval

(* A plain error grows the delay between its bounds, and leaves a delay    *)
(* above them alone.                                                       *)
LEMMA IncreasedIs ==
  ASSUME NEW t \in Nat
  PROVE  /\ Increased(t) \in Nat /\ Increased(t) >= t
         /\ t <= MaxDelay => Increased(t) <= MaxDelay
<1>1. CASE t < MaxDelay
  <2>1. (t * 3) \div 2 \in Nat /\ (t * 3) \div 2 >= t
    OBVIOUS
  <2>2. Increased(t) = IF (t * 3) \div 2 <= MaxDelay THEN (t * 3) \div 2 ELSE MaxDelay
    BY <1>1, <2>1, LeastIs DEF Increased, MaxDelay
  <2> QED
    BY <1>1, <2>1, <2>2 DEF MaxDelay
<1>2. CASE ~(t < MaxDelay)
  BY <1>2 DEF Increased
<1> QED
  BY <1>1, <1>2

(* Time passes for every clock alike. *)
LEMMA PassIs ==
  ASSUME TypeOK, TypesToo, NEW d \in Nat, Pass(d)
  PROVE  /\ tokenExpiry' = IF tokenExpiry <= d THEN 0 ELSE tokenExpiry - d
         /\ life' = IF life <= d THEN 0 ELSE life - d
         /\ hold' = IF hold <= d THEN 0 ELSE hold - d
         /\ updateAge' = IF updateAge + d <= Interval THEN updateAge + d ELSE Interval
         /\ reportAge' = [id \in EntityIDs |-> IF reportAge[id] + d <= 2 * Interval
                                                 THEN reportAge[id] + d ELSE 2 * Interval]
<1>0. /\ tokenExpiry \in Nat /\ life \in Nat /\ hold \in Nat
      /\ updateAge + d \in Int /\ Interval \in Int /\ 2 * Interval \in Int
      /\ \A id \in EntityIDs : reportAge[id] + d \in Int
  BY Intervals DEF TypeOK, TypesToo
<1>1. /\ tokenExpiry' = Left(tokenExpiry, d) /\ life' = Left(life, d) /\ hold' = Left(hold, d)
      /\ updateAge' = Least(updateAge + d, Interval)
      /\ reportAge' = [id \in EntityIDs |-> Least(reportAge[id] + d, 2 * Interval)]
  BY DEF Pass
<1>2. \A id \in EntityIDs :
        Least(reportAge[id] + d, 2 * Interval) =
          IF reportAge[id] + d <= 2 * Interval THEN reportAge[id] + d ELSE 2 * Interval
  BY <1>0, LeastIs
<1>3. reportAge' = [id \in EntityIDs |-> IF reportAge[id] + d <= 2 * Interval
                                           THEN reportAge[id] + d ELSE 2 * Interval]
  BY <1>1, <1>2
<1> QED
  BY <1>0, <1>1, <1>3, LeastIs, LeftIs

(* What passing time keeps, whatever else a step does to the delay and the *)
(* program counter.                                                        *)
LEMMA PassKeeps ==
  ASSUME IInv, NEW d \in Nat, Pass(d), UNCHANGED <<authenticated, store>>
  PROVE  /\ TypesToo' /\ Lasting' /\ Ageing'
         /\ \E most \in TokenLives \cup {0} : tokenExpiry' \in 0 .. most
         /\ life' \in 0 .. tokenExpiry'
         /\ \E most \in RetryAfters \cup {0} : hold' \in 0 .. most
<1>0. /\ TypeOK /\ TypesToo /\ Interval \in {25000, 60000} /\ Interval' = Interval
      /\ tokenExpiry \in Nat /\ life \in Nat /\ hold \in Nat
  BY Intervals DEF IInv, Interval, TypeOK
<1>1. /\ tokenExpiry' = IF tokenExpiry <= d THEN 0 ELSE tokenExpiry - d
      /\ life' = IF life <= d THEN 0 ELSE life - d
      /\ hold' = IF hold <= d THEN 0 ELSE hold - d
      /\ updateAge' = IF updateAge + d <= Interval THEN updateAge + d ELSE Interval
      /\ reportAge' = [id \in EntityIDs |-> IF reportAge[id] + d <= 2 * Interval
                                              THEN reportAge[id] + d ELSE 2 * Interval]
  BY <1>0, PassIs
<1>2. TypesToo'
  BY <1>0, <1>1 DEF TypesToo, store
<1>3. Lasting'
  BY <1>0, <1>1 DEF IInv, Lasting, Timeout
<1>4. Ageing'
  <2> SUFFICES ASSUME NEW id \in live
               PROVE  reportAge'[id] >= updateAge' + (IF misses[id] = 0 THEN 0 ELSE Interval)
    BY <1>0 DEF Ageing, store
  <2>1. /\ id \in EntityIDs /\ reportAge[id] \in Nat /\ updateAge \in Nat
        /\ reportAge[id] >= updateAge + (IF misses[id] = 0 THEN 0 ELSE Interval)
    BY <1>0 DEF IInv, TypeOK, TypesToo, Ageing
  <2>2. reportAge'[id] = IF reportAge[id] + d <= 2 * Interval
                           THEN reportAge[id] + d ELSE 2 * Interval
    BY <1>1, <2>1
  <2> QED
    BY <1>0, <1>1, <2>1, <2>2
<1>5. /\ \E most \in TokenLives \cup {0} : tokenExpiry' \in 0 .. most
      /\ \E most \in RetryAfters \cup {0} : hold' \in 0 .. most
  <2>1. PICK most \in TokenLives \cup {0} : tokenExpiry \in 0 .. most
    BY <1>0 DEF TypeOK
  <2>2. PICK longest \in RetryAfters \cup {0} : hold \in 0 .. longest
    BY <1>0 DEF TypeOK
  <2>3. most \in Int /\ longest \in Int
    BY TokenLivesAssumption, RetryAftersAssumption
  <2>4. tokenExpiry' \in 0 .. most /\ hold' \in 0 .. longest
    BY <1>0, <1>1, <2>1, <2>2, <2>3
  <2> QED
    BY <2>4
<1>6. life' \in 0 .. tokenExpiry'
  BY <1>0, <1>1 DEF TypeOK
<1> QED
  BY <1>2, <1>3, <1>4, <1>5, <1>6

-----------------------------------------------------------------------------
(* Initially nothing is owed: the interval counts as over. *)
LEMMA InitInv == Init => IInv
<1> SUFFICES ASSUME Init PROVE IInv
  OBVIOUS
<1>1. TypeOK
  <2>1. tokenExpiry \in 0 .. 0 /\ hold \in 0 .. 0 /\ life \in 0 .. tokenExpiry
    BY DEF Init
  <2>2. delay \in Nat /\ delay \in Interval .. MaxDelay /\ live = {}
    BY Intervals DEF Init, MaxDelay, Store!Init
  <2>3. /\ \E most \in TokenLives \cup {0} : tokenExpiry \in 0 .. most
        /\ \E most \in RetryAfters \cup {0} : hold \in 0 .. most
    BY <2>1
  <2> QED
    BY <2>1, <2>2, <2>3 DEF Init, TypeOK
<1>2. TypesToo /\ Pausing /\ Spacing /\ Lasting /\ Ageing
  BY Intervals DEF Init, TypesToo, Pausing, Polling, Spacing, Lasting, Ageing, Timeout, Store!Init
<1> QED
  BY <1>1, <1>2 DEF IInv

(* A step in which no time passes and no update comes has the delay, the   *)
(* pause and the program counter to account for.                           *)
LEMMA Timeless ==
  ASSUME IInv, UNCHANGED <<authenticated, store, ages, tokenExpiry, life>>
  PROVE  TypesToo' /\ Lasting' /\ Ageing' /\ Interval' = Interval
BY DEF IInv, TypesToo, Lasting, Ageing, Interval, store, ages

(* Run's delay after a plain error. *)
LEMMA FailedDelay ==
  ASSUME IInv, Failed, UNCHANGED <<authenticated, asked>>
  PROVE  /\ pc' = "wait" /\ delay' \in Nat /\ delay' >= delay
         /\ ~asked' => delay' \in Interval' .. MaxDelay
<1>1. delay \in Nat /\ Interval' = Interval /\ Interval \in Nat /\ MaxDelay \in Nat
  BY Intervals DEF IInv, TypeOK, Interval, MaxDelay
<1>2. pc' = "wait" /\ delay' = Increased(delay)
  BY DEF Failed
<1>3. delay' \in Nat /\ delay' >= delay /\ (delay <= MaxDelay => delay' <= MaxDelay)
  BY <1>1, <1>2, IncreasedIs
<1> QED
  BY <1>1, <1>2, <1>3 DEF IInv, TypeOK

(* Fetch makes its first request, or fails because it was cancelled. *)
LEMMA BeginFetchInv ==
  ASSUME IInv, BeginFetch, UNCHANGED authenticated
  PROVE  IInv'
<1>1. /\ pc = "fetch" /\ UNCHANGED <<slow, tokenExpiry, cancelled, store, life, hold, asked, ages>>
  BY DEF BeginFetch
<1>2. TypesToo' /\ Lasting' /\ Ageing' /\ Interval' = Interval
  BY <1>1, Timeless
<1>3. \/ pc' \in {"grant", "request"} /\ delay' = delay
      \/ Failed
  BY DEF BeginFetch, Do
<1>4. hold = 0 /\ updateAge = Interval /\ ~slow /\ TypeOK
  BY <1>1 DEF IInv, Pausing, Spacing, Polling, TypeOK
<1>5. CASE Failed
  BY <1>1, <1>2, <1>4, <1>5, FailedDelay DEF IInv, TypeOK, Pausing, Spacing, Polling, store, ages
<1>6. CASE pc' \in {"grant", "request"} /\ delay' = delay
  BY <1>1, <1>2, <1>4, <1>6 DEF IInv, TypeOK, Pausing, Spacing, Polling, store, ages
<1> QED
  BY <1>3, <1>5, <1>6

(* A request that takes its time lets a pause and an interval that are     *)
(* over be over.                                                           *)
LEMMA SlowInv ==
  ASSUME IInv, Slow, UNCHANGED authenticated
  PROVE  IInv'
<1>1. /\ pc \in {"grant", "request"} /\ slow' = TRUE /\ Pass(Timeout)
      /\ UNCHANGED <<pc, delay, cancelled, store, asked>>
  BY DEF Slow
<1>2. Timeout \in Nat /\ Interval' = Interval /\ Interval \in Nat
  BY Intervals DEF Timeout, Interval
<1>3. /\ TypesToo' /\ Lasting' /\ Ageing'
      /\ \E most \in TokenLives \cup {0} : tokenExpiry' \in 0 .. most
      /\ life' \in 0 .. tokenExpiry'
      /\ \E most \in RetryAfters \cup {0} : hold' \in 0 .. most
  BY <1>1, <1>2, PassKeeps
<1>4. TypeOK'
  BY <1>1, <1>2, <1>3 DEF IInv, TypeOK, store
<1>5. hold' = 0 /\ updateAge' = Interval'
  <2>1. hold = 0 /\ updateAge = Interval
    BY <1>1 DEF IInv, Pausing, Spacing, Polling
  <2>2. /\ hold' = IF hold <= Timeout THEN 0 ELSE hold - Timeout
        /\ updateAge' = IF updateAge + Timeout <= Interval THEN updateAge + Timeout ELSE Interval
    BY <1>1, <1>2, PassIs DEF IInv
  <2> QED
    BY <1>2, <2>1, <2>2 DEF Timeout
<1>6. Pausing' /\ Spacing'
  BY <1>1, <1>5 DEF Pausing, Spacing, Polling
<1> QED
  BY <1>3, <1>4, <1>6 DEF IInv

(* A new token: the client counts its life from now, the server from the   *)
(* moment it was asked.                                                    *)
LEMMA GrantedInv ==
  ASSUME IInv, NEW lasting \in TokenLives, Granted(lasting), UNCHANGED authenticated
  PROVE  IInv'
<1>0. lasting \in Int /\ lasting >= 20000
  BY TokenLivesAssumption DEF Timeout
<1>1. /\ pc = "grant" /\ slow' = FALSE /\ tokenExpiry' = lasting
      /\ life' = IF slow THEN lasting - 10000 ELSE lasting
      /\ UNCHANGED <<cancelled, store, hold, asked, ages>>
      /\ (pc' = "request" /\ delay' = delay) \/ Failed
  BY DEF Granted, Do, Timeout
<1>2. hold = 0 /\ updateAge = Interval /\ Interval' = Interval /\ TypeOK
  BY <1>1 DEF IInv, Pausing, Spacing, Polling, Interval
<1>3. TypesToo' /\ Ageing'
  BY <1>1, <1>2 DEF IInv, TypesToo, Ageing, store, ages
<1>4. /\ Lasting' /\ tokenExpiry' \in 0 .. lasting /\ life' \in 0 .. tokenExpiry'
      /\ life' >= Timeout
  BY <1>0, <1>1 DEF Lasting, Timeout
<1>5. CASE pc' = "request" /\ delay' = delay
  BY <1>1, <1>2, <1>3, <1>4, <1>5 DEF IInv, TypeOK, Pausing, Spacing, Polling, store, ages
<1>6. CASE Failed
  BY <1>1, <1>2, <1>3, <1>4, <1>6, FailedDelay
     DEF IInv, TypeOK, Pausing, Spacing, Polling, store, ages
<1> QED
  BY <1>1, <1>5, <1>6

(* A plain error. *)
LEMMA FailsInv ==
  ASSUME IInv, Fails, UNCHANGED authenticated
  PROVE  IInv'
<1>1. /\ pc \in {"grant", "request"} /\ Failed /\ slow' = FALSE
      /\ UNCHANGED <<tokenExpiry, cancelled, store, life, hold, asked, ages>>
  BY DEF Fails
<1>2. TypesToo' /\ Lasting' /\ Ageing' /\ Interval' = Interval
  BY <1>1, Timeless
<1>3. hold = 0 /\ updateAge = Interval /\ TypeOK
  BY <1>1 DEF IInv, Pausing, Spacing, Polling
<1> QED
  BY <1>1, <1>2, <1>3, FailedDelay DEF IInv, TypeOK, Pausing, Spacing, Polling, store, ages

(* A rate limit: the delay is at least the pause that was asked for. *)
LEMMA RateLimitedInv ==
  ASSUME IInv, UNCHANGED authenticated, NEW retryAfter, NEW pause, RateLimited(retryAfter, pause)
  PROVE  IInv'
<1>1. /\ pc = "request" /\ pc' = "wait" /\ slow' = FALSE /\ delay' = retryAfter
      /\ hold' = pause /\ asked' = TRUE
      /\ UNCHANGED <<tokenExpiry, cancelled, store, life, ages>>
  BY DEF RateLimited, DelayObeyed
<1>2. TypesToo' /\ Lasting' /\ Ageing' /\ Interval' = Interval
  BY <1>1, Timeless
<1>3. retryAfter \in Nat /\ pause \in RetryAfters \cup {0} /\ pause <= retryAfter /\ pause \in Nat
  <2>1. CASE retryAfter \in RetryAfters /\ pause = retryAfter
    BY <2>1, RetryAftersAssumption
  <2>2. CASE retryAfter \in {DefaultRetryAfter, ServerErrorRetryAfter} /\ pause = 0
    BY <2>2 DEF DefaultRetryAfter, ServerErrorRetryAfter
  <2> QED
    BY <2>1, <2>2 DEF RateLimited
<1>4. updateAge = Interval /\ TypeOK
  BY <1>1 DEF IInv, Spacing, Polling
<1>5. \E most \in RetryAfters \cup {0} : pause \in 0 .. most
  BY <1>3
<1>6. TypeOK'
  BY <1>1, <1>2, <1>3, <1>4, <1>5 DEF TypeOK, store
<1>7. Pausing' /\ Spacing'
  BY <1>1, <1>2, <1>3, <1>4 DEF Pausing, Spacing, Polling, ages
<1> QED
  BY <1>2, <1>6, <1>7 DEF IInv

(* An update: each entity it misses was reported an interval ago, or two.  *)
LEMMA SucceedsInv ==
  ASSUME IInv, UNCHANGED authenticated, NEW seen \in SUBSET EntityIDs, Succeeds(seen)
  PROVE  /\ IInv'
         /\ \A id \in live \ live' : reportAge[id] >= 2 * Interval
<1>1. /\ pc = "request" /\ pc' = "wait" /\ slow' = FALSE /\ delay' = Interval
      /\ live' = seen \cup {id \in live : misses[id] = 0}
      /\ misses' = [id \in EntityIDs |-> IF id \in live' \ seen THEN 1 ELSE 0]
      /\ asked' = FALSE /\ updateAge' = 0
      /\ reportAge' = [id \in EntityIDs |-> IF id \in seen THEN 0 ELSE reportAge[id]]
      /\ UNCHANGED <<tokenExpiry, cancelled, life, hold>>
  BY DEF Succeeds, DelayReset, Store!Poll
<1>2. /\ updateAge = Interval /\ hold = 0 /\ Interval' = Interval /\ Interval \in {25000, 60000}
      /\ TypeOK /\ TypesToo
  BY <1>1, Intervals DEF IInv, Spacing, Pausing, Polling, Interval
<1>3. \A id \in live :
        /\ reportAge[id] >= Interval
        /\ misses[id] # 0 => reportAge[id] >= 2 * Interval
  BY <1>2 DEF IInv, Ageing, TypeOK, TypesToo
<1>4. TypeOK'
  BY <1>1, <1>2 DEF TypeOK, MaxDelay
<1>5. TypesToo'
  BY <1>1, <1>2 DEF TypesToo
<1>6. Pausing' /\ Spacing' /\ Lasting'
  BY <1>1, <1>2 DEF IInv, Pausing, Spacing, Polling, Lasting
<1>7. Ageing'
  <2> SUFFICES ASSUME NEW id \in live'
               PROVE  reportAge'[id] >= (IF misses'[id] = 0 THEN 0 ELSE Interval)
    BY <1>1, <1>2 DEF Ageing
  <2>1. id \in EntityIDs
    BY <1>1, <1>2 DEF TypeOK
  <2>2. CASE id \in seen
    BY <1>1, <2>1, <2>2
  <2>3. CASE id \notin seen
    <3>1. misses'[id] = 1 /\ reportAge'[id] = reportAge[id] /\ id \in live
      BY <1>1, <2>1, <2>3
    <3>2. reportAge[id] >= Interval
      BY <1>3, <3>1
    <3>3. (IF misses'[id] = 0 THEN 0 ELSE Interval) = Interval
      BY <3>1
    <3> QED
      BY <3>1, <3>2, <3>3
  <2> QED
    BY <2>2, <2>3
<1>8. \A id \in live \ live' : misses[id] # 0
  BY <1>1
<1>9. IInv'
  BY <1>4, <1>5, <1>6, <1>7 DEF IInv
<1> QED
  BY <1>3, <1>8, <1>9

(* The wait is over: the delay makes up for a pause or an interval. *)
LEMMA WaitOverInv ==
  ASSUME IInv, WaitOver, UNCHANGED authenticated
  PROVE  IInv'
<1>1. /\ pc = "wait" /\ pc' = "fetch" /\ Pass(delay) /\ delay \in Nat
      /\ UNCHANGED <<slow, delay, cancelled, store, asked>>
  BY DEF WaitOver, IInv, TypeOK
<1>2. /\ TypesToo' /\ Lasting' /\ Ageing'
      /\ \E most \in TokenLives \cup {0} : tokenExpiry' \in 0 .. most
      /\ life' \in 0 .. tokenExpiry'
      /\ \E most \in RetryAfters \cup {0} : hold' \in 0 .. most
  BY <1>1, PassKeeps
<1>3. Interval' = Interval /\ Interval \in Nat /\ updateAge \in 0 .. Interval /\ hold \in Nat
  BY Intervals DEF Interval, IInv, TypeOK, TypesToo
<1>4. TypeOK'
  BY <1>1, <1>2, <1>3 DEF IInv, TypeOK, store
<1>5. hold' = 0 /\ updateAge' = Interval'
  <2>1. hold <= delay /\ (updateAge = Interval \/ delay >= Interval)
    BY <1>1 DEF IInv, Pausing, Spacing
  <2>2. /\ hold' = IF hold <= delay THEN 0 ELSE hold - delay
        /\ updateAge' = IF updateAge + delay <= Interval THEN updateAge + delay ELSE Interval
    BY <1>1, PassIs DEF IInv
  <2> QED
    BY <1>1, <1>3, <2>1, <2>2
<1>6. Pausing' /\ Spacing'
  BY <1>1, <1>5 DEF Pausing, Spacing, Polling
<1> QED
  BY <1>2, <1>4, <1>6 DEF IInv

(* The two steps that end Run. *)
LEMMA EndInv ==
  ASSUME IInv, Stop \/ Cancel, UNCHANGED authenticated
  PROVE  IInv'
<1>1. /\ pc' = pc \/ (pc = "wait" /\ pc' = "stopped")
      /\ cancelled' \in BOOLEAN
      /\ UNCHANGED <<slow, delay, tokenExpiry, store, life, hold, asked, ages>>
  BY DEF Stop, Cancel, IInv, TypeOK
<1>2. TypesToo' /\ Lasting' /\ Ageing' /\ Interval' = Interval
  BY <1>1, Timeless
<1>3. TypeOK'
  BY <1>1, <1>2 DEF IInv, TypeOK, store
<1>4. Pausing' /\ Spacing'
  BY <1>1, <1>2 DEF IInv, Pausing, Spacing, Polling, ages
<1> QED
  BY <1>2, <1>3, <1>4 DEF IInv

(* No step breaks the invariant. *)
LEMMA NextInv ==
  ASSUME IInv, [Next]_vars
  PROVE  IInv'
<1>1. CASE UNCHANGED vars
  BY <1>1 DEF vars, store, ages, IInv, TypeOK, TypesToo, Pausing, Polling, Spacing, Lasting, Ageing,
     Interval
<1>2. CASE Next
  <2>1. UNCHANGED authenticated
    BY <1>2 DEF Next
  <2>2. CASE Answer
    BY <2>1, <2>2, FailsInv, GrantedInv, RateLimitedInv, SucceedsInv DEF Answer
  <2> QED
    BY <1>2, <2>1, <2>2, BeginFetchInv, WaitOverInv, SlowInv, EndInv DEF Next, Run
<1> QED
  BY <1>1, <1>2

-----------------------------------------------------------------------------
(* The inductive invariant holds in every reachable state. *)
THEOREM SeederInvariant == Spec => []IInv
  BY InitInv, NextInv, PTL DEF Spec

(* The delay stays between the interval and maxDelay unless a rate limit   *)
(* has set it, however errors, rate limits and updates alternate           *)
(* (seeder.go 45-68).                                                      *)
THEOREM Typing == Spec => []TypeOK
<1>1. IInv => TypeOK
  BY DEF IInv
<1> QED
  BY <1>1, SeederInvariant, PTL

(* Updates are an interval apart or more, also when an outage ends         *)
(* (seeder.go 68-72).                                                      *)
THEOREM Spaced == Spec => []UpdatesSpaced
<1>1. IInv => UpdatesSpaced
  BY DEF IInv, Spacing, Polling, UpdatesSpaced
<1> QED
  BY <1>1, SeederInvariant, PTL

(* No data request falls into a pause the API has asked for (opensky.go    *)
(* 155-168, seeder.go 47-63).                                              *)
THEOREM PausesKept == Spec => PauseKept
<1>1. ASSUME IInv, [Next]_vars, pc # "request", pc' = "request"
      PROVE  hold = 0
  <2>1. Polling
    BY <1>1 DEF Next, Run, BeginFetch, Answer, Fails, Failed, Granted, RateLimited, Succeeds, WaitOver,
       Stop, Slow, Cancel, vars, Polling
  <2> QED
    BY <1>1, <2>1 DEF IInv, Pausing
<1> QED
  BY <1>1, SeederInvariant, PTL DEF Spec, PauseKept

(* A request's token is good for as long as the request may take           *)
(* (opensky.go 75, 110).                                                   *)
THEOREM TokenIsGood == Spec => TokenOutlivesRequest
<1>1. ASSUME IInv, [Next]_vars, pc # "request", pc' = "request", authenticated
      PROVE  life' >= Timeout
  <2>0. tokenExpiry \in Nat /\ life \in Nat /\ tokenExpiry <= life + 10000
    BY <1>1 DEF IInv, TypeOK, Lasting, Timeout
  <2>1. CASE BeginFetch
    <3>1. tokenExpiry > 60000 /\ life' = life
      BY <1>1, <2>1 DEF BeginFetch, Do, Failed, Reusable, Margin
    <3> QED
      BY <2>0, <3>1 DEF Timeout
  <2>2. ASSUME NEW lasting \in TokenLives, Granted(lasting)
        PROVE  life' >= Timeout
    <3>1. lasting \in Int /\ lasting >= 20000
      BY TokenLivesAssumption DEF Timeout
    <3> QED
      BY <2>2, <3>1 DEF Granted, Timeout
  <2> QED
    BY <1>1, <2>1, <2>2 DEF Next, Run, Answer, Fails, Failed, RateLimited, Succeeds, WaitOver, Stop,
       Slow, Cancel, vars
<1> QED
  BY <1>1, SeederInvariant, PTL DEF Spec, TokenOutlivesRequest

(* Two missed polls that evict an entity are two intervals, however many   *)
(* polls fail in between (seeder.go 45-65, store.go 210-217).              *)
THEOREM EvictedOnlyLate == Spec => EvictedLate
<1>1. ASSUME IInv, [Next]_vars
      PROVE  \A id \in live \ live' : reportAge[id] >= 2 * Interval
  <2>1. CASE \E seen \in SUBSET EntityIDs : Succeeds(seen) /\ UNCHANGED authenticated
    BY <1>1, <2>1, SucceedsInv
  <2>2. CASE UNCHANGED live
    BY <2>2
  <2> QED
    BY <1>1, <2>1, <2>2 DEF Next, Run, BeginFetch, Answer, Fails, Granted, RateLimited, WaitOver, Stop,
       Slow, Cancel, vars, store
<1> QED
  BY <1>1, SeederInvariant, PTL DEF Spec, EvictedLate
=============================================================================
