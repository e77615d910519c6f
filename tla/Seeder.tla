------------------------------- MODULE Seeder -------------------------------
(***************************************************************************)
(* seeder/seeder.go Run with seeder/opensky.go Fetch: one goroutine that   *)
(* polls the OpenSky API, backs off when a poll fails, and hands what a    *)
(* successful poll returns to the entity store, of which StaleEviction     *)
(* (which Store.tla implements) is the part that matters here.             *)
(*                                                                         *)
(* Time is in milliseconds and passes while a request is out (nothing or   *)
(* the client's timeout) and while Run waits.  Times to come are kept as   *)
(* what is left of them, times past as ages, both cut off where nothing    *)
(* depends on them any more.                                               *)
(***************************************************************************)
EXTENDS Integers, FiniteSetsExt

CONSTANTS
  EntityIDs,
  TokenLives,      \* lifetimes of the tokens the server grants
  RetryAfters      \* values of the Retry-After header

MaxDelay == 60000
Timeout == 10000
Margin == 60000
DefaultRetryAfter == 10000
ServerErrorRetryAfter == 30000

ASSUME TokenLivesAssumption == \A life \in TokenLives : life \in Int /\ life >= 2 * Timeout
ASSUME RetryAftersAssumption == RetryAfters \subseteq Nat

VARIABLES
  pc,           \* "fetch", "grant", "request", "wait", "stopped"
  authenticated, \* both credentials are set
  slow,         \* the request that is out has been out for Timeout
  delay,
  tokenExpiry,  \* what is left of the token by the client's clock
  cancelled,    \* main has cancelled the context
  live, misses, \* the store
  \* outside the program and history
  life,         \* what is left of the token at the server
  hold,         \* what is left of the pause the API has asked for
  asked,        \* a rate limit has set the delay since the last update
  updateAge,    \* time since the last update
  reportAge     \* [entity -> time since an update last reported it]

store == <<live, misses>>
ages == <<updateAge, reportAge>>
vars == <<pc, authenticated, slow, delay, tokenExpiry, cancelled, store, life, hold, asked, ages>>

Store == INSTANCE StaleEviction

(* NewOpenSkySeeder *)
Interval == IF authenticated THEN 25000 ELSE 60000

Init ==
  /\ pc = "fetch" /\ slow = FALSE
  /\ authenticated \in BOOLEAN
  /\ delay = Interval
  /\ tokenExpiry = 0 /\ life = 0 /\ hold = 0
  /\ cancelled = FALSE /\ asked = FALSE
  /\ updateAge = Interval
  /\ reportAge = [id \in EntityIDs |-> 0]
  /\ Store!Init

Least(a, b) == Min({a, b})
Left(t, d) == Max({t - d, 0})

(* Time passes. *)
Pass(d) ==
  /\ tokenExpiry' = Left(tokenExpiry, d)
  /\ life' = Left(life, d)
  /\ hold' = Left(hold, d)
  /\ updateAge' = Least(updateAge + d, Interval)
  /\ reportAge' = [id \in EntityIDs |-> Least(reportAge[id] + d, 2 * Interval)]

-----------------------------------------------------------------------------
(* Run after an error that is no rate limit. *)
IncreasedUncapped(t) == IF t < MaxDelay THEN (t * 3) \div 2 ELSE t
Increased(t) == IF t < MaxDelay THEN Least((t * 3) \div 2, MaxDelay) ELSE t

Failed == pc' = "wait" /\ delay' = Increased(delay)

(* client.Do; with a cancelled context it fails at once. *)
Do(request) == IF cancelled THEN Failed ELSE pc' = request /\ UNCHANGED delay

(* getToken keeps a token with more than a minute to go. *)
ReusableToTheEnd == tokenExpiry > 0
Reusable == tokenExpiry > Margin

(* Fetch up to the first request it makes. *)
BeginFetch ==
  /\ pc = "fetch"
  /\ Do(IF authenticated /\ ~Reusable THEN "grant" ELSE "request")
  /\ UNCHANGED <<slow, tokenExpiry, cancelled, store, life, hold, asked, ages>>

(* A request takes its time: as long as the client waits for an answer.    *)
Slow ==
  /\ pc \in {"grant", "request"} /\ ~slow
  /\ slow' = TRUE
  /\ Pass(Timeout)
  /\ UNCHANGED <<pc, delay, cancelled, store, asked>>

(* A new token, whose life at the server began when it was asked for.      *)
Granted(lasting) ==
  /\ pc = "grant"
  /\ Do("request")
  /\ slow' = FALSE
  /\ tokenExpiry' = lasting
  /\ life' = IF slow THEN lasting - Timeout ELSE lasting
  /\ UNCHANGED <<cancelled, store, hold, asked, ages>>

(* Either request fails with a plain error: timeouts, lost connections,    *)
(* cancellation, statuses below 500 other than 200 and 429, and any status *)
(* but 200 for the token.                                                  *)
FailsWithNone ==
  /\ pc \in {"grant", "request"}
  /\ Failed
  /\ slow' = FALSE
  /\ Store!Poll({})
  /\ UNCHANGED <<tokenExpiry, cancelled, life, hold, asked, ages>>
Fails ==
  /\ pc \in {"grant", "request"}
  /\ Failed
  /\ slow' = FALSE
  /\ UNCHANGED <<tokenExpiry, cancelled, store, life, hold, asked, ages>>

(* Run's delay after a rate limit. *)
DelayNotObeyed(retryAfter) == Increased(delay)
DelayObeyed(retryAfter) == retryAfter

(* Status 429, with the header or without (or with one that is no number), *)
(* and statuses from 500.                                                  *)
RateLimited(retryAfter, pause) ==
  /\ pc = "request"
  /\ \/ retryAfter \in RetryAfters /\ pause = retryAfter
     \/ retryAfter \in {DefaultRetryAfter, ServerErrorRetryAfter} /\ pause = 0
  /\ pc' = "wait"
  /\ slow' = FALSE
  /\ delay' = DelayObeyed(retryAfter)
  /\ hold' = pause
  /\ asked' = TRUE
  /\ UNCHANGED <<tokenExpiry, cancelled, store, life, ages>>

(* Run's delay after an update. *)
DelayKept == delay
DelayReset == Interval

(* Status 200: onUpdate with the aircraft seen.  A body that cannot be     *)
(* parsed reports none.                                                    *)
Succeeds(seen) ==
  /\ pc = "request"
  /\ pc' = "wait"
  /\ slow' = FALSE
  /\ delay' = DelayReset
  /\ Store!Poll(seen)
  /\ asked' = FALSE
  /\ updateAge' = 0
  /\ reportAge' = [id \in EntityIDs |-> IF id \in seen THEN 0 ELSE reportAge[id]]
  /\ UNCHANGED <<tokenExpiry, cancelled, life, hold>>

(* The two ends of Run's select; time.After(0) fires as soon as Done.      *)
WaitOver ==
  /\ pc = "wait"
  /\ ~cancelled \/ delay = 0
  /\ pc' = "fetch"
  /\ Pass(delay)
  /\ UNCHANGED <<slow, delay, cancelled, store, asked>>

DoneSeenAfterUpdate == cancelled /\ updateAge = 0
DoneSeen == cancelled
Stop ==
  /\ pc = "wait"
  /\ DoneSeen
  /\ pc' = "stopped"
  /\ UNCHANGED <<slow, delay, tokenExpiry, cancelled, store, life, hold, asked, ages>>

(* main is told to stop. *)
Cancel ==
  /\ ~cancelled
  /\ cancelled' = TRUE
  /\ UNCHANGED <<pc, slow, delay, tokenExpiry, store, life, hold, asked, ages>>

Answer ==
  \/ Fails
  \/ \E lasting \in TokenLives : Granted(lasting)
  \/ \E retryAfter \in RetryAfters \cup {DefaultRetryAfter, ServerErrorRetryAfter}, pause \in RetryAfters \cup {0} :
       RateLimited(retryAfter, pause)
  \/ \E seen \in SUBSET EntityIDs : Succeeds(seen)

Run == BeginFetch \/ Answer \/ WaitOver

(* Whether there are credentials never changes. *)
Next == (Run \/ Stop \/ Slow \/ Cancel) /\ UNCHANGED authenticated

(* Run's goroutine keeps going, a request is answered or times out, and a  *)
(* select whose two ends are ready time and again takes each of them.      *)
Spec == Init /\ [][Next]_vars /\ WF_vars(Run /\ Next) /\ SF_vars(Stop /\ Next)

-----------------------------------------------------------------------------
(* Every variable keeps its type, and a delay above maxDelay or below the  *)
(* interval is only ever what a rate limit asked for: plain errors grow it *)
(* between the two, however they alternate with rate limits and updates    *)
(* (seeder.go 45-68).                                                      *)
TypeOK ==
  /\ pc \in {"fetch", "grant", "request", "wait", "stopped"}
  /\ slow => pc \in {"grant", "request"}
  /\ delay \in Nat
  /\ authenticated \in BOOLEAN
  /\ ~asked => delay \in Interval .. MaxDelay
  /\ \E most \in TokenLives \cup {0} : tokenExpiry \in 0 .. most
  /\ life \in 0 .. tokenExpiry
  /\ \E most \in RetryAfters \cup {0} : hold \in 0 .. most
  /\ cancelled \in BOOLEAN
  /\ live \subseteq EntityIDs

(* A data request goes out with a token that the server will still accept  *)
(* when it arrives, as late as that may be: the minute getToken keeps in   *)
(* hand covers the client's later clock and the two requests (opensky.go   *)
(* 75, 110).                                                               *)
TokenOutlivesRequest ==
  [][pc # "request" /\ pc' = "request" /\ authenticated => life' >= Timeout]_vars

(* Once the API has asked for a pause, no data request goes out before it  *)
(* is over, whatever fails in between (opensky.go 155-168, seeder.go       *)
(* 47-63).                                                                 *)
PauseKept == [][pc # "request" /\ pc' = "request" => hold = 0]_vars

(* No data is asked for within an interval of the last update, also when an*)
(* outage with rate limits and shortened delays ends (seeder.go 68-72), so *)
(* no two polls of a process report an entity in the same second.          *)
UpdatesSpaced == pc = "request" => updateAge = Interval

(* The store gives an entity up no earlier than two intervals after the    *)
(* last report of it, however many polls fail meanwhile (seeder.go 45-65,  *)
(* store.go 210-217).                                                      *)
EvictedLate ==
  [][\A id \in live \ live' : reportAge[id] >= 2 * Interval]_vars

(* Run returns once main has cancelled its context (seeder.go 62, 73).     *)
Stops == cancelled ~> pc = "stopped"
=============================================================================
