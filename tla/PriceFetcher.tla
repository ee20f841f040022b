------------------------------- MODULE PriceFetcher ------------------------------
(***************************************************************************)
(* ATOM prices: internal/price/coingecko.go over the table price_cache.     *)
(*                                                                         *)
(* Two goroutines of a process ask for prices.  The processor prices the    *)
(* rows it inserts (GetPrice), the price backfill walks once through all    *)
(* days since the grant (Backfill).  Each looks the day up, asks CoinGecko  *)
(* on a miss, and stores the answer under the day; the lookup, the request  *)
(* with its retries and the store are separate steps that the other         *)
(* goroutine, the clock and a restart fall between.  What both share is the *)
(* table and the mutex of the rate limiter, held while it sleeps.           *)
(*                                                                         *)
(* Time is counted in ticks, a day has DayLen of them, and a day's key in    *)
(* the table is its first tick.  A price is abstracted to where it comes    *)
(* from: the moment it was quoted for.                                      *)
(***************************************************************************)
EXTENDS Integers

CONSTANTS
    DayLen,         \* ticks of a day
    MinInterval,    \* ticks between two requests: a minute by rate_limit_per_minute
    MaxRetries,     \* maxRetries
    GrantDate,      \* target.grant_date, where the price backfill begins
    Glitches,       \* the moments for which CoinGecko answers a price of zero
    MaxNow,         \* bound: no call begins, and no idle time passes, after it
    MaxBoots        \* bound: starts of the process

ASSUME TimeAssumption ==
    /\ DayLen \in Nat \ {0} /\ MinInterval \in Nat \ {0}
    /\ GrantDate \in Nat /\ MaxNow \in Nat /\ Glitches \subseteq Nat
ASSUME RetriesAssumption == MaxRetries \in Nat \ {0} /\ MaxBoots \in Nat

Callers == {"processor", "backfill"}

\* timestamp.Truncate(24 * time.Hour)
Truncate(t) == t - (t % DayLen)

\* The market at some moment, as the endpoint for current prices gives it, or
\* CoinGecko's price of a date, which is that of its first moment.
Quotes == [src : {"current", "history"}, at : Nat]
NoQuote == [src |-> "none", at |-> 0]

VARIABLES
    now,            \* the clock
    cache,          \* price_cache: a function on the days it has
    \* the Fetcher
    lastRequest,    \* lastRequest
    lock,           \* who holds mu
    \* the goroutines: where each is in GetPrice or in a round of Backfill
    pc,
    timestamp,      \* what it wants the price of
    endpoint,       \* the request it makes on a miss
    attempt,        \* requests that failed
    wake,           \* when its sleep in rateLimit ends
    quote,          \* the price received
    day,            \* the day Backfill is at
    to,             \* the last one it visits
    boots,
    \* history: only properties read these
    asked,          \* when the endpoint was chosen
    late,           \* the longest it took from there to an answer
    skipped         \* the days Backfill gave up

calls   == <<pc, timestamp, endpoint, attempt, wake, quote, asked>>
history == <<late, skipped>>
vars    == <<now, cache, lastRequest, lock, calls, day, to, boots, history>>

Phases == {"idle", "queue", "limit", "request", "store"}

TypeOK ==
    /\ now \in Nat
    /\ DOMAIN cache \subseteq Nat /\ \A k \in DOMAIN cache : cache[k] \in Quotes
    /\ lastRequest \in Int
    /\ lock \in Callers \cup {"free"}
    /\ pc \in [Callers -> Phases]
    /\ timestamp \in [Callers -> Nat]
    /\ endpoint \in [Callers -> {"none", "current", "history"}]
    /\ attempt \in [Callers -> Nat]
    /\ wake \in [Callers -> Int]
    /\ quote \in [Callers -> Quotes \cup {NoQuote}]
    /\ asked \in [Callers -> Nat]
    /\ day \in Nat /\ to \in Nat /\ boots \in Nat
    /\ late \in Nat /\ skipped \subseteq Nat

\* No goroutine is in a call; no request was made yet.
Fresh ==
    /\ lastRequest = -MinInterval
    /\ lock = "free"
    /\ pc = [c \in Callers |-> "idle"]
    /\ timestamp = [c \in Callers |-> 0]
    /\ endpoint = [c \in Callers |-> "none"]
    /\ attempt = [c \in Callers |-> 0]
    /\ wake = [c \in Callers |-> 0]
    /\ quote = [c \in Callers |-> NoQuote]
    /\ asked = [c \in Callers |-> 0]
    /\ day = Truncate(GrantDate)
    /\ to = Truncate(now)
    /\ skipped = {}

Init ==
    /\ now \in 0 .. MaxNow
    /\ cache = [k \in {} |-> NoQuote]
    /\ Fresh
    /\ boots = 1 /\ late = 0

----------------------------------------------------------------------------------
(* A call: GetPrice, or one round of Backfill's loop. *)

Goto(c, phase) == pc' = [pc EXCEPT ![c] = phase]

\* The call returns and Backfill goes on to the next day.
EndCall(c) ==
    /\ Goto(c, "idle")
    /\ timestamp' = [timestamp EXCEPT ![c] = 0]
    /\ endpoint' = [endpoint EXCEPT ![c] = "none"]
    /\ attempt' = [attempt EXCEPT ![c] = 0]
    /\ wake' = [wake EXCEPT ![c] = 0]
    /\ quote' = [quote EXCEPT ![c] = NoQuote]
    /\ asked' = [asked EXCEPT ![c] = 0]
    /\ day' = IF c = "backfill" THEN day + DayLen ELSE day

\* ... with an error: a row gets a zero price, Backfill's day is passed over.
GiveUp(c) ==
    /\ EndCall(c)
    /\ skipped' = IF c = "backfill" THEN skipped \cup {day} ELSE skipped
    /\ UNCHANGED <<now, cache, lastRequest, lock, to, boots, late>>

HasDay == day <= to

\* A price is wanted and not found in the table, or the lookup failed.  What is
\* less than a day old gets the current price.
Miss(c, t) ==
    /\ pc[c] = "idle"
    /\ timestamp' = [timestamp EXCEPT ![c] = t]
    /\ endpoint' = [endpoint EXCEPT ![c] =
                      IF now - t < DayLen THEN "current" ELSE "history"]
    /\ asked' = [asked EXCEPT ![c] = now]
    /\ Goto(c, "queue")
    /\ UNCHANGED <<now, cache, lastRequest, lock, attempt, wake, quote, day, to, boots,
                   history>>

\* The processor asks for a transaction of any earlier moment.  The keys of the
\* table are days, so of the two lookups the one by the minute finds nothing that
\* the one by the day would not; a hit changes nothing.
GetPrice == now < MaxNow /\ \E t \in 0 .. now : Miss("processor", t)

\* One round of Backfill's loop.
Fetch == HasDay /\ Miss("backfill", day)

Skip ==
    /\ pc["backfill"] = "idle"
    /\ HasDay
    /\ day \in DOMAIN cache
    /\ day' = day + DayLen
    /\ UNCHANGED <<now, cache, lastRequest, lock, calls, to, boots, history>>

\* Mutant of Lock: the mutex is not taken.
LockNone(c) ==
    /\ pc[c] = "queue"
    /\ attempt[c] < MaxRetries
    /\ wake' = [wake EXCEPT ![c] = lastRequest + MinInterval]
    /\ Goto(c, "limit")
    /\ UNCHANGED <<now, cache, lastRequest, lock, timestamp, endpoint, attempt,
                   quote, asked, day, to, boots, history>>

\* rateLimit: take the mutex, see how long to sleep ...
Lock(c) ==
    /\ pc[c] = "queue"
    /\ attempt[c] < MaxRetries
    /\ lock = "free"
    /\ lock' = c
    /\ wake' = [wake EXCEPT ![c] = lastRequest + MinInterval]
    /\ Goto(c, "limit")
    /\ UNCHANGED <<now, cache, lastRequest, timestamp, endpoint, attempt, quote,
                   asked, day, to, boots, history>>

\* Mutant of Send: the mutex is not given back.
SendLocked(c) ==
    /\ pc[c] = "limit"
    /\ now >= wake[c]
    /\ lastRequest' = now
    /\ Goto(c, "request")
    /\ UNCHANGED <<now, cache, lock, timestamp, endpoint, attempt, wake, quote, asked,
                   day, to, boots, history>>

\* ... sleep, note the time and send the request.
Send(c) ==
    /\ pc[c] = "limit"
    /\ now >= wake[c]
    /\ lastRequest' = now
    /\ lock' = "free"
    /\ Goto(c, "request")
    /\ UNCHANGED <<now, cache, timestamp, endpoint, attempt, wake, quote, asked, day,
                   to, boots, history>>

\* Mutant of Refused: the current price is checked instead.
RefusedCurrent(q) == q.src = "current" /\ q.at \in Glitches

\* Only for a date is a price of zero taken for an error.
Refused(q) == q.src = "history" /\ q.at \in Glitches

Quoted(c) ==
    [src |-> endpoint[c],
     at |-> IF endpoint[c] = "current" THEN now ELSE Truncate(timestamp[c])]

Answer(c) ==
    /\ pc[c] = "request"
    /\ ~Refused(Quoted(c))
    /\ quote' = [quote EXCEPT ![c] = Quoted(c)]
    /\ late' = IF now - asked[c] > late THEN now - asked[c] ELSE late
    /\ Goto(c, "store")
    /\ UNCHANGED <<now, cache, lastRequest, lock, timestamp, endpoint, attempt, wake,
                   asked, day, to, boots, skipped>>

\* Too many requests, a server error, a timeout: wait, longer each time, and go
\* back to the head of the loop.
RequestFails(c) ==
    /\ pc[c] = "request"
    /\ attempt' = [attempt EXCEPT ![c] = @ + 1]
    /\ Goto(c, "queue")
    /\ UNCHANGED <<now, cache, lastRequest, lock, timestamp, endpoint, wake, quote,
                   asked, day, to, boots, history>>

Exhausted(c) ==
    /\ pc[c] = "queue"
    /\ attempt[c] >= MaxRetries
    /\ GiveUp(c)

\* Any other error, a refused price among them.
RequestRefused(c) == pc[c] = "request" /\ GiveUp(c)

\* Mutant of Key: the day the price was asked on.
KeyOfToday(c) == Truncate(now)

Key(c) == Truncate(timestamp[c])

\* CachePrice: ON CONFLICT DO UPDATE.
Store(c) ==
    /\ pc[c] = "store"
    /\ cache' = [k \in DOMAIN cache \cup {Key(c)} |->
                   IF k = Key(c) THEN quote[c] ELSE cache[k]]
    /\ EndCall(c)
    /\ UNCHANGED <<now, lastRequest, lock, to, boots, history>>

\* It fails and is only logged: GetPrice returns the price all the same.
StoreFails(c) == pc[c] = "store" /\ GiveUp(c)

----------------------------------------------------------------------------------

\* Time passes; beyond the bound only for those who sleep in rateLimit.
Tick ==
    /\ now < MaxNow \/ \E c \in Callers : pc[c] = "limit" /\ now < wake[c]
    /\ now' = now + 1
    /\ UNCHANGED <<cache, lastRequest, lock, calls, day, to, boots, history>>

\* The process dies and starts again: the limiter is a new one, and so is the
\* range of the backfill; the table stays.
Restart ==
    /\ boots < MaxBoots
    /\ boots' = boots + 1
    /\ lastRequest' = -MinInterval
    /\ lock' = "free"
    /\ pc' = [c \in Callers |-> "idle"]
    /\ timestamp' = [c \in Callers |-> 0]
    /\ endpoint' = [c \in Callers |-> "none"]
    /\ attempt' = [c \in Callers |-> 0]
    /\ wake' = [c \in Callers |-> 0]
    /\ quote' = [c \in Callers |-> NoQuote]
    /\ asked' = [c \in Callers |-> 0]
    /\ day' = Truncate(GrantDate)
    /\ to' = Truncate(now)
    /\ skipped' = {}
    /\ UNCHANGED <<now, cache, late>>

\* The steps of a goroutine inside a call, but for the mutex.
Step(c) ==
    \/ Send(c) \/ Answer(c)
    \/ RequestFails(c) \/ Exhausted(c) \/ RequestRefused(c)
    \/ Store(c) \/ StoreFails(c)

Next ==
    \/ Tick
    \/ Restart
    \/ GetPrice \/ Fetch \/ Skip
    \/ \E c \in Callers : Lock(c) \/ Step(c)

Spec == Init /\ [][Next]_vars

\* Time goes on, requests are answered or time out, and the mutex of Go's sync
\* package is handed to whoever waits long enough.
FairSpec ==
    /\ Spec
    /\ WF_vars(Tick) /\ WF_vars(Fetch \/ Skip)
    /\ \A c \in Callers : WF_vars(Step(c)) /\ SF_vars(Lock(c))

----------------------------------------------------------------------------------
(* Properties. *)

\* The quote q may stand for the day that begins at k: CoinGecko's price of that
\* date, which is never zero, or the market less than a day after a moment of it,
\* and later only by as much as an answer took.
Fits(q, k) ==
    IF q.src = "history" THEN q.at = k /\ q.at \notin Glitches
    ELSE k <= q.at /\ q.at < k + 2 * DayLen + late

\* Every price in the table, and every price a row is about to get, fits its day,
\* whichever goroutine wrote it and however late.
PricesFit ==
    /\ \A k \in DOMAIN cache : Fits(cache[k], k)
    /\ \A c \in Callers : pc[c] = "store" => Fits(quote[c], Truncate(timestamp[c]))

\* What /api/stats multiplies all fees with as "current price", the table's price
\* of today, is a quote of today.
CurrentPriceIsTodays ==
    Truncate(now) \in DOMAIN cache =>
        cache[Truncate(now)].at \in Truncate(now) .. now

\* Both goroutines together stay within the rate limit, however the mutex changes
\* hands: "Paced to stay within the CoinGecko rate limit" (coingecko.go, comment
\* on Backfill).
RequestsSpaced ==
    [][\A c \in Callers : Send(c) => lastRequest' - lastRequest >= MinInterval]_vars

\* When the price backfill is through, every day from the grant to the start of
\* the process has a price, but for those it gave up.
RangeCached ==
    pc["backfill"] = "idle" /\ ~HasDay =>
        \A k \in Truncate(GrantDate) .. to :
            k = Truncate(k) => k \in DOMAIN cache \/ k \in skipped

\* Why they hold.  A call under way has chosen its endpoint by a moment that has
\* passed, and Backfill's are about its current day.
CallInv ==
    \A c \in Callers : pc[c] # "idle" =>
        /\ timestamp[c] <= asked[c] /\ asked[c] <= now
        /\ endpoint[c] # "none"
        /\ endpoint[c] = "current" => asked[c] - timestamp[c] < DayLen
        /\ c = "backfill" => timestamp[c] = day /\ HasDay
        /\ pc[c] = "store" => /\ quote[c] \in Quotes /\ quote[c].at <= now
                             /\ Fits(quote[c], Truncate(timestamp[c]))

CacheInv == \A k \in DOMAIN cache : Fits(cache[k], k) /\ cache[k].at <= now

\* The mutex belongs to the one that sleeps.
LockInv ==
    /\ \A c \in Callers :
        /\ pc[c] = "limit" <=> lock = c
        /\ pc[c] = "limit" => wake[c] = lastRequest + MinInterval
    /\ lastRequest <= now

\* The days Backfill has left behind have a price or were given up.
RangeInv ==
    /\ day = Truncate(day) /\ to <= now
    /\ \A k \in Truncate(GrantDate) .. day - 1 :
         k = Truncate(k) => k \in DOMAIN cache \/ k \in skipped

IInv == TypeOK /\ CallInv /\ CacheInv /\ LockInv /\ RangeInv

\* Every call returns, whatever the other goroutine does: no row waits for ever
\* for its price.
CallsReturn == \A c \in Callers : pc[c] # "idle" ~> pc[c] = "idle"
==================================================================================
