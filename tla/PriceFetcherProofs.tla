---------------------------- MODULE PriceFetcherProofs ---------------------------
(***************************************************************************)
(* Machine-checked proofs about PriceFetcher: its invariant is inductive, so *)
(* that every stored price fits its day, requests keep their distance and    *)
(* the price backfill leaves no day behind unnoticed, for days, intervals    *)
(* and bounds of any length.                                                *)
(***************************************************************************)
EXTENDS PriceFetcher, TLAPS

----------------------------------------------------------------------------------
(* Days.  The first tick of a day is a multiple of DayLen. *)

LEMMA Remainder ==
    ASSUME NEW D \in Nat \ {0}, NEW t \in Nat
    PROVE  /\ t % D \in 0 .. D - 1 /\ t \div D \in Nat
           /\ t = D * (t \div D) + (t % D)
  OBVIOUS

LEMMA Multiples ==
    ASSUME NEW D \in Nat \ {0}, NEW m \in Int, NEW n \in Int, m < n
    PROVE  D * m + D <= D * n
  <1>1. PICK k \in Nat : n = m + 1 + k
    BY SMT
  <1>2. D * n = D * m + D + D * k
    BY <1>1, SMT
  <1>3. D * k \in Nat
    BY SMT
  <1>. QED
    BY <1>2, <1>3, SMT

\* Quotient and remainder are unique.
LEMMA Division ==
    ASSUME NEW D \in Nat \ {0}, NEW p \in Int, NEW q \in Int,
           NEW r \in 0 .. D - 1, NEW s \in 0 .. D - 1, D * p + r = D * q + s
    PROVE  p = q /\ r = s
  <1>1. D * p \in Int /\ D * q \in Int
    OBVIOUS
  <1>2. ~(p < q)
    <2>. SUFFICES ASSUME p < q PROVE FALSE
      OBVIOUS
    <2>1. D * p + D <= D * q
      BY Multiples
    <2>. QED
      BY <1>1, <2>1
  <1>3. ~(q < p)
    <2>. SUFFICES ASSUME q < p PROVE FALSE
      OBVIOUS
    <2>1. D * q + D <= D * p
      BY Multiples
    <2>. QED
      BY <1>1, <2>1
  <1>. QED
    BY <1>2, <1>3

\* Truncate gives the multiple of DayLen that begins the day.
LEMMA DayStart ==
    ASSUME NEW t \in Nat
    PROVE  /\ Truncate(t) = DayLen * (t \div DayLen) /\ t \div DayLen \in Nat
           /\ Truncate(t) \in Nat /\ Truncate(t) <= t /\ t < Truncate(t) + DayLen
  <1>1. DayLen \in Nat \ {0}
    BY TimeAssumption
  <1>2. /\ t % DayLen \in 0 .. DayLen - 1 /\ t \div DayLen \in Nat
        /\ t = DayLen * (t \div DayLen) + (t % DayLen)
    BY <1>1, Remainder
  <1>3. DayLen * (t \div DayLen) \in Nat
    BY <1>1, <1>2
  <1>4. Truncate(t) = DayLen * (t \div DayLen)
    BY <1>2, <1>3 DEF Truncate
  <1>. QED
    BY <1>1, <1>2, <1>3, <1>4

\* A multiple of DayLen begins its own day.
LEMMA MultipleIsDay ==
    ASSUME NEW m \in Nat
    PROVE  DayLen * m \in Nat /\ Truncate(DayLen * m) = DayLen * m
  <1>1. DayLen \in Nat \ {0} /\ DayLen * m \in Nat
    BY TimeAssumption
  <1>2. /\ (DayLen * m) % DayLen \in 0 .. DayLen - 1
        /\ (DayLen * m) \div DayLen \in Nat
        /\ DayLen * m = DayLen * ((DayLen * m) \div DayLen) + ((DayLen * m) % DayLen)
    BY <1>1, Remainder
  <1>3. 0 \in 0 .. DayLen - 1 /\ DayLen * m + 0 = DayLen * m
    BY <1>1
  <1>4. m = (DayLen * m) \div DayLen /\ 0 = (DayLen * m) % DayLen
    <2>. DEFINE q == (DayLen * m) \div DayLen
                r == (DayLen * m) % DayLen
    <2>1. DayLen * m + 0 = DayLen * q + r
      BY <1>2, <1>3
    <2>2. q \in Int /\ r \in 0 .. DayLen - 1 /\ m \in Int
      BY <1>2
    <2>. HIDE DEF q, r
    <2>3. m = q /\ 0 = r
      BY <1>1, <1>3, <2>1, <2>2, Division
    <2>. QED
      BY <2>3 DEF q, r
  <1>. QED
    BY <1>1, <1>4 DEF Truncate

\* What the loop over the days needs of them.
LEMMA Days ==
    /\ \A t \in Nat : /\ Truncate(t) \in Nat /\ Truncate(t) <= t
                      /\ t < Truncate(t) + DayLen
                      /\ Truncate(Truncate(t)) = Truncate(t)
    /\ \A a \in Nat : a = Truncate(a) => a + DayLen = Truncate(a + DayLen)
    /\ \A a, b \in Nat : a = Truncate(a) /\ b = Truncate(b)
                         /\ a <= b /\ b < a + DayLen => a = b
  <1>1. DayLen \in Nat \ {0}
    BY TimeAssumption
  <1>2. ASSUME NEW t \in Nat
        PROVE  /\ Truncate(t) \in Nat /\ Truncate(t) <= t
               /\ t < Truncate(t) + DayLen
               /\ Truncate(Truncate(t)) = Truncate(t)
    BY DayStart, MultipleIsDay
  <1>3. ASSUME NEW a \in Nat, a = Truncate(a)
        PROVE  a + DayLen = Truncate(a + DayLen)
    <2>1. PICK m \in Nat : a = DayLen * m
      BY <1>3, DayStart
    <2>2. a + DayLen = DayLen * (m + 1)
      BY <1>1, <2>1
    <2>3. m + 1 \in Nat
      BY <2>1
    <2>. QED
      BY <2>2, <2>3, MultipleIsDay
  <1>4. ASSUME NEW a \in Nat, NEW b \in Nat, a = Truncate(a), b = Truncate(b),
               a <= b, b < a + DayLen
        PROVE  a = b
    <2>1. PICK m \in Nat : a = DayLen * m
      BY <1>4, DayStart
    <2>2. PICK n \in Nat : b = DayLen * n
      BY <1>4, DayStart
    <2>3. ~(m < n)
      <3>. SUFFICES ASSUME m < n PROVE FALSE
        OBVIOUS
      <3>1. DayLen * m + DayLen <= DayLen * n
        BY <1>1, Multiples
      <3>. QED
        BY <1>1, <1>4, <2>1, <2>2, <3>1
    <2>4. ~(n < m)
      <3>. SUFFICES ASSUME n < m PROVE FALSE
        OBVIOUS
      <3>1. DayLen * n + DayLen <= DayLen * m
        BY <1>1, Multiples
      <3>. QED
        BY <1>1, <1>4, <2>1, <2>2, <3>1
    <2>. QED
      BY <2>1, <2>2, <2>3, <2>4
  <1>. QED
    BY <1>2, <1>3, <1>4

----------------------------------------------------------------------------------
(* Type correctness. *)

LEMMA TypeInit == Init => TypeOK
  <1>. SUFFICES ASSUME Init PROVE TypeOK
    OBVIOUS
  <1>1. now \in Nat /\ GrantDate \in Nat /\ -MinInterval \in Int
    BY TimeAssumption DEF Init
  <1>2. Truncate(GrantDate) \in Nat /\ Truncate(now) \in Nat
    BY <1>1, Days
  <1>3. DOMAIN cache \subseteq Nat /\ \A k \in DOMAIN cache : cache[k] \in Quotes
    BY DEF Init
  <1>. QED
    BY <1>1, <1>2, <1>3 DEF Init, Fresh, TypeOK, Callers, Phases, NoQuote

LEMMA TypeEndCall ==
    ASSUME TypeOK, NEW c \in Callers, EndCall(c)
    PROVE  /\ pc' \in [Callers -> Phases]
           /\ timestamp' \in [Callers -> Nat]
           /\ endpoint' \in [Callers -> {"none", "current", "history"}]
           /\ attempt' \in [Callers -> Nat]
           /\ wake' \in [Callers -> Int]
           /\ quote' \in [Callers -> Quotes \cup {NoQuote}]
           /\ asked' \in [Callers -> Nat]
           /\ day' \in Nat
  BY TimeAssumption DEF TypeOK, EndCall, Goto, Phases

LEMMA TypeGiveUp ==
    ASSUME TypeOK, NEW c \in Callers, GiveUp(c)
    PROVE  TypeOK'
  <1>1. skipped' \in SUBSET Nat
    BY DEF GiveUp, TypeOK
  <1>2. EndCall(c)
    BY DEF GiveUp
  <1>. QED
    BY <1>1, <1>2, TypeEndCall DEF GiveUp, TypeOK

LEMMA TypeMiss ==
    ASSUME TypeOK, NEW c \in Callers, NEW t \in Nat, Miss(c, t)
    PROVE  TypeOK'
  BY DEF Miss, Goto, TypeOK, history, Phases

\* That an answer is a quote, and the one stored too, takes CallInv.
LEMMA TypeStep == TypeOK /\ CallInv /\ [Next]_vars => TypeOK'
  <1> SUFFICES ASSUME TypeOK, CallInv, [Next]_vars PROVE TypeOK'
    OBVIOUS
  <1>1. CASE Tick
    BY <1>1 DEF Tick, TypeOK, calls, history
  <1>2. CASE Restart
    <2>1. now \in Nat /\ GrantDate \in Nat /\ -MinInterval \in Int
      BY TimeAssumption DEF TypeOK
    <2>2. Truncate(GrantDate) \in Nat /\ Truncate(now) \in Nat
      BY <2>1, Days
    <2>. QED
      BY <1>2, <2>1, <2>2 DEF Restart, TypeOK, Callers, Phases, NoQuote
  <1>3. CASE GetPrice
    <2>1. PICK t \in 0 .. now : Miss("processor", t)
      BY <1>3 DEF GetPrice
    <2>2. t \in Nat
      BY <2>1 DEF TypeOK
    <2>. QED
      BY <2>1, <2>2, TypeMiss DEF Callers
  <1>4. CASE Fetch
    <2>1. Miss("backfill", day) /\ day \in Nat
      BY <1>4 DEF Fetch, TypeOK
    <2>. QED
      BY <2>1, TypeMiss DEF Callers
  <1>5. CASE Skip
    BY <1>5, TimeAssumption DEF Skip, TypeOK, calls, history
  <1>6. ASSUME NEW c \in Callers, Lock(c) \/ Step(c)
        PROVE  TypeOK'
    <2>1. CASE Lock(c)
      BY <2>1, TimeAssumption DEF Lock, Goto, TypeOK, history, Phases
    <2>2. CASE Send(c)
      BY <2>2 DEF Send, Goto, TypeOK, history, Phases
    <2>3. CASE Answer(c)
      <3>1. endpoint[c] \in {"current", "history"}
        BY <2>3 DEF TypeOK, CallInv, Answer
      <3>2. timestamp[c] \in Nat /\ now \in Nat
        BY DEF TypeOK
      <3>3. Truncate(timestamp[c]) \in Nat
        BY <3>2, Days
      <3>4. Quoted(c) \in Quotes
        BY <3>1, <3>2, <3>3 DEF Quoted, Quotes
      <3>5. quote' \in [Callers -> Quotes \cup {NoQuote}]
        BY <2>3, <3>4 DEF Answer, TypeOK
      <3>6. late' \in Nat
        BY <2>3, <3>2 DEF Answer, TypeOK
      <3>. QED
        BY <2>3, <3>5, <3>6 DEF Answer, Goto, TypeOK, Phases
    <2>4. CASE RequestFails(c)
      BY <2>4 DEF RequestFails, Goto, TypeOK, history, Phases
    <2>5. CASE Exhausted(c) \/ RequestRefused(c) \/ StoreFails(c)
      BY <2>5, TypeGiveUp DEF Exhausted, RequestRefused, StoreFails
    <2>6. CASE Store(c)
      <3>1. quote[c] \in Quotes /\ timestamp[c] \in Nat
        BY <2>6 DEF Store, CallInv, TypeOK
      <3>2. Key(c) \in Nat
        BY <3>1, Days DEF Key
      <3>3. /\ DOMAIN cache' \subseteq Nat
            /\ \A k \in DOMAIN cache' : cache'[k] \in Quotes
        BY <2>6, <3>1, <3>2 DEF Store, TypeOK
      <3>4. EndCall(c)
        BY <2>6 DEF Store
      <3>. QED
        BY <2>6, <3>3, <3>4, TypeEndCall DEF Store, TypeOK, history
    <2>. QED
      BY <1>6, <2>1, <2>2, <2>3, <2>4, <2>5, <2>6 DEF Step
  <1>7. CASE UNCHANGED vars
    BY <1>7 DEF TypeOK, vars, calls, history
  <1>. QED
    BY <1>1, <1>2, <1>3, <1>4, <1>5, <1>6, <1>7 DEF Next

----------------------------------------------------------------------------------
(* What an action leaves of the other conjuncts. *)

\* The invariant of one call, so that a step is looked at call by call.
CallOK(c) ==
    pc[c] # "idle" =>
        /\ timestamp[c] <= asked[c] /\ asked[c] <= now
        /\ endpoint[c] # "none"
        /\ endpoint[c] = "current" => asked[c] - timestamp[c] < DayLen
        /\ c = "backfill" => timestamp[c] = day /\ HasDay
        /\ pc[c] = "store" => /\ quote[c] \in Quotes /\ quote[c].at <= now
                             /\ Fits(quote[c], Truncate(timestamp[c]))

LEMMA CallByCall == CallInv <=> \A c \in Callers : CallOK(c)
  BY DEF CallInv, CallOK

\* A longer delay allows more.
LEMMA FitsLater ==
    ASSUME TypeOK, TypeOK', late <= late', NEW q \in Quotes, NEW k \in Nat, Fits(q, k)
    PROVE  Fits(q, k)'
  <1>1. late \in Nat /\ late' \in Nat /\ q.at \in Nat /\ DayLen \in Nat
    BY TimeAssumption DEF TypeOK, Quotes
  <1>. QED
    BY <1>1 DEF Fits

\* A call a step does not touch stays as it is.
LEMMA CallKept ==
    ASSUME TypeOK, TypeOK', NEW c \in Callers, CallOK(c),
           now <= now', late <= late',
           pc'[c] = pc[c], timestamp'[c] = timestamp[c], asked'[c] = asked[c],
           endpoint'[c] = endpoint[c], quote'[c] = quote[c],
           c = "backfill" /\ pc[c] # "idle" => day' = day /\ to' = to
    PROVE  CallOK(c)'
  <1>. SUFFICES ASSUME pc[c] # "idle" PROVE CallOK(c)'
    BY DEF CallOK
  <1>1. /\ now \in Nat /\ now' \in Nat /\ asked[c] \in Nat /\ timestamp[c] \in Nat
    BY DEF TypeOK
  <1>2. /\ timestamp'[c] <= asked'[c] /\ asked'[c] <= now'
        /\ endpoint'[c] # "none"
        /\ endpoint'[c] = "current" => asked'[c] - timestamp'[c] < DayLen
        /\ c = "backfill" => timestamp'[c] = day' /\ HasDay'
    BY <1>1 DEF CallOK, HasDay
  <1>3. ASSUME pc[c] = "store"
        PROVE  /\ quote'[c] \in Quotes /\ quote'[c].at <= now'
               /\ Fits(quote[c], Truncate(timestamp[c]))'
    <2>1. /\ quote[c] \in Quotes /\ quote[c].at <= now
          /\ Fits(quote[c], Truncate(timestamp[c]))
      BY <1>3 DEF CallOK
    <2>2. quote[c].at \in Nat /\ Truncate(timestamp[c]) \in Nat
      BY <1>1, <2>1, Days DEF Quotes
    <2>3. late \in Nat /\ late' \in Nat /\ DayLen \in Nat
      BY TimeAssumption DEF TypeOK
    <2>4. Fits(quote[c], Truncate(timestamp[c]))'
      BY <2>1, <2>2, <2>3 DEF Fits, Truncate
    <2>. QED
      BY <1>1, <2>1, <2>2, <2>4
  <1>. QED
    BY <1>2, <1>3 DEF CallOK

LEMMA CacheKept ==
    ASSUME TypeOK, TypeOK', CacheInv, cache' = cache, now <= now', late <= late'
    PROVE  CacheInv'
  <1>. SUFFICES ASSUME NEW k \in DOMAIN cache
                PROVE  Fits(cache[k], k)' /\ cache'[k].at <= now'
    BY DEF CacheInv
  <1>1. cache[k] \in Quotes /\ k \in Nat /\ Fits(cache[k], k) /\ cache[k].at <= now
    BY DEF TypeOK, CacheInv
  <1>2. now \in Nat /\ now' \in Nat /\ late \in Nat /\ late' \in Nat
        /\ cache[k].at \in Nat /\ DayLen \in Nat
    BY <1>1, TimeAssumption DEF TypeOK, Quotes
  <1>. QED
    BY <1>1, <1>2 DEF Fits

LEMMA RangeKept ==
    ASSUME RangeInv, cache' = cache \/ DOMAIN cache \subseteq DOMAIN cache',
           skipped \subseteq skipped', day' = day, to' = to,
           TypeOK, TypeOK', now <= now'
    PROVE  RangeInv'
  <1>1. now \in Nat /\ now' \in Nat /\ to \in Nat
    BY DEF TypeOK
  <1>. QED
    BY <1>1 DEF RangeInv, Truncate

----------------------------------------------------------------------------------
(* Step by step. *)

LEMMA InvInit == Init => IInv
  <1>. SUFFICES ASSUME Init PROVE IInv
    OBVIOUS
  <1>1. now \in Nat /\ GrantDate \in Nat /\ MinInterval \in Nat
    BY TimeAssumption DEF Init
  <1>2. /\ Truncate(GrantDate) \in Nat /\ Truncate(now) <= now
        /\ Truncate(Truncate(GrantDate)) = Truncate(GrantDate)
    BY <1>1, Days
  <1>3. CallInv /\ CacheInv
    BY DEF Init, Fresh, CallInv, CacheInv
  <1>4. LockInv
    BY <1>1 DEF Init, Fresh, LockInv, Callers
  <1>5. RangeInv
    BY <1>1, <1>2 DEF Init, Fresh, RangeInv
  <1>. QED
    BY <1>3, <1>4, <1>5, TypeInit DEF IInv

LEMMA InvTick ==
    ASSUME IInv, TypeOK', Tick
    PROVE  IInv'
  <1>. USE DEF IInv
  <1>1. /\ now' = now + 1 /\ late' = late /\ now \in Nat /\ late \in Nat
        /\ lastRequest \in Int
    BY DEF Tick, TypeOK, history
  <1>2. CallInv'
    BY <1>1, CallKept, CallByCall DEF Tick, calls, CallOK, CallInv
  <1>3. CacheInv' /\ RangeInv'
    BY <1>1, CacheKept, RangeKept DEF Tick, history
  <1>4. LockInv'
    BY <1>1 DEF Tick, calls, LockInv
  <1>. QED
    BY <1>2, <1>3, <1>4

LEMMA InvRestart ==
    ASSUME IInv, TypeOK', Restart
    PROVE  IInv'
  <1>. USE DEF IInv
  <1>1. /\ now' = now /\ late' = late /\ cache' = cache /\ now \in Nat /\ late \in Nat
        /\ GrantDate \in Nat /\ MinInterval \in Nat
    BY TimeAssumption DEF Restart, TypeOK
  <1>2. /\ Truncate(GrantDate) \in Nat /\ Truncate(now) <= now
        /\ Truncate(Truncate(GrantDate)) = Truncate(GrantDate)
    BY <1>1, Days
  <1>3. CallInv'
    BY DEF Restart, CallInv
  <1>4. CacheInv'
    BY <1>1, CacheKept
  <1>5. LockInv'
    BY <1>1 DEF Restart, LockInv, Callers
  <1>6. RangeInv'
    BY <1>1, <1>2 DEF Restart, RangeInv, Truncate
  <1>. QED
    BY <1>3, <1>4, <1>5, <1>6

\* GetPrice and Fetch.
LEMMA InvMiss ==
    ASSUME IInv, TypeOK', NEW c \in Callers, NEW t \in Nat, Miss(c, t), t <= now,
           c = "backfill" => t = day /\ HasDay
    PROVE  IInv'
  <1>. USE DEF IInv
  <1>1. /\ now' = now /\ late' = late /\ cache' = cache /\ lastRequest' = lastRequest
        /\ lock' = lock /\ day' = day /\ to' = to /\ skipped' = skipped
        /\ now \in Nat /\ late \in Nat
    BY DEF Miss, TypeOK, history
  <1>2. CallOK(c)'
    BY <1>1 DEF Miss, Goto, TypeOK, CallOK, HasDay
  <1>3. ASSUME NEW d \in Callers, d # c
        PROVE  CallOK(d)'
    BY <1>1, <1>3, CallKept, CallByCall DEF Miss, Goto, TypeOK
  <1>4. CallInv'
    BY <1>2, <1>3 DEF CallInv, CallOK
  <1>5. CacheInv' /\ RangeInv'
    BY <1>1, CacheKept, RangeKept
  <1>6. LockInv'
    BY <1>1 DEF Miss, Goto, TypeOK, LockInv
  <1>. QED
    BY <1>4, <1>5, <1>6

LEMMA InvSkip ==
    ASSUME IInv, TypeOK', Skip
    PROVE  IInv'
  <1>. USE DEF IInv
  <1>1. /\ now' = now /\ late' = late /\ cache' = cache /\ to' = to
        /\ skipped' = skipped /\ day' = day + DayLen
        /\ now \in Nat /\ late \in Nat /\ day \in Nat /\ to \in Nat /\ GrantDate \in Nat
        /\ DayLen \in Nat
    BY TimeAssumption DEF Skip, TypeOK, history
  <1>2. CallInv'
    BY <1>1, CallKept, CallByCall DEF Skip, calls, CallOK, CallInv
  <1>3. CacheInv'
    BY <1>1, CacheKept
  <1>4. LockInv'
    BY <1>1 DEF Skip, calls, LockInv
  <1>5. day' = Truncate(day') /\ to' <= now'
    BY <1>1, Days DEF RangeInv
  <1>6. ASSUME NEW k \in Truncate(GrantDate) .. day' - 1, k = Truncate(k)
        PROVE  k \in DOMAIN cache' \/ k \in skipped'
    <2>1. Truncate(GrantDate) \in Nat
      BY <1>1, Days
    <2>2. k \in Nat /\ k < day + DayLen
      BY <1>1, <2>1
    <2>3. CASE k < day
      BY <1>1, <1>6, <2>1, <2>2, <2>3 DEF RangeInv
    <2>4. CASE day <= k
      <3>1. k = day
        BY <1>1, <1>6, <2>2, <2>4, Days DEF RangeInv
      <3>. QED
        BY <1>1, <3>1 DEF Skip
    <2>. QED
      BY <1>1, <2>2, <2>3, <2>4
  <1>7. RangeInv'
    BY <1>5, <1>6 DEF RangeInv, Truncate
  <1>. QED
    BY <1>2, <1>3, <1>4, <1>7

\* The mutex is taken, the sleep lasts as long as the last request asks for.
LEMMA InvLock ==
    ASSUME IInv, TypeOK', NEW c \in Callers, Lock(c)
    PROVE  IInv'
  <1>. USE DEF IInv
  <1>1. /\ now' = now /\ late' = late /\ cache' = cache /\ lastRequest' = lastRequest
        /\ day' = day /\ to' = to /\ skipped' = skipped
        /\ now \in Nat /\ late \in Nat
    BY DEF Lock, TypeOK, history
  <1>2. CallOK(c)'
    BY <1>1, CallByCall DEF Lock, Goto, TypeOK, CallOK, HasDay
  <1>3. ASSUME NEW d \in Callers, d # c
        PROVE  CallOK(d)'
    BY <1>1, <1>3, CallKept, CallByCall DEF Lock, Goto, TypeOK
  <1>4. CallInv'
    BY <1>2, <1>3 DEF CallInv, CallOK
  <1>5. CacheInv' /\ RangeInv'
    BY <1>1, CacheKept, RangeKept
  <1>6. LockInv'
    BY <1>1 DEF Lock, Goto, TypeOK, LockInv, Callers
  <1>. QED
    BY <1>4, <1>5, <1>6

LEMMA InvSend ==
    ASSUME IInv, TypeOK', NEW c \in Callers, Send(c)
    PROVE  IInv'
  <1>. USE DEF IInv
  <1>1. /\ now' = now /\ late' = late /\ cache' = cache /\ lastRequest' = now
        /\ day' = day /\ to' = to /\ skipped' = skipped
        /\ now \in Nat /\ late \in Nat
    BY DEF Send, TypeOK, history
  <1>2. CallOK(c)'
    BY <1>1, CallByCall DEF Send, Goto, TypeOK, CallOK, HasDay
  <1>3. ASSUME NEW d \in Callers, d # c
        PROVE  CallOK(d)'
    BY <1>1, <1>3, CallKept, CallByCall DEF Send, Goto, TypeOK
  <1>4. CallInv'
    BY <1>2, <1>3 DEF CallInv, CallOK
  <1>5. CacheInv' /\ RangeInv'
    BY <1>1, CacheKept, RangeKept
  <1>6. LockInv'
    BY <1>1 DEF Send, Goto, TypeOK, LockInv, Callers
  <1>. QED
    BY <1>4, <1>5, <1>6

\* What is answered fits the day asked for.
LEMMA InvAnswer ==
    ASSUME IInv, TypeOK', NEW c \in Callers, Answer(c)
    PROVE  IInv'
  <1>. USE DEF IInv
  <1>1. /\ now' = now /\ cache' = cache /\ lastRequest' = lastRequest /\ lock' = lock
        /\ day' = day /\ to' = to /\ skipped' = skipped
        /\ late' = IF now - asked[c] > late THEN now - asked[c] ELSE late
        /\ quote'[c] = Quoted(c)
        /\ now \in Nat /\ late \in Nat /\ DayLen \in Nat
    BY TimeAssumption DEF Answer, TypeOK
  <1>2. /\ timestamp[c] \in Nat /\ asked[c] \in Nat
        /\ timestamp[c] <= asked[c] /\ asked[c] <= now
        /\ endpoint[c] \in {"current", "history"}
        /\ endpoint[c] = "current" => asked[c] - timestamp[c] < DayLen
        /\ c = "backfill" => timestamp[c] = day /\ HasDay
    BY DEF Answer, TypeOK, CallInv
  <1>3. late <= late' /\ now - asked[c] <= late' /\ late' \in Nat
    BY <1>1, <1>2
  <1>4. /\ Truncate(timestamp[c]) \in Nat /\ Truncate(timestamp[c]) <= timestamp[c]
        /\ timestamp[c] < Truncate(timestamp[c]) + DayLen
    BY <1>2, Days
  <1>5. Quoted(c) \in Quotes /\ Quoted(c).at <= now
    BY <1>1, <1>2, <1>4 DEF Quoted, Quotes
  <1>6. IF endpoint[c] = "history"
        THEN Truncate(timestamp[c]) \notin Glitches
        ELSE /\ Truncate(timestamp[c]) <= now
             /\ now < Truncate(timestamp[c]) + 2 * DayLen + late'
    <2>1. CASE endpoint[c] = "history"
      BY <1>2, <2>1 DEF Answer, Refused, Quoted
    <2>2. CASE endpoint[c] = "current"
      BY <1>1, <1>2, <1>3, <1>4, <2>2
    <2>. QED
      BY <1>2, <2>1, <2>2
  <1>7. Fits(quote[c], Truncate(timestamp[c]))'
    BY <1>1, <1>2, <1>6 DEF Answer, Quoted, Fits, Truncate
  <1>8. CallOK(c)'
    <2>1. /\ timestamp'[c] = timestamp[c] /\ asked'[c] = asked[c]
          /\ endpoint'[c] = endpoint[c]
      BY DEF Answer
    <2>2. quote'[c] \in Quotes /\ quote'[c].at <= now'
      BY <1>1, <1>5
    <2>. QED
      BY <1>1, <1>2, <1>7, <2>1, <2>2 DEF CallOK, HasDay
  <1>9. ASSUME NEW d \in Callers, d # c
        PROVE  CallOK(d)'
    BY <1>1, <1>3, <1>9, CallKept, CallByCall DEF Answer, Goto, TypeOK
  <1>10. CallInv'
    BY <1>8, <1>9 DEF CallInv, CallOK
  <1>11. CacheInv' /\ RangeInv'
    BY <1>1, <1>3, CacheKept, RangeKept
  <1>12. LockInv'
    BY <1>1 DEF Answer, Goto, TypeOK, LockInv
  <1>. QED
    BY <1>10, <1>11, <1>12

LEMMA InvRequestFails ==
    ASSUME IInv, TypeOK', NEW c \in Callers, RequestFails(c)
    PROVE  IInv'
  <1>. USE DEF IInv
  <1>1. /\ now' = now /\ late' = late /\ cache' = cache /\ lastRequest' = lastRequest
        /\ lock' = lock /\ day' = day /\ to' = to /\ skipped' = skipped
        /\ now \in Nat /\ late \in Nat
    BY DEF RequestFails, TypeOK, history
  <1>2. CallOK(c)'
    BY <1>1, CallByCall DEF RequestFails, Goto, TypeOK, CallOK, HasDay
  <1>3. ASSUME NEW d \in Callers, d # c
        PROVE  CallOK(d)'
    BY <1>1, <1>3, CallKept, CallByCall DEF RequestFails, Goto, TypeOK
  <1>4. CallInv'
    BY <1>2, <1>3 DEF CallInv, CallOK
  <1>5. CacheInv' /\ RangeInv'
    BY <1>1, CacheKept, RangeKept
  <1>6. LockInv'
    BY <1>1 DEF RequestFails, Goto, TypeOK, LockInv
  <1>. QED
    BY <1>4, <1>5, <1>6

\* The end of a call, with the day in the table or given up.
LEMMA InvEndCall ==
    ASSUME IInv, TypeOK', NEW c \in Callers, EndCall(c),
           pc[c] \in {"queue", "request", "store"},
           UNCHANGED <<now, lastRequest, lock, to, late>>,
           DOMAIN cache \subseteq DOMAIN cache', skipped \subseteq skipped',
           c = "backfill" => day \in DOMAIN cache' \/ day \in skipped'
    PROVE  CallInv' /\ LockInv' /\ RangeInv'
  <1>. USE DEF IInv
  <1>1. /\ now' = now /\ late' = late /\ to' = to
        /\ lastRequest' = lastRequest /\ lock' = lock
        /\ now \in Nat /\ late \in Nat /\ day \in Nat /\ to \in Nat /\ GrantDate \in Nat
        /\ DayLen \in Nat
        /\ day' = IF c = "backfill" THEN day + DayLen ELSE day
    BY TimeAssumption DEF TypeOK, EndCall
  <1>2. pc'[c] = "idle" /\ CallOK(c)'
    BY DEF EndCall, Goto, TypeOK, CallOK
  <1>3. ASSUME NEW d \in Callers, d # c
        PROVE  CallOK(d)'
    <2>1. d = "backfill" => day' = day
      BY <1>1, <1>3
    <2>. QED
      BY <1>1, <1>3, <2>1, CallKept, CallByCall DEF EndCall, Goto, TypeOK
  <1>4. CallInv'
    BY <1>2, <1>3 DEF CallInv, CallOK
  <1>5. LockInv'
    BY <1>1 DEF EndCall, Goto, TypeOK, LockInv
  <1>6. day' = Truncate(day') /\ to' <= now'
    BY <1>1, Days DEF RangeInv
  <1>7. ASSUME NEW k \in Truncate(GrantDate) .. day' - 1, k = Truncate(k)
        PROVE  k \in DOMAIN cache' \/ k \in skipped'
    <2>1. Truncate(GrantDate) \in Nat
      BY <1>1, Days
    <2>2. k \in Nat /\ k < day'
      BY <1>1, <2>1
    <2>3. CASE k < day
      BY <1>1, <1>7, <2>1, <2>2, <2>3 DEF RangeInv
    <2>4. CASE day <= k
      <3>1. c = "backfill" /\ k < day + DayLen
        BY <1>1, <2>2, <2>4
      <3>2. k = day
        BY <1>1, <1>7, <2>2, <2>4, <3>1, Days DEF RangeInv
      <3>. QED
        BY <3>1, <3>2
    <2>. QED
      BY <1>1, <2>2, <2>3, <2>4
  <1>8. RangeInv'
    BY <1>6, <1>7 DEF RangeInv, Truncate
  <1>. QED
    BY <1>4, <1>5, <1>8

LEMMA InvGiveUp ==
    ASSUME IInv, TypeOK', NEW c \in Callers, GiveUp(c),
           pc[c] \in {"queue", "request", "store"}
    PROVE  IInv'
  <1>. USE DEF IInv
  <1>1. CacheInv'
    <2>1. cache' = cache /\ now' = now /\ late' = late /\ now \in Nat /\ late \in Nat
      BY DEF GiveUp, TypeOK
    <2>. QED
      BY <2>1, CacheKept
  <1>2. CallInv' /\ LockInv' /\ RangeInv'
    BY InvEndCall DEF GiveUp
  <1>. QED
    BY <1>1, <1>2

LEMMA InvStore ==
    ASSUME IInv, TypeOK', NEW c \in Callers, Store(c)
    PROVE  IInv'
  <1>. USE DEF IInv
  <1>1. /\ now' = now /\ late' = late /\ skipped' = skipped
        /\ cache' = [k \in DOMAIN cache \cup {Key(c)} |->
                       IF k = Key(c) THEN quote[c] ELSE cache[k]]
        /\ now \in Nat /\ late \in Nat
    BY DEF Store, TypeOK, history
  <1>2. /\ quote[c] \in Quotes /\ quote[c].at <= now /\ Fits(quote[c], Key(c))
        /\ c = "backfill" => timestamp[c] = day
        /\ timestamp[c] \in Nat
    BY DEF Store, CallInv, Key, TypeOK
  <1>3. CacheInv'
    <2>. SUFFICES ASSUME NEW k \in DOMAIN cache'
                  PROVE  Fits(cache[k], k)' /\ cache'[k].at <= now'
      BY DEF CacheInv
    <2>1. Fits(cache'[k], k) /\ cache'[k].at <= now
      BY <1>1, <1>2 DEF CacheInv
    <2>. QED
      BY <1>1, <2>1 DEF Fits
  <1>4. c = "backfill" => day \in DOMAIN cache'
    BY <1>1, <1>2 DEF Key, RangeInv
  <1>5. CallInv' /\ LockInv' /\ RangeInv'
    BY <1>1, <1>4, InvEndCall DEF Store, history
  <1>. QED
    BY <1>3, <1>5

LEMMA InvStep == IInv /\ [Next]_vars => IInv'
  <1> SUFFICES ASSUME IInv, [Next]_vars PROVE IInv'
    OBVIOUS
  <1>1. TypeOK'
    BY TypeStep DEF IInv
  <1>2. CASE Tick
    BY <1>1, <1>2, InvTick
  <1>3. CASE Restart
    BY <1>1, <1>3, InvRestart
  <1>4. CASE GetPrice
    <2>1. PICK t \in 0 .. now : Miss("processor", t)
      BY <1>4 DEF GetPrice
    <2>2. t \in Nat /\ t <= now
      BY <2>1 DEF IInv, TypeOK
    <2>. QED
      BY <1>1, <2>1, <2>2, InvMiss DEF Callers
  <1>5. CASE Fetch
    <2>1. Miss("backfill", day) /\ HasDay /\ day \in Nat
      BY <1>5 DEF Fetch, IInv, TypeOK
    <2>2. day <= now
      BY <2>1 DEF HasDay, IInv, RangeInv, TypeOK
    <2>. QED
      BY <1>1, <2>1, <2>2, InvMiss DEF Callers
  <1>6. CASE Skip
    BY <1>1, <1>6, InvSkip
  <1>7. ASSUME NEW c \in Callers, Lock(c) \/ Step(c)
        PROVE  IInv'
    <2>1. CASE Lock(c)
      BY <1>1, <2>1, InvLock
    <2>2. CASE Send(c)
      BY <1>1, <2>2, InvSend
    <2>3. CASE Answer(c)
      BY <1>1, <2>3, InvAnswer
    <2>4. CASE RequestFails(c)
      BY <1>1, <2>4, InvRequestFails
    <2>5. CASE Exhausted(c) \/ RequestRefused(c) \/ StoreFails(c)
      BY <1>1, <2>5, InvGiveUp DEF Exhausted, RequestRefused, StoreFails
    <2>6. CASE Store(c)
      BY <1>1, <2>6, InvStore
    <2>. QED
      BY <1>7, <2>1, <2>2, <2>3, <2>4, <2>5, <2>6 DEF Step
  <1>8. CASE UNCHANGED vars
    BY <1>8 DEF IInv, CallInv, CacheInv, LockInv, RangeInv, TypeOK, Fits, HasDay,
                Truncate, vars, calls, history
  <1>. QED
    BY <1>2, <1>3, <1>4, <1>5, <1>6, <1>7, <1>8 DEF Next

----------------------------------------------------------------------------------
(* Theorems. *)

\* What the goroutines, the mutex, the table and the loop over the days owe each
\* other at every step holds for ever.
THEOREM PriceInvariant == Spec => []IInv
  <1>1. Init => IInv
    BY InvInit
  <1>2. IInv /\ [Next]_vars => IInv'
    BY InvStep
  <1>. QED
    BY <1>1, <1>2, PTL DEF Spec

\* A price in the table, or about to be given to a row, is one of its day.
THEOREM PricesFitHolds == Spec => []PricesFit
  <1>1. IInv => PricesFit
    BY DEF IInv, CallInv, CacheInv, PricesFit
  <1>. QED
    BY <1>1, PriceInvariant, PTL

\* The price shown as the current one is a quote of today.
THEOREM CurrentPriceIsTodaysHolds == Spec => []CurrentPriceIsTodays
  <1>1. IInv => CurrentPriceIsTodays
    <2>. SUFFICES ASSUME IInv, Truncate(now) \in DOMAIN cache
                  PROVE  cache[Truncate(now)].at \in Truncate(now) .. now
      BY DEF CurrentPriceIsTodays
    <2>. DEFINE q == cache[Truncate(now)]
    <2>1. /\ now \in Nat /\ Truncate(now) \in Nat /\ q \in Quotes
          /\ Fits(q, Truncate(now)) /\ q.at <= now
      BY DEF IInv, TypeOK, CacheInv
    <2>2. q.at \in Nat /\ Truncate(now) <= q.at
      BY <2>1 DEF Fits, Quotes
    <2>. QED
      BY <2>1, <2>2
  <1>. QED
    BY <1>1, PriceInvariant, PTL

\* After the price backfill each day has a price or was given up.
THEOREM RangeCachedHolds == Spec => []RangeCached
  <1>1. IInv => RangeCached
    <2>. SUFFICES ASSUME IInv, ~HasDay,
                         NEW k \in Truncate(GrantDate) .. to, k = Truncate(k)
                  PROVE  k \in DOMAIN cache \/ k \in skipped
      BY DEF RangeCached
    <2>1. /\ day \in Nat /\ to \in Nat /\ GrantDate \in Nat
      BY TimeAssumption DEF IInv, TypeOK
    <2>2. Truncate(GrantDate) \in Nat
      BY <2>1, Days
    <2>3. k \in Truncate(GrantDate) .. day - 1
      BY <2>1, <2>2 DEF HasDay
    <2>. QED
      BY <2>3 DEF IInv, RangeInv
  <1>. QED
    BY <1>1, PriceInvariant, PTL

\* Two requests of a process are never closer than the rate limit allows.
THEOREM RequestsSpacedHolds == Spec => RequestsSpaced
  <1>1. IInv /\ [Next]_vars
          => [\A c \in Callers : Send(c) => lastRequest' - lastRequest >= MinInterval]_vars
    <2>. SUFFICES ASSUME IInv, NEW c \in Callers, Send(c)
                  PROVE  lastRequest' - lastRequest >= MinInterval
      OBVIOUS
    <2>1. /\ now \in Nat /\ lastRequest \in Int /\ MinInterval \in Nat
          /\ lastRequest' = now
      BY TimeAssumption DEF IInv, TypeOK, Send
    <2>2. now >= lastRequest + MinInterval
      BY DEF Send, IInv, LockInv
    <2>. QED
      BY <2>1, <2>2
  <1>. QED
    BY <1>1, PriceInvariant, PTL DEF Spec, RequestsSpaced

==================================================================================
