----------------------------- MODULE LifecycleProofs -----------------------------
(***************************************************************************)
(* The life of a process, for any number of requests, goroutines, statements *)
(* and connections: who holds a connection runs a statement, the pool is     *)
(* never overdrawn, and behind srv.Shutdown a request is under way only if   *)
(* the context was cancelled.                                              *)
(***************************************************************************)
EXTENDS Lifecycle, FiniteSetTheorems, TLAPS

\* One connection more or less.
LEMMA ConnsFacts ==
    ASSUME IsFiniteSet(conns), Cardinality(conns) <= MaxConns, NEW c
    PROVE  /\ IsFiniteSet(conns \ {c}) /\ Cardinality(conns \ {c}) <= MaxConns
           /\ Cardinality(conns) < MaxConns =>
                IsFiniteSet(conns \cup {c}) /\ Cardinality(conns \cup {c}) <= MaxConns
<1>1. Cardinality(conns) \in Nat /\ MaxConns \in Nat
  BY FS_CardinalityType, LifecycleAssumption
<1>2. /\ IsFiniteSet(conns \ {c})
      /\ Cardinality(conns \ {c}) =
           IF c \in conns THEN Cardinality(conns) - 1 ELSE Cardinality(conns)
  BY FS_RemoveElement
<1>3. /\ IsFiniteSet(conns \cup {c})
      /\ Cardinality(conns \cup {c}) =
           IF c \in conns THEN Cardinality(conns) ELSE Cardinality(conns) + 1
  BY FS_AddElement
<1>. QED  BY <1>1, <1>2, <1>3

\* A process begins without a connection and without a server.
LEMMA InitIInv == Init => IInv
<1> SUFFICES ASSUME Init PROVE IInv
  OBVIOUS
<1>1. TypeOK
  <2>1. 0 \in 0 .. Queries
    BY LifecycleAssumption
  <2>2. number \in [Requests -> 0 .. Queries]
    BY <2>1 DEF Init
  <2>3. /\ at \in [Requests -> {"none", "ask", "query", "reply"}]
        /\ worker \in [Background -> {"off", "run", "query", "ended"}]
    BY DEF Init
  <2>. QED  BY <2>2, <2>3 DEF Init, TypeOK
<1>2. ConnsInv
  BY FS_EmptySet, LifecycleAssumption DEF Init, ConnsInv
<1>3. StartInv /\ StopInv
  BY DEF Init, StartInv, StopInv, CutOnlyIfCancelled
<1>. QED  BY <1>1, <1>2, <1>3 DEF IInv

\* Steps of main, of the server's goroutine and of signals leave requests and
\* goroutines alone, but for the goroutines that start; connections only come and
\* go for main itself.
LEMMA MainStep ==
    ASSUME IInv,
           \/ Main \/ MainQuery \/ DiscoverEnds \/ BackfillEnds \/ Die
           \/ Listen \/ ListenFails \/ ServerEnds \/ Signal \/ SignalKills
    PROVE  IInv'
<1> USE DEF IInv
<1>0. /\ UNCHANGED <<mode, at, number>>
      /\ "main" \notin Requests \cup Background /\ 1 \in 1 .. Queries
  BY LifecycleAssumption
     DEF Main, Setup, Generate, MainQuery, MainQueryEnds, DiscoverEnds, BackfillEnds, Die,
         Shutdown, ShutdownReturns, Close, Exit, Listen, ListenFails, ServerEnds, Signal,
         SignalKills
<1>1. TypeOK'
  <2>1. CASE Setup \/ Generate \/ Die \/ SignalKills \/ Signal
    BY <2>1 DEF TypeOK, Setup, Generate, Die, SignalKills, Signal, Background
  <2>2. CASE MainQuery \/ MainQueryEnds
    <3>1. <<"main", 1>> \in (Requests \cup Background \cup {"main"}) \X (1 .. Queries)
      BY <1>0
    <3>2. /\ conns' \subseteq conns \cup {<<"main", 1>>}
          /\ UNCHANGED <<mode, main, cancelled, signalled, server, at, number, worker, pool,
                         told>>
      BY <2>2 DEF MainQuery, MainQueryEnds
    <3>3. conns' \subseteq (Requests \cup Background \cup {"main"}) \X (1 .. Queries)
      BY <3>1, <3>2 DEF TypeOK
    <3>. QED  BY <3>2, <3>3 DEF TypeOK
  <2>3. CASE DiscoverEnds \/ BackfillEnds
    BY <2>3 DEF TypeOK, DiscoverEnds, BackfillEnds, Background
  <2>4. CASE Shutdown \/ ShutdownReturns \/ Close \/ Exit
    BY <2>4 DEF TypeOK, Shutdown, ShutdownReturns, Close, Exit
  <2>5. CASE Listen \/ ListenFails \/ ServerEnds
    BY <2>5 DEF TypeOK, Listen, ListenFails, ServerEnds
  <2>. QED  BY <2>1, <2>2, <2>3, <2>4, <2>5 DEF Main
<1>2. ConnsInv'
  <2>1. \A b \in Background : worker'[b] = "query" <=> worker[b] = "query"
    <3>1. CASE Setup
      BY <3>1 DEF Setup, StartInv
    <3>2. CASE DiscoverEnds
      BY <3>2 DEF DiscoverEnds, StartInv
    <3>3. CASE ~Setup /\ ~DiscoverEnds
      BY <3>3 DEF Main, Generate, MainQuery, MainQueryEnds, BackfillEnds, Die, Shutdown,
                  ShutdownReturns, Close, Exit, Listen, ListenFails, ServerEnds, Signal,
                  SignalKills
    <3>. QED  BY <3>1, <3>2, <3>3
  <2>2. \/ UNCHANGED conns
        \/ Cardinality(conns) < MaxConns /\ conns' = conns \cup {<<"main", 1>>}
        \/ conns' = conns \ {<<"main", 1>>}
    BY DEF Main, Setup, Generate, MainQuery, MainQueryEnds, DiscoverEnds, BackfillEnds, Die,
           Shutdown, ShutdownReturns, Close, Exit, Listen, ListenFails, ServerEnds, Signal,
           SignalKills
  <2>3. IsFiniteSet(conns)' /\ (Cardinality(conns) <= MaxConns)'
    BY <2>2, ConnsFacts DEF ConnsInv
  <2>4. \A x \in Requests \cup Background, n \in 1 .. Queries :
           <<x, n>> \in conns' <=> <<x, n>> \in conns
    BY <1>0, <2>2
  <2>. QED  BY <1>0, <2>1, <2>3, <2>4 DEF ConnsInv
<1>3. StartInv' /\ StopInv'
  <2> USE DEF StartInv, StopInv, CutOnlyIfCancelled, Service
  <2>1. CASE Setup
    <3>1. \A b \in Late : worker'[b] = "off"
      BY <2>1, LifecycleAssumption DEF Setup, Background
    <3>2. main' \in {"discover", "wait"} /\ server' = "starting" /\ mode' = mode
      BY <2>1 DEF Setup
    <3>. QED  BY <3>1, <3>2
  <2>2. CASE Generate \/ Die \/ SignalKills \/ Signal
    BY <1>0, <2>2 DEF TypeOK, Generate, Die, SignalKills, Signal
  <2>3. CASE MainQuery \/ MainQueryEnds
    BY <1>0, <2>3 DEF MainQuery, MainQueryEnds
  <2>4. CASE DiscoverEnds
    BY <1>0, <2>4 DEF TypeOK, DiscoverEnds
  <2>5. CASE BackfillEnds
    BY <1>0, <2>5 DEF TypeOK, BackfillEnds
  <2>6. CASE Shutdown \/ ShutdownReturns
    BY <1>0, <2>6 DEF TypeOK, Shutdown, ShutdownReturns
  <2>7. CASE Close \/ Exit
    BY <1>0, <2>7 DEF TypeOK, Close, Exit
  <2>8. CASE Listen \/ ListenFails \/ ServerEnds
    BY <1>0, <2>8 DEF TypeOK, Listen, ListenFails, ServerEnds
  <2>. QED  BY <2>1, <2>2, <2>3, <2>4, <2>5, <2>6, <2>7, <2>8 DEF Main
<1>. QED  BY <1>1, <1>2, <1>3

\* A request takes one connection at a time and gives back the one it has.
LEMMA RequestStep ==
    ASSUME IInv, NEW r \in Requests,
           Arrive(r) \/ Query(r) \/ Refuse(r) \/ QueryEnds(r) \/ Reply(r)
    PROVE  IInv'
<1> USE DEF IInv
<1>0. /\ Queries \in Nat \ {0} /\ 1 \in 1 .. Queries
      /\ at \in [Requests -> {"none", "ask", "query", "reply"}]
      /\ number \in [Requests -> 0 .. Queries]
      /\ at[r] # "none" => number[r] \in 1 .. Queries
      /\ r \notin Background
  BY LifecycleAssumption DEF TypeOK, ConnsInv
<1>1. /\ at' = [at EXCEPT ![r] = at'[r]] /\ at'[r] \in {"none", "ask", "query", "reply"}
      /\ number' = [number EXCEPT ![r] = number'[r]] /\ number'[r] \in 0 .. Queries
      /\ at'[r] # "none" => number'[r] \in 1 .. Queries
      /\ UNCHANGED <<mode, main, cancelled, signalled, server, worker, pool, told>>
  <2>1. CASE Arrive(r)
    BY <1>0, <2>1 DEF Arrive
  <2>2. CASE Query(r)
    BY <1>0, <2>2 DEF Query
  <2>3. CASE Refuse(r)
    BY <1>0, <2>3 DEF Refuse
  <2>4. CASE QueryEnds(r)
    BY <1>0, <2>4 DEF QueryEnds
  <2>5. CASE Reply(r)
    BY <1>0, <2>5 DEF Reply
  <2>. QED  BY <2>1, <2>2, <2>3, <2>4, <2>5
<1>2. /\ IsFiniteSet(conns) /\ Cardinality(conns) <= MaxConns
      /\ \A n \in 1 .. Queries : <<r, n>> \in conns <=> at[r] = "query" /\ number[r] = n
  BY DEF ConnsInv
<1>3. /\ conns' \subseteq (Requests \cup Background \cup {"main"}) \X (1 .. Queries)
      /\ IsFiniteSet(conns') /\ Cardinality(conns') <= MaxConns
      /\ \A n \in 1 .. Queries : <<r, n>> \in conns' <=> at'[r] = "query" /\ number'[r] = n
      /\ \A x \in (Requests \cup Background) \ {r}, n \in 1 .. Queries :
            <<x, n>> \in conns' <=> <<x, n>> \in conns
  <2> USE DEF TypeOK
  <2>1. CASE Arrive(r) \/ Refuse(r) \/ Reply(r)
    BY <1>0, <1>2, <2>1 DEF Arrive, Refuse, Reply
  <2>2. CASE Query(r)
    <3>1. /\ conns' = conns \cup {<<r, number[r]>>} /\ Cardinality(conns) < MaxConns
          /\ at[r] = "ask" /\ at'[r] = "query" /\ number' = number
      BY <1>0, <2>2 DEF Query
    <3>2. IsFiniteSet(conns') /\ Cardinality(conns') <= MaxConns
      BY <1>2, <3>1, ConnsFacts
    <3>. QED  BY <1>0, <1>2, <3>1, <3>2
  <2>3. CASE QueryEnds(r)
    <3>1. /\ conns' = conns \ {<<r, number[r]>>}
          /\ at[r] = "query" /\ at'[r] # "query"
      BY <1>0, <2>3 DEF QueryEnds
    <3>2. IsFiniteSet(conns') /\ Cardinality(conns') <= MaxConns
      BY <1>2, <3>1, ConnsFacts
    <3>. QED  BY <1>0, <1>2, <3>1, <3>2
  <2>. QED  BY <2>1, <2>2, <2>3
<1>4. TypeOK'
  BY <1>0, <1>1, <1>3 DEF TypeOK
<1>5. ConnsInv'
  <2>1. ASSUME NEW s \in Requests
        PROVE  /\ at'[s] # "none" => number'[s] \in 1 .. Queries
               /\ \A n \in 1 .. Queries :
                    <<s, n>> \in conns' <=> at'[s] = "query" /\ number'[s] = n
    <3>1. CASE s = r
      BY <1>1, <1>3, <3>1
    <3>2. CASE s # r
      <4>1. at'[s] = at[s] /\ number'[s] = number[s]
        BY <1>0, <1>1, <3>2
      <4>. QED  BY <1>3, <3>2, <4>1 DEF ConnsInv
    <3>. QED  BY <3>1, <3>2
  <2>2. \A b \in Background, n \in 1 .. Queries :
           <<b, n>> \in conns' <=> worker'[b] = "query" /\ n = 1
    BY <1>0, <1>1, <1>3 DEF ConnsInv
  <2>. QED  BY <1>3, <2>1, <2>2 DEF ConnsInv
<1>6. StartInv' /\ StopInv'
  <2>1. ASSUME Service, main \in {"close", "closing"}, ~cancelled
        PROVE  FALSE
    <3>1. at[r] = "none" /\ server # "serving"
      BY <2>1 DEF StopInv, CutOnlyIfCancelled
    <3>. QED  BY <3>1 DEF Arrive, Query, Refuse, QueryEnds, Reply
  <2>. QED  BY <1>1, <2>1 DEF StartInv, StopInv, CutOnlyIfCancelled, Service
<1>. QED  BY <1>4, <1>5, <1>6

\* So does a goroutine in the background.
LEMMA WorkerStep ==
    ASSUME IInv, NEW b \in Background, Work(b) \/ WorkEnds(b) \/ WorkerEnds(b)
    PROVE  IInv'
<1> USE DEF IInv
<1>0. /\ Queries \in Nat \ {0} /\ 1 \in 1 .. Queries /\ b \notin Requests
      /\ worker \in [Background -> {"off", "run", "query", "ended"}]
      /\ UNCHANGED <<mode, main, cancelled, signalled, server, at, number, pool, told>>
  BY LifecycleAssumption DEF TypeOK, Work, WorkEnds, WorkerEnds
<1>1. /\ IsFiniteSet(conns) /\ Cardinality(conns) <= MaxConns
      /\ \A n \in 1 .. Queries : <<b, n>> \in conns <=> worker[b] = "query" /\ n = 1
  BY DEF ConnsInv
<1>2. /\ worker' = [worker EXCEPT ![b] = worker'[b]]
      /\ worker'[b] \in {"off", "run", "query", "ended"}
      /\ conns' \subseteq (Requests \cup Background \cup {"main"}) \X (1 .. Queries)
      /\ IsFiniteSet(conns') /\ Cardinality(conns') <= MaxConns
      /\ \A n \in 1 .. Queries : <<b, n>> \in conns' <=> worker'[b] = "query" /\ n = 1
      /\ \A x \in (Requests \cup Background) \ {b}, n \in 1 .. Queries :
            <<x, n>> \in conns' <=> <<x, n>> \in conns
  <2> USE DEF TypeOK
  <2>1. CASE Work(b)
    <3>1. /\ conns' = conns \cup {<<b, 1>>} /\ Cardinality(conns) < MaxConns
          /\ worker' = [worker EXCEPT ![b] = "query"] /\ worker'[b] = "query"
      BY <1>0, <2>1 DEF Work
    <3>2. IsFiniteSet(conns') /\ Cardinality(conns') <= MaxConns
      BY <1>1, <3>1, ConnsFacts
    <3>3. worker[b] = "run"
      BY <2>1 DEF Work
    <3>. QED  BY <1>0, <1>1, <3>1, <3>2, <3>3
  <2>2. CASE WorkEnds(b)
    <3>1. /\ conns' = conns \ {<<b, 1>>}
          /\ worker' = [worker EXCEPT ![b] = "run"] /\ worker'[b] = "run"
      BY <1>0, <2>2 DEF WorkEnds
    <3>2. IsFiniteSet(conns') /\ Cardinality(conns') <= MaxConns
      BY <1>1, <3>1, ConnsFacts
    <3>. QED  BY <1>0, <1>1, <3>1, <3>2
  <2>3. CASE WorkerEnds(b)
    BY <1>0, <1>1, <2>3 DEF WorkerEnds
  <2>. QED  BY <2>1, <2>2, <2>3
<1>3. TypeOK'
  BY <1>0, <1>2 DEF TypeOK
<1>4. ConnsInv'
  <2>1. ASSUME NEW c \in Background, NEW n \in 1 .. Queries
        PROVE  <<c, n>> \in conns' <=> worker'[c] = "query" /\ n = 1
    <3>1. CASE c = b
      BY <1>2, <3>1
    <3>2. CASE c # b
      <4>1. worker'[c] = worker[c]
        BY <1>0, <1>2, <3>2
      <4>. QED  BY <1>2, <3>2, <4>1 DEF ConnsInv
    <3>. QED  BY <3>1, <3>2
  <2>2. \A r \in Requests : \A n \in 1 .. Queries : <<r, n>> \in conns' <=> <<r, n>> \in conns
    BY <1>0, <1>2
  <2>. QED  BY <1>0, <1>2, <2>1, <2>2 DEF ConnsInv
<1>5. StopInv'
  BY <1>0 DEF StopInv, CutOnlyIfCancelled, Service
<1>6. StartInv'
  <2>1. worker[b] # "off"
    BY DEF Work, WorkEnds, WorkerEnds
  <2>2. /\ main # "setup"
        /\ main = "discover" => b \notin Late
    BY <2>1 DEF StartInv
  <2>. QED  BY <1>0, <1>2, <2>2 DEF StartInv, Background
<1>. QED  BY <1>3, <1>4, <1>5, <1>6

\* Every step keeps the invariant.
LEMMA StepIInv == IInv /\ [Next]_vars => IInv'
<1> SUFFICES ASSUME IInv, [Next]_vars PROVE IInv'
  OBVIOUS
<1>1. CASE UNCHANGED vars
  BY <1>1 DEF vars, IInv, TypeOK, ConnsInv, StartInv, StopInv, CutOnlyIfCancelled, Service
<1>2. CASE Next
  BY <1>2, MainStep, RequestStep, WorkerStep DEF Next
<1>. QED  BY <1>1, <1>2

----------------------------------------------------------------------------------
(* Theorems. *)

\* Connections and statements correspond, the pool is never overdrawn, and behind
\* srv.Shutdown nothing arrives.
THEOREM LifecycleInvariant == Spec => []IInv
  BY InitIInv, StepIInv, PTL DEF Spec

\* The pool is closed under a request only if the context was cancelled while
\* srv.Shutdown waited.
THEOREM CutOnlyIfCancelledHolds == Spec => []CutOnlyIfCancelled
<1>1. IInv => CutOnlyIfCancelled
  BY DEF IInv, StopInv
<1>. QED  BY <1>1, LifecycleInvariant, PTL
==================================================================================
