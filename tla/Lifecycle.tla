--------------------------------- MODULE Lifecycle --------------------------------
(***************************************************************************)
(* The life of a process: cmd/tracker/main.go with the goroutines it starts,  *)
(* the HTTP server, the pool of database connections and the two ways to be   *)
(* told to stop, a signal and the failure of the server.                     *)
(*                                                                         *)
(* One context is behind everything.  Nothing waits for a goroutine to end:   *)
(* main returns when srv.Shutdown has, and pool.Close, a deferred call, waits *)
(* for connections that are in use.  Signals are only read where main waits.  *)
(* ListenAndServe returns as soon as Shutdown is called, with an error like    *)
(* any other, at which the server's goroutine cancels the context.           *)
(*                                                                         *)
(* net/http and pgxpool are external, and modelled by what main relies on.    *)
(***************************************************************************)
EXTENDS FiniteSets, Integers

CONSTANTS
    Requests,       \* requests that may be under way at a time
    Early,          \* goroutines started before the discovery: the price backfill
    Late,           \* after it: the processor, parked or not, and the refresh
    MaxConns,       \* connections of the pool
    Queries         \* statements of a handler, one after the other

Background == Early \cup Late

ASSUME LifecycleAssumption ==
    /\ MaxConns \in Nat \ {0} /\ Queries \in Nat \ {0}
    /\ Requests \cap Background = {} /\ "main" \notin Requests \cup Background
    /\ Early \cap Late = {}

Modes == {"service", "server-only", "backfill", "generate-json"}

VARIABLES
    mode,           \* from the flags; without a seed contract, server-only
    main,           \* where main is
    cancelled,      \* ctx is done
    signalled,      \* a signal in sigCh
    server,         \* srv.Start and its goroutine
    at, number,     \* of each request: what it is at, and with which statement
    worker,         \* of each goroutine in the background
    pool,
    conns,          \* connections in use: by whom and for which statement
    told            \* history: what told the process to stop, a signal main listens to
                    \* or the failure of its server

vars == <<mode, main, cancelled, signalled, server, at, number, worker, pool, conns,
          told>>

Running == main \notin {"exited", "died"}

TypeOK ==
    /\ mode \in Modes
    /\ main \in {"setup", "discover", "backfill", "wait", "shutdown", "close",
                 "closing", "exited", "died"}
    /\ cancelled \in BOOLEAN /\ signalled \in BOOLEAN
    /\ told \subseteq {"signal", "failure"}
    /\ server \in {"off", "starting", "serving", "stopped", "ended"}
    /\ at \in [Requests -> {"none", "ask", "query", "reply"}]
    /\ number \in [Requests -> 0 .. Queries]
    /\ worker \in [Background -> {"off", "run", "query", "ended"}]
    /\ pool \in {"open", "closed"}
    /\ conns \subseteq (Requests \cup Background \cup {"main"}) \X (1 .. Queries)

Init ==
    /\ mode \in Modes
    /\ main = "setup"
    /\ cancelled = FALSE /\ signalled = FALSE /\ told = {}
    /\ server = "off"
    /\ at = [r \in Requests |-> "none"]
    /\ number = [r \in Requests |-> 0]
    /\ worker = [b \in Background |-> "off"]
    /\ pool = "open"
    /\ conns = {}

----------------------------------------------------------------------------------
(* main. *)

\* Database and schema are there: signals are listened to, the price backfill and
\* the server's goroutine start, main goes on to discovery.
Setup ==
    /\ main = "setup" /\ mode # "generate-json"
    /\ main' = IF mode = "server-only" THEN "wait" ELSE "discover"
    /\ server' = "starting"
    /\ worker' = [b \in Background |-> IF b \in Early THEN "run" ELSE "off"]
    /\ UNCHANGED <<mode, cancelled, signalled, at, number, pool, conns, told>>

\* --generate-json writes its file and returns.
Generate ==
    /\ main = "setup" /\ mode = "generate-json"
    /\ main' = "close"
    /\ UNCHANGED <<mode, cancelled, signalled, server, at, number, worker, pool, conns,
                   told>>

\* os.Exit(1): no connection to the database or the node, no schema, no file; a
\* backfill that cannot read the cursor or has nothing to query.
Die ==
    /\ main \in {"setup", "discover", "backfill"}
    /\ main' = "died"
    /\ UNCHANGED <<mode, cancelled, signalled, server, at, number, worker, pool, conns,
                   told>>

\* Discovery and the backfill run in main's goroutine and use the pool too.
MainQuery ==
    /\ main \in {"discover", "backfill"}
    /\ ~cancelled
    /\ Cardinality(conns) < MaxConns
    /\ conns' = conns \cup {<<"main", 1>>}
    /\ UNCHANGED <<mode, main, cancelled, signalled, server, at, number, worker, pool,
                   told>>

MainQueryEnds ==
    /\ <<"main", 1>> \in conns
    /\ conns' = conns \ {<<"main", 1>>}
    /\ UNCHANGED <<mode, main, cancelled, signalled, server, at, number, worker, pool,
                   told>>

\* disc.Run only logs what fails, a cancelled context among it.
DiscoverEnds ==
    /\ main = "discover" /\ <<"main", 1>> \notin conns
    /\ main' = IF mode = "backfill" THEN "backfill" ELSE "wait"
    /\ worker' = IF mode = "backfill" THEN worker
                 ELSE [b \in Background |-> IF b \in Late THEN "run" ELSE worker[b]]
    /\ UNCHANGED <<mode, cancelled, signalled, server, at, number, pool, conns, told>>

\* The backfill returns without a look at sigCh, and without srv.Shutdown.
BackfillEnds ==
    /\ main = "backfill" /\ <<"main", 1>> \notin conns
    /\ main' = "close"
    /\ UNCHANGED <<mode, cancelled, signalled, server, at, number, worker, pool, conns,
                   told>>

\* Mutant of Shutdown: only a signal ends the wait.
ShutdownOnSignal ==
    /\ main = "wait"
    /\ signalled
    /\ main' = "shutdown"
    /\ server' = IF server = "ended" THEN server ELSE "stopped"
    /\ UNCHANGED <<mode, cancelled, signalled, at, number, worker, pool, conns, told>>

\* The wait is over.  srv.Shutdown closes the listener ...
Shutdown ==
    /\ main = "wait"
    /\ signalled \/ cancelled
    /\ main' = "shutdown"
    /\ server' = IF server = "ended" THEN server ELSE "stopped"
    /\ UNCHANGED <<mode, cancelled, signalled, at, number, worker, pool, conns, told>>

\* ... and returns when no request is under way, or when its context is done.
ShutdownReturns ==
    /\ main = "shutdown"
    /\ (\A r \in Requests : at[r] = "none") \/ cancelled
    /\ main' = "close"
    /\ UNCHANGED <<mode, cancelled, signalled, server, at, number, worker, pool, conns,
                   told>>

\* The deferred calls: pool.Close gives out no more connections and waits for those
\* in use, then cancel.
Close ==
    /\ main = "close"
    /\ main' = "closing"
    /\ pool' = "closed"
    /\ UNCHANGED <<mode, cancelled, signalled, server, at, number, worker, conns, told>>

Exit ==
    /\ main = "closing"
    /\ conns = {}
    /\ main' = "exited"
    /\ cancelled' = TRUE
    /\ UNCHANGED <<mode, signalled, server, at, number, worker, pool, conns, told>>

----------------------------------------------------------------------------------
(* The server's goroutine. *)

Listen ==
    /\ server = "starting"
    /\ server' = "serving"
    /\ UNCHANGED <<mode, main, cancelled, signalled, at, number, worker, pool, conns,
                   told>>

\* The port is taken, or the listener fails later.
ListenFails ==
    /\ server \in {"starting", "serving"}
    /\ server' = "stopped"
    /\ told' = told \cup {"failure"}
    /\ UNCHANGED <<mode, main, cancelled, signalled, at, number, worker, pool, conns>>

\* ListenAndServe has returned: always an error, also after Shutdown.
ServerEnds ==
    /\ server = "stopped"
    /\ server' = "ended"
    /\ cancelled' = TRUE
    /\ UNCHANGED <<mode, main, signalled, at, number, worker, pool, conns, told>>

----------------------------------------------------------------------------------
(* Requests. *)

\* Mutant of Arrive: connections are taken after Shutdown as well.
ArriveLate(r) ==
    /\ server \in {"serving", "stopped", "ended"}
    /\ at[r] = "none"
    /\ at' = [at EXCEPT ![r] = "ask"]
    /\ number' = [number EXCEPT ![r] = 1]
    /\ UNCHANGED <<mode, main, cancelled, signalled, server, worker, pool, conns, told>>

Arrive(r) ==
    /\ server = "serving"
    /\ at[r] = "none"
    /\ at' = [at EXCEPT ![r] = "ask"]
    /\ number' = [number EXCEPT ![r] = 1]
    /\ UNCHANGED <<mode, main, cancelled, signalled, server, worker, pool, conns, told>>

\* Its context is the request's own, not ctx.
Query(r) ==
    /\ at[r] = "ask"
    /\ pool = "open"
    /\ Cardinality(conns) < MaxConns
    /\ conns' = conns \cup {<<r, number[r]>>}
    /\ at' = [at EXCEPT ![r] = "query"]
    /\ UNCHANGED <<mode, main, cancelled, signalled, server, number, worker, pool,
                   told>>

\* A closed pool is an error like any other: the handler answers 500, or leaves out
\* the part.
Refuse(r) ==
    /\ at[r] = "ask"
    /\ pool = "closed"
    /\ at' = [at EXCEPT ![r] = "reply"]
    /\ UNCHANGED <<mode, main, cancelled, signalled, server, number, worker, pool,
                   conns, told>>

\* Mutant of QueryEnds: the rows stay open until the handler returns.
QueryEndsOpen(r) ==
    /\ at[r] = "query"
    /\ IF number[r] < Queries
       THEN /\ at' = [at EXCEPT ![r] = "ask"]
            /\ number' = [number EXCEPT ![r] = @ + 1]
            /\ UNCHANGED conns
       ELSE /\ at' = [at EXCEPT ![r] = "reply"]
            /\ conns' = {c \in conns : c[1] # r}
            /\ UNCHANGED number
    /\ UNCHANGED <<mode, main, cancelled, signalled, server, worker, pool, told>>

\* The rows were read to their end, which returns the connection, although
\* handleBreakdown closes them only on return.  Then the next statement or, with the
\* last one or an error, the answer.
QueryEnds(r) ==
    /\ at[r] = "query"
    /\ conns' = conns \ {<<r, number[r]>>}
    /\ \/ /\ number[r] < Queries
          /\ number' = [number EXCEPT ![r] = @ + 1]
          /\ at' = [at EXCEPT ![r] = "ask"]
       \/ /\ at' = [at EXCEPT ![r] = "reply"]
          /\ UNCHANGED number
    /\ UNCHANGED <<mode, main, cancelled, signalled, server, worker, pool, told>>

Reply(r) ==
    /\ at[r] = "reply"
    /\ at' = [at EXCEPT ![r] = "none"]
    /\ number' = [number EXCEPT ![r] = 0]
    /\ UNCHANGED <<mode, main, cancelled, signalled, server, worker, pool, conns, told>>

----------------------------------------------------------------------------------
(* Goroutines in the background; their statements run under ctx. *)

Work(b) ==
    /\ worker[b] = "run"
    /\ ~cancelled /\ pool = "open"
    /\ Cardinality(conns) < MaxConns
    /\ conns' = conns \cup {<<b, 1>>}
    /\ worker' = [worker EXCEPT ![b] = "query"]
    /\ UNCHANGED <<mode, main, cancelled, signalled, server, at, number, pool, told>>

WorkEnds(b) ==
    /\ worker[b] = "query"
    /\ conns' = conns \ {<<b, 1>>}
    /\ worker' = [worker EXCEPT ![b] = "run"]
    /\ UNCHANGED <<mode, main, cancelled, signalled, server, at, number, pool, told>>

\* The loop sees that ctx is done; the price backfill also ends by itself.
WorkerEnds(b) ==
    /\ worker[b] = "run"
    /\ cancelled \/ b \in Early
    /\ worker' = [worker EXCEPT ![b] = "ended"]
    /\ UNCHANGED <<mode, main, cancelled, signalled, server, at, number, pool, conns,
                   told>>

----------------------------------------------------------------------------------

\* Mutant of Signal: a channel without a buffer takes a signal only from who waits.
SignalUnbuffered ==
    /\ main # "setup" /\ mode # "generate-json"
    /\ told' = told \cup {"signal"}
    /\ signalled' = (signalled \/ main = "wait")
    /\ UNCHANGED <<mode, main, cancelled, server, at, number, worker, pool, conns>>

Signal ==
    /\ main # "setup" /\ mode # "generate-json"
    /\ told' = told \cup {"signal"}
    /\ signalled' = TRUE
    /\ UNCHANGED <<mode, main, cancelled, server, at, number, worker, pool, conns>>

\* Before signal.Notify it ends the process at once.
SignalKills ==
    /\ main = "setup" \/ mode = "generate-json"
    /\ main' = "died"
    /\ UNCHANGED <<mode, cancelled, signalled, server, at, number, worker, pool, conns,
                   told>>

Main == \/ Setup \/ Generate \/ MainQueryEnds
        \/ Shutdown \/ ShutdownReturns \/ Close \/ Exit

\* With the process everything ends, whatever it was at.
Next ==
    /\ Running
    /\ \/ Main \/ MainQuery \/ DiscoverEnds \/ BackfillEnds \/ Die
       \/ Listen \/ ListenFails \/ ServerEnds
       \/ \E r \in Requests : \/ Arrive(r) \/ Query(r) \/ Refuse(r)
                              \/ QueryEnds(r) \/ Reply(r)
       \/ \E b \in Background : Work(b) \/ WorkEnds(b) \/ WorkerEnds(b)
       \/ Signal \/ SignalKills

Spec == Init /\ [][Next]_vars

\* Go runs every goroutine that can run, statements and the rest of a handler end
\* (WriteTimeout), discovery and backfill end (their calls have timeouts), and the
\* pool serves those who wait in their turn.
FairSpec ==
    /\ Spec
    /\ WF_vars(Running /\ Main) /\ WF_vars(Running /\ ServerEnds)
    /\ SF_vars(Running /\ (DiscoverEnds \/ BackfillEnds))
    /\ \A r \in Requests : /\ WF_vars(Running /\ (Refuse(r) \/ QueryEnds(r) \/ Reply(r)))
                           /\ SF_vars(Running /\ Query(r))
    /\ \A b \in Background : WF_vars(Running /\ WorkEnds(b))

----------------------------------------------------------------------------------
(* Properties. *)

Service == mode \in {"service", "server-only"}

\* Once a service has left srv.Shutdown, a request is still under way only if the
\* context was cancelled meanwhile: the pool is closed under nobody else.
CutOnlyIfCancelled ==
    Service /\ main \in {"close", "closing"} /\ ~cancelled
        => \A r \in Requests : at[r] = "none"

\* A connection is in use for as long as its statement runs, and given back before
\* its owner asks for another.
ConnsInv ==
    /\ \A r \in Requests :
        /\ at[r] # "none" => number[r] \in 1 .. Queries
        /\ \A n \in 1 .. Queries :
             <<r, n>> \in conns <=> at[r] = "query" /\ number[r] = n
    /\ \A b \in Background, n \in 1 .. Queries :
         <<b, n>> \in conns <=> worker[b] = "query" /\ n = 1
    /\ IsFiniteSet(conns) /\ Cardinality(conns) <= MaxConns

\* What main has not started yet is off.
StartInv ==
    /\ main = "setup" => \A b \in Background : worker[b] = "off"
    /\ main = "discover" => \A b \in Late : worker[b] = "off"
    /\ main \in {"discover", "backfill", "wait"} => server # "off"

\* Behind srv.Shutdown nothing arrives any more.
StopInv ==
    /\ main = "backfill" => mode = "backfill"
    /\ Service /\ main \in {"shutdown", "close", "closing"}
         => server \in {"stopped", "ended"}
    /\ CutOnlyIfCancelled

IInv == TypeOK /\ ConnsInv /\ StartInv /\ StopInv

\* A signal stops the process, also one that comes during discovery or a backfill,
\* with requests and statements under way and a processor that idles for ever.
SignalStops == "signal" \in told ~> ~Running

\* So does a server that cannot listen.
ServerFailureStops == server \in {"stopped", "ended"} ~> ~Running

\* A request is answered, however few the connections, unless the process ends.
RequestsAnswered == \A r \in Requests : at[r] # "none" ~> at[r] = "none" \/ ~Running

----------------------------------------------------------------------------------
(* A statement of the comments that the code breaks. *)

\* "Graceful shutdown" (main.go:204), "Shutdown gracefully shuts down the server"
\* (server.go:70): requests under way are finished when a signal, and nothing
\* else, stops the service.
GracefulShutdown ==
    Service /\ main = "close" /\ told = {"signal"} =>
        \A r \in Requests : at[r] = "none"
==================================================================================
