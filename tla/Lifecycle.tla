----------------------------- MODULE Lifecycle -----------------------------
(***************************************************************************)
(* The process of cmd/api/main.go: main and the goroutine gracefulShutdown *)
(* that it starts, the connection pool of DBHandler.go, the two limiters    *)
(* and the HTTP server.  net/http and pgxpool are external and modelled by  *)
(* what main relies on: Shutdown closes the listener and the idle           *)
(* connections and waits for the others until its context ends, without     *)
(* stopping them; Close of a pool refuses new statements and waits for the  *)
(* running ones.                                                            *)
(*                                                                         *)
(* A request passes the limiter and then runs statements.  In between its   *)
(* handler may hang for any time.                                           *)
(***************************************************************************)
EXTENDS Naturals

CONSTANTS
    Conns,      \* connections that may be open at a time (a bound)
    MaxSignals  \* SIGINT and SIGTERM, together (a bound)

ASSUME LifecycleAssumption == MaxSignals \in Nat

VARIABLES
    main,      \* where main is
    guard,     \* where gracefulShutdown is
    exit,      \* how the process ended
    signals,   \* signals sent to it
    sigCh,     \* signals in the channel
    listening, \* the listener is open
    timedOut,  \* Shutdown gave up after 30 s
    pool,      \* the database pool
    login,     \* LoginRateLimiter, in memory
    limiter,   \* RateLimiter: in memory or, closed, a closed Redis client
    redis,     \* REDIS_URL is set
    conn,      \* the connections
    cut        \* history: those that found the pool or the client closed

process == <<main, guard, exit, signals, sigCh>>
closers == <<timedOut, pool, login, limiter, redis>>
vars    == <<process, closers, listening, conn, cut>>

Resource == {"none", "open", "closed"}

TypeOK ==
    /\ main \in {"connecting", "building", "starting", "serving", "waiting", "ended"}
    /\ guard \in {"unborn", "notify", "waiting", "shutting", "stopping", "draining",
                  "login", "limiter", "sending", "ended"}
    /\ exit \in {"no", "clean", "fatal", "killed"}
    /\ signals \in 0..MaxSignals
    /\ sigCh \in 0..1
    /\ listening \in BOOLEAN /\ timedOut \in BOOLEAN /\ redis \in BOOLEAN
    /\ pool \in Resource /\ login \in Resource /\ limiter \in Resource
    /\ conn \in [Conns -> {"none", "new", "limit", "handle", "statement", "idle"}]
    /\ cut \subseteq Conns

Init ==
    /\ main = "connecting" /\ guard = "unborn" /\ exit = "no"
    /\ signals = 0 /\ sigCh = 0
    /\ listening = FALSE /\ timedOut = FALSE
    /\ pool = "none" /\ login = "none" /\ limiter = "none"
    /\ redis \in BOOLEAN
    /\ conn = [r \in Conns |-> "none"]
    /\ cut = {}

Running == exit = "no"

Busy == {r \in Conns : conn[r] \in {"limit", "handle", "statement"}}

InStatement == {r \in Conns : conn[r] = "statement"}

InShutdown == guard \notin {"unborn", "notify", "waiting"}

-----------------------------------------------------------------------------
(* main *)

(* log.Fatalf *)
Fatal ==
    /\ main' = "ended"
    /\ exit' = "fatal"
    /\ UNCHANGED <<guard, pool, login, limiter>>

(* DBHandler.Start: a pool that does not answer a ping is closed again. *)
StartDB ==
    /\ Running /\ main = "connecting"
    /\ \/ /\ main' = "building"
          /\ pool' = "open"
          /\ UNCHANGED <<guard, exit, login, limiter>>
       \/ Fatal
    /\ UNCHANGED <<signals, sigCh, timedOut, redis, listening, conn, cut>>

(* NewServer and RegisterRoutes: Redis must answer at the start.  Then      *)
(* go gracefulShutdown(...).                                                *)
BuildServer ==
    /\ Running /\ main = "building"
    /\ \/ /\ main' = "starting"
          /\ guard' = "notify"
          /\ limiter' = "open"
          /\ login' = "open"
          /\ UNCHANGED <<exit, pool>>
       \/ redis /\ Fatal
    /\ UNCHANGED <<signals, sigCh, timedOut, redis, listening, conn, cut>>

(* ListenAndServe fails at once when the port is taken, and returns at once *)
(* when Shutdown came first; main goes on to <-done either way.             *)
Listen ==
    /\ Running /\ main = "starting"
    /\ \/ /\ ~InShutdown
          /\ main' = "serving"
          /\ listening' = TRUE
       \/ /\ main' = "waiting"
          /\ UNCHANGED listening
    /\ UNCHANGED <<guard, exit, signals, sigCh, closers, conn, cut>>

(* ErrServerClosed, as soon as Shutdown has closed the listener. *)
ServeReturns ==
    /\ Running /\ main = "serving"
    /\ ~listening
    /\ main' = "waiting"
    /\ UNCHANGED <<guard, exit, signals, sigCh, closers, listening, conn, cut>>

ReturnAtOnce == main = "waiting" /\ UNCHANGED guard  \* mutant: no <-done

(* done <- true meets <-done. *)
Done ==
    /\ main = "waiting" /\ guard = "sending"
    /\ guard' = "ended"

MainReturns ==
    /\ Running
    /\ Done
    /\ main' = "ended"
    /\ exit' = "clean"
    /\ UNCHANGED <<signals, sigCh, closers, listening, conn, cut>>

Main == StartDB \/ BuildServer \/ Listen \/ ServeReturns \/ MainReturns

-----------------------------------------------------------------------------
(* gracefulShutdown *)

Unbounded(n) == n + 1  \* mutant: a channel that takes every signal

Buffered(n) == 1

(* Until signal.Notify a signal ends the process; then the runtime puts it  *)
(* into the channel, if there is room.                                      *)
Signal ==
    /\ Running
    /\ signals < MaxSignals
    /\ signals' = signals + 1
    /\ IF guard \in {"unborn", "notify"}
       THEN exit' = "killed" /\ UNCHANGED sigCh
       ELSE sigCh' = Buffered(sigCh) /\ UNCHANGED exit
    /\ UNCHANGED <<main, guard, closers, listening, conn, cut>>

Notify ==
    /\ Running /\ guard = "notify"
    /\ guard' = "waiting"
    /\ UNCHANGED <<main, exit, signals, sigCh, closers, listening, conn, cut>>

(* <-sigCh, and Shutdown as far as its first look at the connections. *)
BeginShutdown ==
    /\ Running /\ guard = "waiting"
    /\ sigCh = 1
    /\ sigCh' = 0
    /\ guard' = "shutting"
    /\ listening' = FALSE
    /\ conn' = [r \in Conns |-> IF conn[r] = "idle" THEN "none" ELSE conn[r]]
    /\ UNCHANGED <<main, exit, signals, closers, cut>>

QuietOnce == Busy # Conns  \* mutant: one quiet connection is enough

Quiet == Busy = {}

NeverTimesOut == FALSE  \* mutant: Shutdown(context.Background())

TimesOut == TRUE

(* Quiet: connections that have sent nothing for 5 s are closed too.  Timed  *)
(* out: whatever is open stays open.                                         *)
ShutdownReturns ==
    /\ Running /\ guard = "shutting"
    /\ guard' = "stopping"
    /\ \/ /\ Quiet
          /\ conn' = [r \in Conns |-> IF r \in Busy THEN conn[r] ELSE "none"]
          /\ UNCHANGED timedOut
       \/ /\ TimesOut
          /\ timedOut' = TRUE
          /\ UNCHANGED conn
    /\ UNCHANGED <<main, exit, signals, sigCh, pool, login, limiter, redis, listening, cut>>

(* dbHandler.Stop: the pool refuses statements, and then waits. *)
StopDB ==
    /\ Running /\ guard = "stopping"
    /\ guard' = "draining"
    /\ pool' = "closed"
    /\ UNCHANGED <<main, exit, signals, sigCh, timedOut, login, limiter, redis,
                   listening, conn, cut>>

Drained == InStatement = {}

DBStopped ==
    /\ Running /\ guard = "draining"
    /\ Drained
    /\ guard' = "login"
    /\ UNCHANGED <<main, exit, signals, sigCh, closers, listening, conn, cut>>

CloseLogin ==
    /\ Running /\ guard = "login"
    /\ guard' = "limiter"
    /\ login' = "closed"
    /\ UNCHANGED <<main, exit, signals, sigCh, timedOut, pool, limiter, redis,
                   listening, conn, cut>>

CloseLimiter ==
    /\ Running /\ guard = "limiter"
    /\ guard' = "sending"
    /\ limiter' = "closed"
    /\ UNCHANGED <<main, exit, signals, sigCh, timedOut, pool, login, redis,
                   listening, conn, cut>>

Shutdown ==
    \/ Notify \/ BeginShutdown \/ ShutdownReturns \/ StopDB \/ DBStopped
    \/ CloseLogin \/ CloseLimiter

-----------------------------------------------------------------------------
(* Connections and their requests *)

Goes(r, next) ==
    /\ conn' = [conn EXCEPT ![r] = next]
    /\ UNCHANGED <<process, closers, listening>>

Accept(r) ==
    /\ Running /\ listening
    /\ conn[r] = "none"
    /\ Goes(r, "new")
    /\ cut' = cut \ {r}

(* The first request of a connection, or the next one. *)
Begin(r) ==
    /\ Running
    /\ conn[r] \in {"new", "idle"}
    /\ Goes(r, "limit")
    /\ UNCHANGED cut

(* The middleware lets the request through when the limiter fails. *)
Limit(r) ==
    /\ Running
    /\ conn[r] = "limit"
    /\ Goes(r, "handle")
    /\ cut' = IF redis /\ limiter = "closed" THEN cut \cup {r} ELSE cut

Query(r) ==
    /\ Running
    /\ conn[r] = "handle"
    /\ \/ /\ pool = "open"
          /\ Goes(r, "statement")
          /\ UNCHANGED cut
       \/ /\ pool = "closed"
          /\ Goes(r, "handle")
          /\ cut' = cut \cup {r}

StatementEnds(r) ==
    /\ Running
    /\ conn[r] = "statement"
    /\ Goes(r, "handle")
    /\ UNCHANGED cut

(* A server that shuts down keeps no connection alive. *)
Answer(r) ==
    /\ Running
    /\ conn[r] = "handle"
    /\ Goes(r, IF InShutdown THEN "none" ELSE "idle")
    /\ UNCHANGED cut

HangUp(r) ==
    /\ Running
    /\ conn[r] \in {"new", "idle"}
    /\ Goes(r, "none")
    /\ UNCHANGED cut

Serve(r) ==
    \/ Accept(r) \/ Begin(r) \/ Limit(r) \/ Query(r) \/ StatementEnds(r)
    \/ Answer(r) \/ HangUp(r)

Next == Main \/ Signal \/ Shutdown \/ \E r \in Conns : Serve(r)

(* The two goroutines run, 30 s pass, and a statement ends, with an error at *)
(* the latest.  A handler may hang all the same: no other step has to come.  *)
Fairness ==
    /\ WF_vars(Main) /\ WF_vars(Shutdown)
    /\ \A r \in Conns : WF_vars(StatementEnds(r))

Spec == Init /\ [][Next]_vars /\ Fairness

-----------------------------------------------------------------------------
(* Properties *)

(* The pool and the Redis client are closed under no request, unless it      *)
(* outlived the 30 s that Shutdown waits (main.go:34-49).                    *)
NothingCutOff == cut # {} => timedOut

(* When main returns, and all goroutines die with it, the pool and both      *)
(* limiters are closed, no statement is running, and no request is served    *)
(* that did not outlive Shutdown (main.go:39-52, :85).                       *)
EndsTidily ==
    exit = "clean" =>
        /\ pool = "closed" /\ login = "closed" /\ limiter = "closed"
        /\ InStatement = {}
        /\ Busy # {} => timedOut

(* A signal ends the process, whatever the handlers do: before Notify at     *)
(* once, while ListenAndServe is starting, serving or has failed by way of   *)
(* gracefulShutdown (main.go:25, :80, :85).                                  *)
SignalEndsProcess == signals > 0 ~> exit # "no"
=============================================================================
