-------------------------- MODULE LifecycleProofs --------------------------
(***************************************************************************)
(* Proofs about Lifecycle, for any number of connections and of signals.   *)
(***************************************************************************)
EXTENDS Lifecycle, TLAPS

USE LifecycleAssumption DEF LifecycleAssumption

-----------------------------------------------------------------------------
(* The inductive invariant.  What is closed follows from how far            *)
(* gracefulShutdown has come; what requests can still meet it follows from  *)
(* the listener, closed since BeginShutdown, and from how Shutdown          *)
(* returned.                                                                *)

Served   == {"draining", "login", "limiter", "sending", "ended"}
Returned == Served \cup {"stopping"}
Stopped  == Served \ {"draining"}

Unserved == \A r \in Conns : conn[r] = "none"

(* gracefulShutdown is not born before the server is built. *)
BornLate == main \in {"connecting", "building"} => guard = "unborn"

ListenerClosed == InShutdown => ~listening

QuietOrTimedOut == guard \in Returned => timedOut \/ Unserved

PoolFollows ==
    /\ pool = "closed" <=> guard \in Served
    /\ guard \in Stopped => InStatement = {}

LimitersFollow ==
    /\ guard \in Stopped \ {"login"} => login = "closed"
    /\ limiter = "closed" <=> guard \in {"sending", "ended"}

EndFollows == exit = "clean" => guard = "ended"

Stages ==
    /\ BornLate /\ ListenerClosed /\ QuietOrTimedOut /\ PoolFollows
    /\ LimitersFollow /\ EndFollows

IInv == TypeOK /\ Stages /\ NothingCutOff

(* main starts with nothing open and nobody connected. *)
LEMMA InitInv == Init => IInv
<1> SUFFICES ASSUME Init PROVE IInv
  OBVIOUS
<1>1. TypeOK
  <2>1. /\ listening \in BOOLEAN /\ timedOut \in BOOLEAN /\ redis \in BOOLEAN
        /\ conn \in [Conns -> {"none", "new", "limit", "handle", "statement", "idle"}]
        /\ cut \subseteq Conns
    BY DEF Init
  <2>2. signals \in 0..MaxSignals /\ sigCh \in 0..1
    BY DEF Init
  <2> QED
    BY <2>1, <2>2 DEF Init, TypeOK, Resource
<1>2. Stages
  BY DEF Init, Stages, BornLate, ListenerClosed, QuietOrTimedOut, PoolFollows,
         LimitersFollow, EndFollows, InShutdown, Served, Returned, Stopped
<1> QED
  BY <1>1, <1>2 DEF Init, IInv, NothingCutOff

-----------------------------------------------------------------------------
(* A step of main leaves the connections alone.  Only Listen opens the      *)
(* listener, and not once Shutdown has begun.                               *)
LEMMA MainStep ==
    ASSUME IInv, Main
    PROVE  IInv'
<1> USE DEF IInv, Stages, NothingCutOff, BornLate, ListenerClosed,
            QuietOrTimedOut, PoolFollows, LimitersFollow, EndFollows,
            InShutdown, InStatement, Unserved, Served, Returned, Stopped
<1>1. CASE StartDB
  <2>1. TypeOK'
    BY <1>1 DEF StartDB, Fatal, TypeOK, Resource
  <2> QED
    BY <1>1, <2>1 DEF StartDB, Fatal, Running
<1>2. CASE BuildServer
  <2>1. TypeOK'
    BY <1>2 DEF BuildServer, Fatal, TypeOK, Resource
  <2> QED
    BY <1>2, <2>1 DEF BuildServer, Fatal, Running
<1>3. CASE Listen
  <2>1. TypeOK'
    BY <1>3 DEF Listen, closers, TypeOK, Resource
  <2> QED
    BY <1>3, <2>1 DEF Listen, closers, Running
<1>4. CASE ServeReturns
  <2>1. TypeOK'
    BY <1>4 DEF ServeReturns, closers, TypeOK, Resource
  <2> QED
    BY <1>4, <2>1 DEF ServeReturns, closers, Running
<1>5. CASE MainReturns
  <2>1. TypeOK'
    BY <1>5 DEF MainReturns, Done, closers, TypeOK, Resource
  <2> QED
    BY <1>5, <2>1 DEF MainReturns, Done, closers, Running
<1> QED
  BY <1>1, <1>2, <1>3, <1>4, <1>5 DEF Main

(* A signal moves nothing but the channel, or ends the process. *)
LEMMA SignalStep ==
    ASSUME IInv, Signal
    PROVE  IInv'
<1>1. TypeOK'
  BY DEF IInv, Signal, Buffered, closers, TypeOK, Resource
<1> QED
  BY <1>1 DEF IInv, Signal, closers, Stages, NothingCutOff, BornLate,
       ListenerClosed, QuietOrTimedOut, PoolFollows, LimitersFollow, EndFollows,
       InShutdown, InStatement, Unserved, Served, Returned, Stopped, Running

(* Shutdown returns with every connection gone, or timed out. *)
LEMMA ShutdownReturnsStep ==
    ASSUME IInv, ShutdownReturns
    PROVE  IInv'
<1>1. TypeOK'
  <2>1. conn' \in [Conns -> {"none", "new", "limit", "handle", "statement", "idle"}]
    BY DEF IInv, ShutdownReturns, TypeOK
  <2>2. timedOut' \in BOOLEAN
    BY DEF IInv, ShutdownReturns, TypeOK
  <2>3. /\ guard' = "stopping"
        /\ UNCHANGED <<main, exit, signals, sigCh, pool, login, limiter, redis,
                       listening, cut>>
    BY DEF ShutdownReturns
  <2> QED
    BY <2>1, <2>2, <2>3 DEF IInv, TypeOK, Resource
<1>2. (timedOut \/ Unserved)'
  BY DEF IInv, ShutdownReturns, Quiet, Unserved
<1>3. cut' # {} => timedOut'
  BY DEF IInv, ShutdownReturns, NothingCutOff, TypeOK
<1>4. BornLate' /\ ListenerClosed' /\ LimitersFollow' /\ EndFollows'
  BY DEF IInv, Stages, ShutdownReturns, BornLate, ListenerClosed,
         LimitersFollow, EndFollows, InShutdown, Served, Stopped, Running
<1>5. PoolFollows' /\ QuietOrTimedOut'
  BY <1>2 DEF IInv, Stages, ShutdownReturns, PoolFollows, QuietOrTimedOut,
         Served, Stopped, Returned
<1> QED
  BY <1>1, <1>3, <1>4, <1>5 DEF IInv, Stages, NothingCutOff

(* Idle connections are closed with the listener; the others stay as they   *)
(* are.                                                                     *)
LEMMA BeginShutdownStep ==
    ASSUME IInv, BeginShutdown
    PROVE  IInv'
<1>1. conn' \in [Conns -> {"none", "new", "limit", "handle", "statement", "idle"}]
  BY DEF IInv, TypeOK, BeginShutdown
<1>2. TypeOK'
  <2>1. /\ guard' = "shutting" /\ sigCh' = 0
        /\ UNCHANGED <<main, exit, signals, timedOut, pool, login, limiter, redis, cut>>
    BY DEF BeginShutdown, closers
  <2>2. listening' \in BOOLEAN
    BY DEF BeginShutdown
  <2> QED
    BY <1>1, <2>1, <2>2 DEF IInv, TypeOK, Resource
<1>3. guard = "waiting" /\ guard' = "shutting" /\ Running
  BY DEF BeginShutdown
<1>4. Stages'
  BY <1>3 DEF IInv, Stages, BeginShutdown, closers, BornLate, ListenerClosed,
     QuietOrTimedOut, PoolFollows, LimitersFollow, EndFollows, Served, Returned,
     Stopped, Running
<1>5. NothingCutOff'
  BY DEF IInv, NothingCutOff, BeginShutdown, closers
<1> QED
  BY <1>2, <1>4, <1>5 DEF IInv

(* gracefulShutdown closes one thing after the other. *)
LEMMA ShutdownStep ==
    ASSUME IInv, Shutdown
    PROVE  IInv'
<1> USE DEF IInv, Stages, NothingCutOff, BornLate, ListenerClosed,
            QuietOrTimedOut, PoolFollows, LimitersFollow, EndFollows,
            InShutdown, InStatement, Unserved, Served, Returned, Stopped
<1>1. CASE Notify
  <2>1. TypeOK'
    BY <1>1 DEF Notify, closers, TypeOK, Resource
  <2> QED
    BY <1>1, <2>1 DEF Notify, closers, Running
<1>2. CASE BeginShutdown
  BY <1>2, BeginShutdownStep
<1>3. CASE StopDB
  <2>1. TypeOK'
    BY <1>3 DEF StopDB, TypeOK, Resource
  <2> QED
    BY <1>3, <2>1 DEF StopDB, Running
<1>4. CASE DBStopped
  <2>1. TypeOK'
    BY <1>4 DEF DBStopped, closers, TypeOK, Resource
  <2> QED
    BY <1>4, <2>1 DEF DBStopped, Drained, closers, Running
<1>5. CASE CloseLogin
  <2>1. TypeOK'
    BY <1>5 DEF CloseLogin, TypeOK, Resource
  <2> QED
    BY <1>5, <2>1 DEF CloseLogin, Running
<1>6. CASE CloseLimiter
  <2>1. TypeOK'
    BY <1>6 DEF CloseLimiter, TypeOK, Resource
  <2> QED
    BY <1>6, <2>1 DEF CloseLimiter, Running
<1> QED
  BY <1>1, <1>2, ShutdownReturnsStep, <1>3, <1>4, <1>5, <1>6 DEF Shutdown

-----------------------------------------------------------------------------
(* A connection moves by itself: it keeps the invariant if it starts no     *)
(* statement on a closed pool, is opened only while the server listens, and *)
(* is cut off only after Shutdown has timed out.                            *)
LEMMA ConnMoves ==
    ASSUME IInv, NEW r \in Conns, NEW next, Goes(r, next),
           next \in {"none", "new", "limit", "handle", "statement", "idle"},
           next = "statement" => pool = "open",
           conn[r] = "none" => listening,
           cut' \subseteq cut \cup {r},
           cut' \subseteq cut \/ timedOut
    PROVE  IInv'
<1> USE DEF Goes, process, closers
<1>1. TypeOK'
  BY DEF IInv, TypeOK, Resource
<1>2. NothingCutOff'
  BY DEF IInv, NothingCutOff
<1>3. BornLate' /\ ListenerClosed' /\ LimitersFollow' /\ EndFollows'
  BY DEF IInv, Stages, BornLate, ListenerClosed, LimitersFollow, EndFollows,
         InShutdown
<1>4. QuietOrTimedOut'
  BY DEF IInv, Stages, QuietOrTimedOut, ListenerClosed, InShutdown, Unserved,
         Returned, Served
<1>5. PoolFollows'
  BY DEF IInv, Stages, PoolFollows, InStatement, Served, Stopped, TypeOK
<1> QED
  BY <1>1, <1>2, <1>3, <1>4, <1>5 DEF IInv, Stages

(* A request that meets a closed pool or a closed client is there only      *)
(* because Shutdown gave up.                                                *)
LEMMA ServeStep ==
    ASSUME IInv, NEW r \in Conns, Serve(r)
    PROVE  IInv'
<1>1. \/ pool = "closed" /\ conn[r] # "none"
      \/ limiter = "closed" /\ conn[r] # "none"
      => timedOut
  BY DEF IInv, Stages, PoolFollows, LimitersFollow, QuietOrTimedOut, Unserved,
         Served, Returned
<1>2. CASE Accept(r)
  BY <1>2, ConnMoves DEF Accept
<1>3. CASE Begin(r)
  BY <1>3, ConnMoves DEF Begin
<1>4. CASE Limit(r)
  <2>1. (redis /\ limiter = "closed" => timedOut) /\ conn[r] # "none"
    BY <1>1, <1>4 DEF Limit
  <2>2. Goes(r, "handle") /\ cut' \subseteq cut \cup {r} /\ (cut' \subseteq cut \/ timedOut)
    BY <1>4, <2>1 DEF Limit
  <2> QED
    BY <2>1, <2>2, ConnMoves
<1>5. CASE Query(r)
  <2>1. CASE pool = "open" /\ Goes(r, "statement") /\ UNCHANGED cut
    BY <1>5, <2>1, ConnMoves DEF Query
  <2>2. CASE pool = "closed" /\ Goes(r, "handle") /\ cut' = cut \cup {r}
    BY <1>1, <1>5, <2>2, ConnMoves DEF Query
  <2> QED
    BY <1>5, <2>1, <2>2 DEF Query
<1>6. CASE StatementEnds(r)
  BY <1>6, ConnMoves DEF StatementEnds
<1>7. CASE Answer(r)
  BY <1>7, ConnMoves DEF Answer
<1>8. CASE HangUp(r)
  BY <1>8, ConnMoves DEF HangUp
<1> QED
  BY <1>2, <1>3, <1>4, <1>5, <1>6, <1>7, <1>8 DEF Serve

(* Every step of the process keeps the invariant. *)
LEMMA NextInv == IInv /\ [Next]_vars => IInv'
<1> SUFFICES ASSUME IInv, [Next]_vars PROVE IInv'
  OBVIOUS
<1>1. CASE UNCHANGED vars
  BY <1>1 DEF vars, process, closers, IInv, TypeOK, Stages, NothingCutOff,
     BornLate, ListenerClosed, QuietOrTimedOut, PoolFollows, LimitersFollow,
     EndFollows, InShutdown, InStatement, Unserved
<1> QED
  BY <1>1, MainStep, SignalStep, ShutdownStep, ServeStep DEF Next

-----------------------------------------------------------------------------
(* Theorems *)

(* The inductive invariant holds from the start of the process to its end, *)
(* whenever the signals come and however long handlers hang.               *)
THEOREM LifecycleInvariance == Spec => []IInv
BY InitInv, NextInv, PTL DEF Spec

(* Every variable keeps its type; in particular the signal channel holds    *)
(* one signal at most.                                                      *)
THEOREM LifecycleTypeCorrect == Spec => []TypeOK
<1>1. IInv => TypeOK
  BY DEF IInv
<1> QED
  BY <1>1, LifecycleInvariance, PTL

(* No request meets a closed pool or a closed Redis client unless Shutdown  *)
(* waited its 30 s for it in vain.                                          *)
THEOREM OnlyLatecomersCutOff == Spec => []NothingCutOff
<1>1. IInv => NothingCutOff
  BY DEF IInv
<1> QED
  BY <1>1, LifecycleInvariance, PTL

(* When main returns everything it opened is closed, no statement is left   *)
(* running, and no request but those that outlived Shutdown.                *)
THEOREM MainLeavesTidily == Spec => []EndsTidily
<1>1. IInv => EndsTidily
  BY DEF IInv, Stages, EndFollows, PoolFollows, LimitersFollow,
         QuietOrTimedOut, EndsTidily, Unserved, Busy, Served, Returned, Stopped
<1> QED
  BY <1>1, LifecycleInvariance, PTL
=============================================================================
