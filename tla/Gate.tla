-------------------------------- MODULE Gate --------------------------------
(***************************************************************************)
(* What internal/server/routes.go puts in front of the handlers: the       *)
(* middleware RateLimit with the limiter that the servers share in Redis,   *)
(* and, on login and register, once more with a limiter in the memory of    *)
(* each server.                                                             *)
(*                                                                         *)
(* The local limiter is here what LocalLimiter is proved to promise: it     *)
(* denies only when it has let LoginLimit requests of the window through    *)
(* (DeniedOnlyWhenFull there).  It may let more through, a sweep having     *)
(* taken the entry from under a caller (KeyWithinLimit there).              *)
(***************************************************************************)
EXTENDS RedisLimiter, Sequences

CONSTANTS
    LoginLimit,   \* of LoginRateLimiter: 5
    LoginWindow,  \* 15 minutes and what Allow may stall, in units of the clock
    Excess        \* bounds what sweeps let through beyond LoginLimit

ASSUME GateAssumption ==
    LoginLimit \in Nat \ {0} /\ LoginWindow \in Nat \ {0} /\ Excess \in Nat

VARIABLES
    route,    \* the route of each request, Nil between requests
    refused,  \* whether the last step answered a request 429
    charged,  \* when LoginRateLimiter of each server let requests of a key through
    logins    \* history: when logins of a key reached their handler

gate == <<route, refused, charged, logins>>
vars == <<limiter, gate>>

Routes == {"health", "login", "other"}

TypeOK ==
    /\ LimiterTypeOK
    /\ route \in [Callers -> Routes \cup {Nil}]
    /\ refused \in BOOLEAN
    /\ charged \in [Servers -> [Keys -> Seq((1 - LoginWindow)..0)]]
    /\ logins \in [Servers -> [Keys -> Seq((1 - LoginWindow)..0)]]

Init ==
    /\ LimiterInit
    /\ route = [c \in Callers |-> Nil]
    /\ refused = FALSE
    /\ charged = [s \in Servers |-> [k \in Keys |-> <<>>]]
    /\ logins = [s \in Servers |-> [k \in Keys |-> <<>>]]

-----------------------------------------------------------------------------
(* SkipFunc lets health checks through; the others ask the shared limiter,  *)
(* with the client's address as the key.                                     *)
Arrive(c, s, k, rt) ==
    /\ call[c].pc = "idle"
    /\ \/ /\ rt = "health"
          /\ UNCHANGED <<limiter, route>>
       \/ /\ rt # "health"
          /\ Start(c, s, k)
          /\ route' = [route EXCEPT ![c] = rt]
    /\ refused' = FALSE
    /\ UNCHANGED <<charged, logins>>

(* Allow of LoginRateLimiter, for the request c that has passed the first   *)
(* limiter, and the handler behind it.                                       *)
Login(c) ==
    LET s == call[c].server
        k == call[c].key
        n == Len(charged[s][k])
    IN  \/ /\ n < LoginLimit + Excess
           /\ charged' = [charged EXCEPT ![s][k] = Append(@, 0)]
           /\ logins' = [logins EXCEPT ![s][k] = Append(@, 0)]
           /\ refused' = FALSE
        \/ /\ n >= LoginLimit
           /\ refused' = TRUE
           /\ UNCHANGED <<charged, logins>>

(* mutant: the login limiter comes first and is charged *)
RefuseCharged(c) ==
    LET s == call[c].server
        k == call[c].key
    IN  /\ charged' = [charged EXCEPT ![s][k] = Append(@, 0)]
        /\ refused' = TRUE
        /\ UNCHANGED logins

Refuse(c) == refused' = TRUE /\ UNCHANGED <<charged, logins>>

(* mutant: a failing limiter opens the login route altogether *)
AdmitFailsOpen(c) ==
    IF route[c] = "login" /\ call[c].result # "error" THEN Login(c)
    ELSE /\ logins' = [logins EXCEPT ![call[c].server][call[c].key] =
                           IF route[c] = "login" THEN Append(@, 0) ELSE @]
         /\ refused' = FALSE /\ UNCHANGED charged

(* An error of the limiter is logged and the request goes on, like one that *)
(* is allowed.                                                               *)
Admit(c) ==
    IF route[c] = "login" THEN Login(c)
    ELSE refused' = FALSE /\ UNCHANGED <<charged, logins>>

Proceed(c) ==
    /\ call[c].pc = "answered"
    /\ call' = [call EXCEPT ![c] = Idle]
    /\ route' = [route EXCEPT ![c] = Nil]
    /\ IF call[c].result = "denied" THEN Refuse(c) ELSE Admit(c)
    /\ UNCHANGED <<skew, store, history>>

(* A server stops and starts again: the requests and the limiter in its     *)
(* memory are gone.                                                          *)
Restart(s) ==
    LET lost == {c \in Callers : call[c].server = s} IN
    /\ charged' = [charged EXCEPT ![s] = [k \in Keys |-> <<>>]]
    /\ logins' = [logins EXCEPT ![s] = [k \in Keys |-> <<>>]]
    /\ call' = [c \in Callers |-> IF c \in lost THEN Idle ELSE call[c]]
    /\ route' = [c \in Callers |-> IF c \in lost THEN Nil ELSE route[c]]
    /\ refused' = FALSE
    /\ UNCHANGED <<skew, store, history>>

(* The times of a key are in order, so what leaves the window is a prefix. *)
Aged(s) ==
    LET left == {i \in DOMAIN s : s[i] <= 1 - LoginWindow}
        kept == SubSeq(s, Cardinality(left) + 1, Len(s))
    IN  [i \in DOMAIN kept |-> kept[i] - 1]

TimePasses ==
    /\ Advance
    /\ logins' = [s \in Servers |-> [k \in Keys |-> Aged(logins[s][k])]]
    /\ charged' = [s \in Servers |-> [k \in Keys |-> Aged(charged[s][k])]]
    /\ refused' = FALSE
    /\ UNCHANGED route

Quietly == refused' = FALSE /\ UNCHANGED <<route, charged, logins>>

Serve(c) ==
    \/ \E s \in Servers, k \in Keys, rt \in Routes : Arrive(c, s, k, rt)
    \/ (Run(c) \/ Fail(c)) /\ Quietly
    \/ Proceed(c)

Next ==
    \/ \E c \in Callers : Serve(c)
    \/ \E k \in Keys : Reset(k) /\ Quietly
    \/ LoseData /\ Quietly
    \/ \E s \in Servers : Restart(s)
    \/ TimePasses

Spec == Init /\ [][Next]_vars

-----------------------------------------------------------------------------
(* Properties *)

(* Every login that reaches its handler is charged to the login limiter,    *)
(* and nothing else is: an attempt that the shared limiter failed to judge  *)
(* is not let past the second one, an attempt that the first refused takes  *)
(* nothing from the second (ratelimit.go:85, routes.go:111).                *)
LoginsCharged == charged = logins

(* A login that got past the shared limiter is refused only when LoginLimit *)
(* logins of this client have reached their handler in the LoginWindow:      *)
(* requests that either limiter refused cost nothing here (routes.go:111).   *)
LoginRefusedOnlyWhenFull ==
    [][\A c \in Callers :
         /\ call[c].pc = "answered" /\ call'[c].pc = "idle"
         /\ call[c].result # "denied" /\ refused'
         => Len(logins[call[c].server][call[c].key]) >= LoginLimit]_vars
=============================================================================
