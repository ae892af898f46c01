------------------------------ MODULE ApiClient ------------------------------
(***************************************************************************)
(* client/src/api.ts: the response interceptor of one page, which answers  *)
(* a 401 with a refresh and holds back what fails meanwhile.               *)
(*                                                                         *)
(* The page has one thread: a callback, up to its next await, is one       *)
(* action, and what the network does happens between callbacks.  The       *)
(* server is reduced to the session it keeps for this browser, a chain of   *)
(* refresh tokens, numbered; module Sessions has the whole of it, and the  *)
(* other tabs that share the cookies.                                      *)
(***************************************************************************)
EXTENDS Naturals, FiniteSets

CONSTANTS
    Requests,   \* calls of api, the refresh itself excepted
    Hopeless,   \* answered 401 whatever the cookies: a wrong password
    Unreliable  \* requests that may fail without a 401

ASSUME ClientAssumption ==
    /\ IsFiniteSet(Requests)
    /\ Hopeless \subseteq Requests
    /\ Unreliable \subseteq Requests

VARIABLES
    isRefreshing,
    refreshQueue,
    redirected,  \* window.location.href = "/login" was executed
    pc,          \* of each request
    retried,     \* original._retry
    answer,      \* to a request or to the refresh made for it
    carried,     \* the refresh token sent with the refresh made for it
    access,      \* the browser has an access token that is valid
    token,       \* its refresh token, 0 for none
    issued,      \* the newest refresh token that the server has signed
    rows,        \* the refresh tokens that the server would exchange
    severed,     \* history: a fault, or others, parted the browser from its row
    compromised  \* history: a refresh was taken for the use of a stolen token

page   == <<isRefreshing, refreshQueue, redirected, pc, retried, carried>>
session == <<issued, rows, severed, compromised>>
server == <<access, token, session>>
vars   == <<page, answer, server>>

Settled == {"fulfilled", "rejected"}

(* Each request starts one refresh at most, so no token goes beyond this. *)
Generations == 0..Cardinality(Requests) + 1

TypeOK ==
    /\ isRefreshing \in BOOLEAN
    /\ refreshQueue \subseteq Requests
    /\ redirected \in BOOLEAN
    /\ pc \in [Requests -> {"idle", "sent", "answered", "queued", "resumed",
                            "refreshing", "refreshed"} \cup Settled]
    /\ retried \in [Requests -> BOOLEAN]
    /\ answer \in [Requests -> {"none", "ok", "401", "error"}]
    /\ carried \in [Requests -> Generations]
    /\ access \in BOOLEAN
    /\ token \in Generations /\ issued \in Generations
    /\ rows \subseteq Generations
    /\ severed \in BOOLEAN /\ compromised \in BOOLEAN

(* A visitor who is logged in, or not. *)
Init ==
    /\ isRefreshing = FALSE
    /\ refreshQueue = {}
    /\ redirected = FALSE
    /\ pc = [r \in Requests |-> "idle"]
    /\ retried = [r \in Requests |-> FALSE]
    /\ answer = [r \in Requests |-> "none"]
    /\ carried = [r \in Requests |-> 0]
    /\ issued \in {0, 1}
    /\ token = issued
    /\ rows = {issued} \ {0}
    /\ access \in {FALSE, issued = 1}
    /\ severed = FALSE
    /\ compromised = FALSE

-----------------------------------------------------------------------------
(* The network and the server *)

Answer(r, a) == answer' = [answer EXCEPT ![r] = a]

Serve(r) ==
    /\ pc[r] = "sent"
    /\ pc' = [pc EXCEPT ![r] = "answered"]
    /\ \/ access /\ r \notin Hopeless /\ Answer(r, "ok")
       \/ (~access \/ r \in Hopeless) /\ Answer(r, "401")
       \/ r \in Unreliable /\ Answer(r, "error")
    /\ UNCHANGED <<isRefreshing, refreshQueue, redirected, retried, carried,
                   server>>

(* A refresh that changes nothing: it is answered 401, the cookie missing or *)
(* refused by VerifyToken, as jwt.go does with every one of them; answered   *)
(* 429 by the limiter or 500 after the lookup failed; or it gets lost.       *)
Decline(r) ==
    /\ Answer(r, "401") \/ Answer(r, "error")
    /\ UNCHANGED server

(* A token with a row is exchanged.  The errors of the DELETE and of the     *)
(* INSERT are discarded, and the answer may be lost with its cookies.        *)
Exchange(r) ==
    /\ carried[r] \in rows
    /\ issued' = issued + 1
    /\ \E left \in {rows, rows \ {carried[r]}}, stored \in {{}, {issued'}} :
        /\ rows' = left \cup stored
        /\ \/ /\ Answer(r, "ok")
              /\ token' = issued'
              /\ access' = TRUE
              /\ severed' = (severed \/ stored = {})
           \/ /\ Answer(r, "error")
              /\ severed' = TRUE
              /\ UNCHANGED <<token, access>>
    /\ UNCHANGED compromised

(* One without a row ends every session of its user, if the DELETE succeeds. *)
Compromise(r) ==
    /\ carried[r] # 0 /\ carried[r] \notin rows
    /\ rows' \in {{}, rows}
    /\ compromised' = TRUE
    /\ Answer(r, "401") \/ Answer(r, "error")
    /\ UNCHANGED <<access, token, issued, severed>>

ServeRefresh(r) ==
    /\ pc[r] = "refreshing"
    /\ pc' = [pc EXCEPT ![r] = "refreshed"]
    /\ Decline(r) \/ Exchange(r) \/ Compromise(r)
    /\ UNCHANGED <<isRefreshing, refreshQueue, redirected, retried, carried>>

(* A row passes its date on the database's clock, or another device or a     *)
(* password reset takes it away.                                             *)
Sever ==
    /\ \E t \in rows : rows' = rows \ {t} /\ severed' = (severed \/ t = token)
    /\ UNCHANGED <<page, answer, access, token, issued, compromised>>

AccessExpires ==
    /\ access
    /\ access' = FALSE
    /\ UNCHANGED <<page, answer, token, session>>

-----------------------------------------------------------------------------
(* The page *)

Call(r) ==
    /\ pc[r] = "idle"
    /\ pc' = [pc EXCEPT ![r] = "sent"]
    /\ UNCHANGED <<isRefreshing, refreshQueue, redirected, retried, carried,
                   answer, server>>

Settle(r, outcome) ==
    /\ pc' = [pc EXCEPT ![r] = outcome]
    /\ UNCHANGED <<isRefreshing, refreshQueue, retried, carried>>

AlwaysEligible(r) == answer[r] = "401"  \* mutant: _retry is not looked at

Eligible(r) == answer[r] = "401" /\ ~retried[r]

EnqueueAnyway(r) ==  \* mutant: also when no refresh is under way
    /\ refreshQueue' = refreshQueue \cup {r}
    /\ pc' = [pc EXCEPT ![r] = "queued"]
    /\ UNCHANGED <<isRefreshing, retried, carried>>

Enqueue(r) ==
    /\ isRefreshing
    /\ refreshQueue' = refreshQueue \cup {r}
    /\ pc' = [pc EXCEPT ![r] = "queued"]
    /\ UNCHANGED <<isRefreshing, retried, carried>>

(* mutant: isRefreshing is not looked at *)
StartAnother(r) ==
    /\ retried' = [retried EXCEPT ![r] = TRUE]
    /\ isRefreshing' = TRUE
    /\ carried' = [carried EXCEPT ![r] = token]
    /\ pc' = [pc EXCEPT ![r] = "refreshing"]
    /\ UNCHANGED refreshQueue

StartRefresh(r) ==
    /\ ~isRefreshing
    /\ retried' = [retried EXCEPT ![r] = TRUE]
    /\ isRefreshing' = TRUE
    /\ carried' = [carried EXCEPT ![r] = token]
    /\ pc' = [pc EXCEPT ![r] = "refreshing"]
    /\ UNCHANGED refreshQueue

(* The interceptor, up to its first await. *)
Respond(r) ==
    /\ pc[r] = "answered"
    /\ \/ answer[r] = "ok" /\ Settle(r, "fulfilled")
       \/ answer[r] # "ok" /\ ~Eligible(r) /\ Settle(r, "rejected")
       \/ Eligible(r) /\ (Enqueue(r) \/ StartRefresh(r))
    /\ UNCHANGED <<redirected, answer, server>>

DropQueue(outcome) == pc  \* mutant: empties the queue and settles nobody

DrainQueue(outcome) ==
    [r \in Requests |-> IF r \in refreshQueue THEN outcome ELSE pc[r]]

(* ... and after it.  The queue is drained, the request sent again or      *)
(* rejected, and finally runs, before any promise callback can.            *)
AfterRefresh(r) ==
    /\ pc[r] = "refreshed"
    /\ isRefreshing' = FALSE
    /\ refreshQueue' = {}
    /\ \/ /\ answer[r] = "ok"
          /\ pc' = [DrainQueue("resumed") EXCEPT ![r] = "sent"]
          /\ UNCHANGED redirected
       \/ /\ answer[r] # "ok"
          /\ pc' = [DrainQueue("rejected") EXCEPT ![r] = "rejected"]
          /\ redirected' = TRUE
    /\ UNCHANGED <<retried, carried, answer, server>>

(* .then(() => api(original)) of a queued request *)
Resume(r) ==
    /\ pc[r] = "resumed"
    /\ pc' = [pc EXCEPT ![r] = "sent"]
    /\ UNCHANGED <<isRefreshing, refreshQueue, redirected, retried, carried,
                   answer, server>>

Interceptor(r) == Respond(r) \/ AfterRefresh(r) \/ Resume(r)

Network(r) == Serve(r) \/ ServeRefresh(r)

Next ==
    \/ \E r \in Requests : Call(r) \/ Network(r) \/ Interceptor(r)
    \/ AccessExpires \/ Sever

(* The event loop runs every callback that is due, and every request is    *)
(* answered or fails: until then the interceptor waits, axios being given  *)
(* no timeout.  Nobody has to call, and nothing has to expire.             *)
Fairness == \A r \in Requests : WF_vars(Network(r)) /\ WF_vars(Interceptor(r))

Spec == Init /\ [][Next]_vars /\ Fairness

-----------------------------------------------------------------------------
(* Properties *)

(* Requests wait in the queue only while exactly one refresh is under way, *)
(* so none is stranded there and the queue is drained once.                *)
QueueWaitsOnRefresh ==
    /\ refreshQueue = {r \in Requests : pc[r] = "queued"}
    /\ refreshQueue # {} =>
         Cardinality({r \in Requests : pc[r] \in {"refreshing", "refreshed"}}) = 1

(* The page's own requests, however they interleave, never pass for a      *)
(* thief's: the server answers one "session compromised" only when the     *)
(* answer of a refresh was lost after the exchange, when its INSERT failed, *)
(* or when somebody else, or its date, took away the row of the token.      *)
CompromisedOnlyWhenSevered == compromised => severed

(* Every request settles, those answered 401 again and again included.  (A *)
(* redirect that unloads the page first settles it too.)                   *)
EveryRequestSettles ==
    \A r \in Requests : pc[r] = "sent" ~> pc[r] \in Settled
=============================================================================
