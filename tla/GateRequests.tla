---------------------------- MODULE GateRequests ----------------------------
(***************************************************************************)
(* Gate within one moment, with a count of the requests that the shared    *)
(* limiter admits.  The behaviours are those of Gate in which no time      *)
(* passes, no key is deleted and no server restarts, so that nothing that  *)
(* counts against a client has left its window.                            *)
(***************************************************************************)
EXTENDS Gate

VARIABLE requests  \* history: how many requests of each key were told to go on

momentVars == <<vars, requests>>

MomentInit == Init /\ requests = [k \in Keys |-> 0]

Allowed(c) == call[c].pc = "sent" /\ call'[c].result = "allowed"

Moment ==
    \E c \in Callers :
        /\ Serve(c)
        /\ requests' = IF Allowed(c)
                       THEN [requests EXCEPT ![call[c].key] = @ + 1]
                       ELSE requests

MomentSpec == MomentInit /\ [][Moment]_momentVars

-----------------------------------------------------------------------------
(* ratelimiter.go:32: Limit is the maximum number of requests allowed per   *)
(* window.  The script counts members, and redis.go:47 makes one member of  *)
(* the requests of a millisecond that draw the same number.                 *)
RequestsWithinLimit == \A k \in Keys : requests[k] <= Limit
=============================================================================
