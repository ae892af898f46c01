--------------------------- MODULE SessionLedger ---------------------------
(***************************************************************************)
(* What the refresh_tokens table promises, without requests, statements,   *)
(* browsers or clocks: a ledger of sessions.  A token is opened once, for  *)
(* one user; it is closed alone or with other tokens of the same user, and *)
(* a closed token stays closed.  Sessions implements this specification.   *)
(***************************************************************************)
CONSTANTS Users, Tokens, Nil

VARIABLES
    owner,  \* the user each token was opened for
    live    \* the tokens that may still be exchanged

Init ==
    /\ owner = [t \in Tokens |-> Nil]
    /\ live = {}

OpenBy(u) == {t \in live : owner[t] = u}

(* An opened token need not go live: the server hands tokens out whether   *)
(* or not it could record them.                                            *)
Open(u, t) ==
    /\ owner[t] = Nil
    /\ owner' = [owner EXCEPT ![t] = u]
    /\ live' \in {live, live \cup {t}}

Close(u) ==
    /\ \E closed \in SUBSET OpenBy(u) : live' = live \ closed
    /\ UNCHANGED owner

Next == \E u \in Users : Close(u) \/ \E t \in Tokens : Open(u, t)

Spec == Init /\ [][Next]_<<owner, live>>

-----------------------------------------------------------------------------
(* A token that was opened and is not live never becomes live: what makes  *)
(* a revoked or exchanged refresh token worthless for good.                *)
ClosedStaysClosed ==
    [][\A t \in Tokens :
         owner[t] # Nil /\ t \notin live => t \notin live']_<<owner, live>>
=============================================================================
