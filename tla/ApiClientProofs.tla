-------------------------- MODULE ApiClientProofs --------------------------
(***************************************************************************)
(* Proofs about ApiClient, for any finite set of requests.                 *)
(***************************************************************************)
EXTENDS ApiClient, FiniteSetTheorems, TLAPS

-----------------------------------------------------------------------------
(* The inductive invariant.  Everything follows from there being one        *)
(* refresh at a time: the page does not change its token while one is under *)
(* way, so that it carries the token the browser still has, and this has a  *)
(* row unless something severed the session.                                *)

Refreshers == {r \in Requests : pc[r] \in {"refreshing", "refreshed"}}

OneRefresh ==
    /\ isRefreshing <=> Refreshers # {}
    /\ \A r, s \in Refreshers : r = s
    /\ \A r \in Refreshers : retried[r]

Queue ==
    /\ refreshQueue = {r \in Requests : pc[r] = "queued"}
    /\ refreshQueue # {} => isRefreshing

InStep ==
    /\ severed \/ token = 0 \/ token \in rows
    /\ \A r \in Requests : pc[r] = "refreshing" => carried[r] = token

(* Each request exchanges a token once at most. *)
Exchanged == {r \in Requests : retried[r] /\ pc[r] # "refreshing"}

FewTokens ==
    /\ issued <= Cardinality(Exchanged) + 1
    /\ token <= issued
    /\ \A t \in rows : t <= issued

Kinds ==
    /\ isRefreshing \in BOOLEAN /\ redirected \in BOOLEAN
    /\ pc \in [Requests -> {"idle", "sent", "answered", "queued", "resumed",
                            "refreshing", "refreshed"} \cup Settled]
    /\ retried \in [Requests -> BOOLEAN]
    /\ answer \in [Requests -> {"none", "ok", "401", "error"}]
    /\ carried \in [Requests -> Generations]
    /\ access \in BOOLEAN /\ severed \in BOOLEAN /\ compromised \in BOOLEAN
    /\ token \in Nat /\ issued \in Nat /\ rows \in SUBSET Nat

IInv ==
    /\ Kinds /\ OneRefresh /\ Queue /\ InStep /\ FewTokens
    /\ CompromisedOnlyWhenSevered

(* A set of requests is finite, and no larger than all of them. *)
LEMMA SomeRequests ==
    ASSUME NEW S \in SUBSET Requests
    PROVE  /\ IsFiniteSet(S) /\ Cardinality(S) \in Nat
           /\ Cardinality(Requests) \in Nat
           /\ Cardinality(S) <= Cardinality(Requests)
BY ClientAssumption, FS_Subset, FS_CardinalityType DEF ClientAssumption

(* Tokens stay below their bound. *)
LEMMA TypesFollow == IInv => TypeOK
<1> SUFFICES ASSUME IInv PROVE TypeOK
  OBVIOUS
<1>1. /\ Cardinality(Exchanged) \in Nat /\ Cardinality(Requests) \in Nat
      /\ Cardinality(Exchanged) <= Cardinality(Requests)
  BY SomeRequests DEF Exchanged
<1>2. token \in Generations /\ issued \in Generations /\ rows \subseteq Generations
  BY <1>1 DEF IInv, Kinds, FewTokens, Generations
<1>3. refreshQueue \subseteq Requests
  BY DEF IInv, Queue
<1> QED
  BY <1>2, <1>3 DEF IInv, Kinds, TypeOK

(* The page starts quiet, with the token that the server knows. *)
LEMMA InitInv == Init => IInv
<1> SUFFICES ASSUME Init PROVE IInv
  OBVIOUS
<1>1. Refreshers = {} /\ Exchanged = {}
  BY DEF Init, Refreshers, Exchanged
<1>2. Cardinality({}) = 0
  BY FS_EmptySet
<1>3. Cardinality(Requests) \in Nat
  BY SomeRequests
<1>4. Kinds
  <2>1. issued \in Nat /\ token \in Nat /\ rows \in SUBSET Nat
    BY DEF Init
  <2>4. access \in BOOLEAN
    BY Zenon DEF Init
  <2>2. carried \in [Requests -> Generations]
    BY <1>3 DEF Init, Generations
  <2>3. /\ isRefreshing \in BOOLEAN /\ redirected \in BOOLEAN
        /\ severed \in BOOLEAN /\ compromised \in BOOLEAN
    BY DEF Init
  <2> QED
    BY <2>1, <2>2, <2>3, <2>4 DEF Init, Kinds
<1>5. OneRefresh /\ Queue
  BY <1>1 DEF Init, OneRefresh, Queue
<1>6. FewTokens
  BY <1>1, <1>2 DEF Init, FewTokens
<1> QED
  BY <1>4, <1>5, <1>6 DEF Init, IInv, InStep, CompromisedOnlyWhenSevered

-----------------------------------------------------------------------------
(* A request goes from one place to another while no token moves.  It does  *)
(* not touch the refresh: it neither makes one nor waits for one.           *)
LEMMA QuietMove ==
    ASSUME IInv, NEW r \in Requests,
           NEW next \in {"idle", "sent", "answered", "resumed"} \cup Settled,
           pc[r] \notin {"queued", "refreshing", "refreshed"},
           pc' = [pc EXCEPT ![r] = next],
           answer' \in [Requests -> {"none", "ok", "401", "error"}],
           \A s \in Requests \ {r} : answer'[s] = answer[s],
           UNCHANGED <<isRefreshing, refreshQueue, redirected, retried, carried, server>>
    PROVE  IInv'
<1>1. /\ pc'[r] = next /\ next \notin {"queued", "refreshing", "refreshed"}
      /\ \A s \in Requests \ {r} : pc'[s] = pc[s]
  BY DEF IInv, Kinds, Settled
<1>2. Refreshers' = Refreshers
  BY <1>1 DEF Refreshers
<1>3. Exchanged' = Exchanged
  BY <1>1 DEF Exchanged
<1>4. Kinds'
  BY DEF IInv, Kinds, server, session
<1>5. OneRefresh'
  BY <1>2 DEF IInv, OneRefresh
<1>6. Queue'
  BY <1>1 DEF IInv, Queue
<1>7. InStep'
  BY <1>1 DEF IInv, InStep, server, session
<1>8. FewTokens'
  BY <1>3 DEF IInv, FewTokens, server, session
<1> QED
  BY <1>4, <1>5, <1>6, <1>7, <1>8 DEF IInv, CompromisedOnlyWhenSevered, server, session

(* The server answers a request. *)
LEMMA ServeStep ==
    ASSUME IInv, NEW r \in Requests, Serve(r)
    PROVE  IInv'
<1>1. /\ answer' \in [Requests -> {"none", "ok", "401", "error"}]
      /\ \A s \in Requests \ {r} : answer'[s] = answer[s]
  BY DEF Serve, Answer, IInv, Kinds
<1>2. pc[r] = "sent" /\ pc' = [pc EXCEPT ![r] = "answered"]
      /\ UNCHANGED <<isRefreshing, refreshQueue, redirected, retried, carried, server>>
  BY DEF Serve
<1> QED
  BY <1>1, <1>2, QuietMove

(* A request is sent, for the first time or after it waited. *)
LEMMA SentStep ==
    ASSUME IInv, NEW r \in Requests, Call(r) \/ Resume(r)
    PROVE  IInv'
<1>1. pc[r] \in {"idle", "resumed"} /\ pc' = [pc EXCEPT ![r] = "sent"]
      /\ UNCHANGED <<isRefreshing, refreshQueue, redirected, retried, carried,
                     answer, server>>
  BY DEF Call, Resume
<1> QED
  BY <1>1, QuietMove DEF IInv, Kinds

(* A refresh carries the token that the browser has: the server takes it    *)
(* for stolen only when the session is severed.                             *)
LEMMA ServeRefreshStep ==
    ASSUME IInv, NEW r \in Requests, ServeRefresh(r)
    PROVE  IInv'
<1>1. /\ pc[r] = "refreshing" /\ pc'[r] = "refreshed"
      /\ \A s \in Requests \ {r} : pc'[s] = pc[s]
      /\ pc' \in [Requests -> {"idle", "sent", "answered", "queued", "resumed",
                               "refreshing", "refreshed"} \cup Settled]
      /\ UNCHANGED <<isRefreshing, refreshQueue, redirected, retried, carried>>
  BY DEF ServeRefresh, IInv, Kinds
<1>2. Refreshers' = Refreshers /\ r \in Refreshers
  BY <1>1 DEF Refreshers
<1>3. retried[r] /\ \A s \in Requests \ {r} : pc[s] \notin {"refreshing", "refreshed"}
  BY <1>2 DEF IInv, OneRefresh, Refreshers
<1>4. Exchanged' = Exchanged \cup {r} /\ r \notin Exchanged
  BY <1>1, <1>3 DEF Exchanged
<1>5. /\ Cardinality(Exchanged') = Cardinality(Exchanged) + 1
      /\ Cardinality(Exchanged) \in Nat
  BY <1>4, SomeRequests, FS_AddElement DEF Exchanged
<1>6. answer' \in [Requests -> {"none", "ok", "401", "error"}]
  BY DEF ServeRefresh, Decline, Exchange, Compromise, Answer, IInv, Kinds
<1>7. carried[r] = token /\ (severed \/ token = 0 \/ token \in rows)
  BY <1>1 DEF IInv, InStep
<1>8. /\ token \in Nat /\ issued \in Nat /\ rows \in SUBSET Nat
      /\ severed \in BOOLEAN /\ access \in BOOLEAN /\ compromised \in BOOLEAN
      /\ issued <= Cardinality(Exchanged) + 1 /\ token <= issued
      /\ \A t \in rows : t <= issued
      /\ compromised => severed
  BY DEF IInv, Kinds, FewTokens, CompromisedOnlyWhenSevered
<1>9. /\ token' \in Nat /\ issued' \in Nat /\ rows' \in SUBSET Nat
      /\ severed' \in BOOLEAN /\ access' \in BOOLEAN /\ compromised' \in BOOLEAN
      /\ issued' <= Cardinality(Exchanged) + 2 /\ token' <= issued'
      /\ \A t \in rows' : t <= issued'
      /\ severed' \/ token' = 0 \/ token' \in rows'
      /\ compromised' => severed'
  <2>1. CASE Decline(r)
    BY <1>5, <1>7, <1>8, <2>1 DEF Decline, server, session
  <2>2. CASE Exchange(r)
    <3>1. PICK left \in {rows, rows \ {carried[r]}}, stored \in {{}, {issued'}} :
            /\ issued' = issued + 1 /\ rows' = left \cup stored
            /\ compromised' = compromised
            /\ \/ token' = issued' /\ access' = TRUE /\ severed' = (severed \/ stored = {})
               \/ severed' = TRUE /\ UNCHANGED <<token, access>>
      BY <2>2 DEF Exchange
    <3>2. left \in SUBSET rows /\ stored \in SUBSET {issued'}
      OBVIOUS
    <3>3. /\ issued' \in Nat /\ issued' <= Cardinality(Exchanged) + 2
          /\ token' \in Nat /\ token' <= issued'
      BY <1>5, <1>8, <3>1
    <3>4. rows' \in SUBSET Nat /\ \A t \in rows' : t <= issued'
      BY <1>8, <3>1, <3>2, <3>3
    <3>5. severed' \in BOOLEAN /\ access' \in BOOLEAN /\ (severed => severed')
      <4>1. CASE severed' = TRUE
        BY <1>8, <3>1, <4>1
      <4>2. CASE severed' = (severed \/ stored = {}) /\ access' = TRUE
        BY <4>2
      <4> QED
        BY <3>1, <4>1, <4>2
    <3>6. severed' \/ token' \in rows'
      BY <3>1
    <3> QED
      BY <1>8, <3>1, <3>3, <3>4, <3>5, <3>6
  <2>3. CASE Compromise(r)
    <3>1. /\ carried[r] # 0 /\ carried[r] \notin rows /\ rows' \in {{}, rows}
          /\ compromised' = TRUE /\ UNCHANGED <<access, token, issued, severed>>
      BY <2>3 DEF Compromise
    <3>2. severed
      BY <1>7, <3>1
    <3>3. rows' \in SUBSET Nat /\ \A t \in rows' : t <= issued
      BY <1>8, <3>1
    <3>4. /\ token' = token /\ issued' = issued /\ access' = access
          /\ severed' = severed /\ compromised' = TRUE
      BY <3>1
    <3>5. issued' <= Cardinality(Exchanged) + 2
      BY <1>5, <1>8, <3>4
    <3> QED
      BY <1>8, <3>2, <3>3, <3>4, <3>5
  <2> QED
    BY <2>1, <2>2, <2>3 DEF ServeRefresh
<1>10. Kinds'
  BY <1>1, <1>6, <1>9 DEF IInv, Kinds
<1>11. OneRefresh' /\ Queue'
  BY <1>1, <1>2 DEF IInv, OneRefresh, Queue
<1>12. InStep'
  BY <1>1, <1>3, <1>9 DEF InStep
<1>13. FewTokens'
  BY <1>5, <1>9 DEF FewTokens
<1>14. CompromisedOnlyWhenSevered'
  BY <1>9 DEF CompromisedOnlyWhenSevered
<1> QED
  BY <1>10, <1>11, <1>12, <1>13, <1>14 DEF IInv

(* The interceptor starts a refresh when none is under way, and queues the  *)
(* request behind it otherwise.                                             *)
LEMMA RespondStep ==
    ASSUME IInv, NEW r \in Requests, Respond(r)
    PROVE  IInv'
<1>1. pc[r] = "answered" /\ UNCHANGED <<redirected, answer, server>>
  BY DEF Respond
<1>2. CASE Settle(r, "fulfilled") \/ Settle(r, "rejected")
  BY <1>1, <1>2, QuietMove DEF Settle, Settled, IInv, Kinds
<1>3. CASE Enqueue(r)
  <2>1. /\ pc'[r] = "queued" /\ \A s \in Requests \ {r} : pc'[s] = pc[s]
        /\ isRefreshing /\ refreshQueue' = refreshQueue \cup {r}
        /\ UNCHANGED <<isRefreshing, retried, carried>>
    BY <1>3 DEF Enqueue, IInv, Kinds
  <2>2. Kinds'
    BY <1>1, <1>3 DEF Enqueue, IInv, Kinds, server, session
  <2>3. Refreshers' = Refreshers
    BY <1>1, <2>1 DEF Refreshers
  <2>4. Exchanged' = Exchanged
    BY <1>1, <2>1 DEF Exchanged
  <2>5. OneRefresh'
    BY <2>1, <2>3 DEF IInv, OneRefresh
  <2>6. Queue'
    BY <2>1 DEF IInv, Queue
  <2>7. InStep'
    BY <1>1, <2>1 DEF IInv, InStep, server, session
  <2>8. FewTokens' /\ CompromisedOnlyWhenSevered'
    BY <1>1, <2>4 DEF IInv, FewTokens, CompromisedOnlyWhenSevered, server, session
  <2> QED
    BY <2>2, <2>5, <2>6, <2>7, <2>8 DEF IInv
<1>4. CASE Eligible(r) /\ StartRefresh(r)
  <2>1. /\ pc'[r] = "refreshing" /\ \A s \in Requests \ {r} : pc'[s] = pc[s]
        /\ retried'[r] /\ \A s \in Requests \ {r} : retried'[s] = retried[s]
        /\ carried'[r] = token /\ \A s \in Requests \ {r} : carried'[s] = carried[s]
        /\ ~isRefreshing /\ isRefreshing' /\ UNCHANGED refreshQueue /\ ~retried[r]
    BY <1>4 DEF Eligible, StartRefresh, IInv, Kinds
  <2>2. Kinds'
    <3>1. token \in Generations
      BY TypesFollow DEF TypeOK
    <3> QED
      BY <1>1, <1>4, <3>1 DEF StartRefresh, IInv, Kinds, server, session
  <2>3. Refreshers = {} /\ Refreshers' = {r}
    <3>1. Refreshers = {}
      BY <2>1 DEF IInv, OneRefresh
    <3> QED
      BY <2>1, <3>1 DEF Refreshers
  <2>4. Exchanged' = Exchanged
    BY <2>1 DEF Exchanged
  <2>5. OneRefresh'
    BY <2>1, <2>3 DEF OneRefresh
  <2>6. Queue'
    BY <1>1, <2>1 DEF IInv, Queue
  <2>7. InStep'
    BY <1>1, <2>1 DEF IInv, InStep, server, session
  <2>8. FewTokens' /\ CompromisedOnlyWhenSevered'
    BY <1>1, <2>4 DEF IInv, FewTokens, CompromisedOnlyWhenSevered, server, session
  <2> QED
    BY <2>2, <2>5, <2>6, <2>7, <2>8 DEF IInv
<1> QED
  BY <1>2, <1>3, <1>4 DEF Respond

(* After the refresh the queue is empty and nobody refreshes.               *)
LEMMA AfterRefreshStep ==
    ASSUME IInv, NEW r \in Requests, AfterRefresh(r)
    PROVE  IInv'
<1>1. /\ pc[r] = "refreshed" /\ ~isRefreshing' /\ refreshQueue' = {}
      /\ UNCHANGED <<retried, carried, answer, server>>
  BY DEF AfterRefresh
<1>2. \A s \in Requests \ {r} : pc[s] \notin {"refreshing", "refreshed"}
  BY <1>1 DEF IInv, OneRefresh, Refreshers
<1>3. \A s \in Requests : s \in refreshQueue <=> pc[s] = "queued"
  BY DEF IInv, Queue
<1>4. PICK outcome \in {"resumed", "rejected"}, next \in {"sent", "rejected"} :
        pc' = [DrainQueue(outcome) EXCEPT ![r] = next]
  BY DEF AfterRefresh
<1>5. /\ pc'[r] = next
      /\ \A s \in Requests \ {r} :
            pc'[s] = IF s \in refreshQueue THEN outcome ELSE pc[s]
  BY <1>4 DEF DrainQueue
<1>6. \A s \in Requests : pc'[s] \notin {"queued", "refreshing", "refreshed"}
  BY <1>2, <1>3, <1>5
<1>7. pc' \in [Requests -> {"idle", "sent", "answered", "queued", "resumed",
                            "refreshing", "refreshed"} \cup Settled]
  BY <1>4 DEF DrainQueue, IInv, Kinds, Settled
<1>8. Kinds'
  <2>1. redirected' \in BOOLEAN /\ isRefreshing' \in BOOLEAN
    BY DEF AfterRefresh, IInv, Kinds
  <2> QED
    BY <1>1, <1>7, <2>1 DEF IInv, Kinds, server, session
<1>9. Refreshers' = {}
  BY <1>6 DEF Refreshers
<1>10. Exchanged' = Exchanged
  BY <1>1, <1>2, <1>6 DEF Exchanged
<1>11. OneRefresh' /\ Queue'
  BY <1>1, <1>6, <1>9 DEF OneRefresh, Queue
<1>12. InStep'
  BY <1>1, <1>6 DEF IInv, InStep, server, session
<1>13. FewTokens'
  BY <1>1, <1>10 DEF IInv, FewTokens, server, session
<1>14. CompromisedOnlyWhenSevered'
  BY <1>1 DEF IInv, CompromisedOnlyWhenSevered, server, session
<1> QED
  BY <1>8, <1>11, <1>12, <1>13, <1>14 DEF IInv

(* Every step keeps the invariant. *)
LEMMA NextInv == IInv /\ [Next]_vars => IInv'
<1> SUFFICES ASSUME IInv, [Next]_vars PROVE IInv'
  OBVIOUS
<1>1. CASE UNCHANGED vars \/ AccessExpires \/ Sever
  <2>1. UNCHANGED <<page, answer, token, issued, compromised>>
    BY <1>1 DEF vars, server, session, AccessExpires, Sever
  <2>2. rows' \in SUBSET rows /\ (severed => severed')
    <3>1. CASE UNCHANGED <<rows, severed>>
      BY <3>1
    <3>2. CASE Sever
      <4>1. rows' \in SUBSET rows
        BY <3>2 DEF Sever
      <4>2. severed => severed'
        BY <3>2, Zenon DEF Sever
      <4> QED
        BY <4>1, <4>2
    <3> QED
      BY <1>1, <3>1, <3>2 DEF vars, server, session, AccessExpires
  <2>3. severed' \in BOOLEAN /\ access' \in BOOLEAN
    <3>1. CASE UNCHANGED vars
      BY <3>1 DEF vars, server, session, IInv, Kinds
    <3>2. CASE AccessExpires
      BY <3>2 DEF AccessExpires, session, IInv, Kinds
    <3>3. CASE Sever
      <4>1. access' = access /\ access \in BOOLEAN
        BY <3>3 DEF Sever, IInv, Kinds
      <4>2. severed' \in BOOLEAN
        BY <3>3, Zenon DEF Sever
      <4> QED
        BY <4>1, <4>2
    <3> QED
      BY <1>1, <3>1, <3>2, <3>3
  <2>4. token \in rows => token \in rows' \/ severed'
    BY <1>1 DEF vars, server, session, AccessExpires, Sever
  <2>5. Refreshers' = Refreshers /\ Exchanged' = Exchanged
    BY <2>1 DEF page, Refreshers, Exchanged
  <2>6. Kinds'
    BY <2>1, <2>2, <2>3 DEF page, IInv, Kinds
  <2>7. OneRefresh' /\ Queue'
    BY <2>1, <2>5 DEF page, IInv, OneRefresh, Queue
  <2>8. InStep'
    BY <2>1, <2>2, <2>4 DEF page, IInv, InStep
  <2>9. FewTokens' /\ CompromisedOnlyWhenSevered'
    BY <2>1, <2>2, <2>5 DEF page, IInv, FewTokens, CompromisedOnlyWhenSevered
  <2> QED
    BY <2>6, <2>7, <2>8, <2>9 DEF IInv
<1> QED
  BY <1>1, SentStep, ServeStep, ServeRefreshStep, RespondStep, AfterRefreshStep
     DEF Next, Network, Interceptor

-----------------------------------------------------------------------------
(* Theorems *)

(* The inductive invariant holds however the callbacks and the network      *)
(* interleave.                                                              *)
THEOREM ClientInvariance == Spec => []IInv
BY InitInv, NextInv, PTL DEF Spec

(* Every variable keeps its type; the browser never sees more refresh       *)
(* tokens than it has requests, and one.                                    *)
THEOREM ClientTypeCorrect == Spec => []TypeOK
BY TypesFollow, ClientInvariance, PTL

(* Requests wait in the queue only while exactly one refresh is under way.  *)
THEOREM QueueNeverStranded == Spec => []QueueWaitsOnRefresh
<1>1. IInv => QueueWaitsOnRefresh
  <2> SUFFICES ASSUME IInv, refreshQueue # {} PROVE Cardinality(Refreshers) = 1
    BY DEF IInv, Queue, QueueWaitsOnRefresh, Refreshers
  <2>1. PICK r \in Refreshers : Refreshers = {r}
    BY DEF IInv, Queue, OneRefresh
  <2> QED
    BY <2>1, FS_Singleton
<1> QED
  BY <1>1, ClientInvariance, PTL

(* No refresh of the page is taken for the use of a stolen token unless a    *)
(* fault or somebody else took the row of the browser's token away.          *)
THEOREM NeverTakenForThief == Spec => []CompromisedOnlyWhenSevered
<1>1. IInv => CompromisedOnlyWhenSevered
  BY DEF IInv
<1> QED
  BY <1>1, ClientInvariance, PTL
=============================================================================
