--------------------------- MODULE SessionsProofs ---------------------------
(***************************************************************************)
(* Proofs about Sessions, for every set of users, browsers, requests and   *)
(* tokens, every set of faulty requests and either reading of VerifyToken. *)
(***************************************************************************)
EXTENDS Sessions, TLAPS

USE SessionsAssumption DEF SessionsAssumption

-----------------------------------------------------------------------------
(* The inductive invariant.  TypeOK alone is not inductive: IssueTokens    *)
(* writes the user of its request into a row, so that request must be      *)
(* known to have found one.                                                *)

(* The server has signed t. *)
Minted(t) == t \in Tokens /\ claims[t] \in Users

(* Browsers hold nothing but tokens the server signed. *)
JarsMinted == \A b \in Browsers : cookie[b] # Nil => Minted(cookie[b])

(* What a request knows of its user and tokens at each point. *)
Known(q) ==
    /\ q.pc # "replied" => q.status = "none"
    /\ q.pc \in {"rotate", "revoke", "create", "upsert", "update", "forget"} =>
           q.user \in Users
    /\ q.pc = "create" => q.op \in {"login", "refresh"}
    /\ q.new # Nil => Minted(q.new) /\ q.op \in {"login", "refresh"}
    /\ q.status = "compromised" => q.op = "refresh"
    /\ q.op = "logout" => q.tok = Nil

RefreshSound(q) ==
    q.op = "refresh" =>
        /\ q.tok # Nil => Minted(q.tok)
        /\ q.pc \in {"rotate", "revoke"} =>
               q.tok # Nil /\ q.user = claims[q.tok]
        /\ q.dead => /\ ~HasRow(q.tok)
                     /\ q.pc \notin {"rotate", "create"}
                     /\ q.new = Nil
        /\ ~q.failed /\ (q.pc = "create" \/ q.status = "ok") => ~HasRow(q.tok)
        /\ q.pc = "revoke" \/ q.status = "compromised" =>
               ~HasRow(q.tok) \/ q.tok \in lapsed

ResetSound(q) ==
    q.op = "reset" =>
        /\ q.pw \in Passwords
        /\ \A t \in q.before : Minted(t) /\ claims[t] = q.user
        /\ q.dead => /\ q.tok \in drawn /\ ~IsResetToken(q.tok)
                     /\ \/ q.pc = "lookup"
                        \/ q.pc = "replied" /\ q.status = "bad_request"
        /\ q.status = "ok" /\ ~q.failed => \A t \in q.before : ~HasRow(t)

LoginSound(q) ==
    q.op = "login" =>
        /\ q.user # Nil => password_hash[q.user] \in q.during
        /\ q.pc = "create" \/ q.new # Nil => q.pw \in q.during

Sound(r) ==
    Known(req[r]) /\ RefreshSound(req[r]) /\ ResetSound(req[r])
    /\ LoginSound(req[r])

IInv ==
    TypeOK /\ RowsMatchClaims /\ JarsMinted /\ \A r \in Requests : Sound(r)

(* What no step undoes: a signed token keeps its subject, a row and a      *)
(* reset token, once gone, stay gone, and a token past its date stays so.  *)
Lasting ==
    /\ \A t \in Tokens : Minted(t) => Minted(t)' /\ claims'[t] = claims[t]
    /\ \A t \in Tokens : Minted(t) /\ ~HasRow(t) => ~HasRow(t)'
    /\ lapsed \subseteq lapsed'
    /\ \A k \in drawn :
           k \in drawn' /\ (~IsResetToken(k) => ~IsResetToken(k)')

-----------------------------------------------------------------------------
(* Types *)

(* A goroutine that rests is well typed. *)
LEMMA IdleType == Idle \in Request
BY DEF Idle, Request, Ops, PCs, Statuses

(* A request that takes a well-typed value leaves the others alone. *)
LEMMA BecomesType ==
    ASSUME TypeOK, NEW r \in Requests, NEW q \in Request, Becomes(r, q)
    PROVE  /\ req' \in [Requests -> Request]
           /\ req'[r] = q
           /\ \A o \in Requests \ {r} : req'[o] = req[o]
BY DEF TypeOK, Becomes

(* The four ways to go on without new data. *)
LEMMA GoOnType ==
    ASSUME NEW q \in Request, NEW s \in Statuses, NEW pc \in PCs
    PROVE  /\ [q EXCEPT !.pc = "replied", !.status = s] \in Request
           /\ [q EXCEPT !.pc = "replied", !.status = s, !.failed = TRUE]
                \in Request
           /\ [q EXCEPT !.pc = pc] \in Request
           /\ [q EXCEPT !.pc = pc, !.failed = TRUE] \in Request
<1>1. "replied" \in PCs
  BY DEF PCs
<1> QED
  BY <1>1 DEF Request

(* Answering a request or sending it on keeps the requests well-typed.     *)
LEMMA ReplyType ==
    ASSUME TypeOK, NEW r \in Requests, NEW s \in Statuses, NEW pc \in PCs,
           \/ Reply(r, s) \/ ReplyFailed(r, s)
           \/ Goto(r, pc) \/ GotoFailed(r, pc)
    PROVE  req' \in [Requests -> Request]
<1>1. req[r] \in Request
  BY DEF TypeOK
<1> QED
  BY <1>1, GoOnType, BecomesType DEF Reply, ReplyFailed, Goto, GotoFailed

(* What issueTokens inserts is a row of the table.                         *)
LEMMA RowType ==
    ASSUME NEW u \in Users, NEW t \in Tokens
    PROVE  Row(u, t) \in RefreshRow
BY DEF Row, RefreshRow

-----------------------------------------------------------------------------
(* Steps in general *)

(* A token with a row was signed, and the row carries its subject. *)
LEMMA RowsAreSigned ==
    ASSUME IInv, NEW t \in Tokens, HasRow(t)
    PROVE  Minted(t) /\ Row(claims[t], t) \in refresh_tokens
BY DEF IInv, TypeOK, RowsMatchClaims, HasRow, Row, HashToken, Minted

(* A request that a step leaves alone stays sound. *)
LEMMA Bystander ==
    ASSUME IInv, Lasting, NEW o \in Requests, req'[o] = req[o],
           password_hash' = password_hash, (~HasRow(Nil))'
    PROVE  Sound(o)'
<1> DEFINE q == req[o]
<1>1. q \in Request /\ Sound(o)
  BY DEF IInv, TypeOK
<1>2. Known(req[o])'
  <2>1. q.new \in Tokens \cup {Nil}
    BY <1>1 DEF Request
  <2> QED
    BY <1>1, <2>1 DEF Sound, Known, Lasting, Minted
<1>3. RefreshSound(req[o])'
  <2> SUFFICES ASSUME q.op = "refresh"
               PROVE  RefreshSound(req[o])'
    BY DEF RefreshSound
  <2>1. q.tok = Nil \/ Minted(q.tok)
    BY <1>1 DEF Sound, RefreshSound
  <2>2. Minted(q.tok) => Minted(q.tok)' /\ claims'[q.tok] = claims[q.tok]
    BY DEF Lasting, Minted
  <2>3. ~HasRow(q.tok) => ~HasRow(q.tok)'
    BY <2>1 DEF Lasting, Minted
  <2>4. q.tok \in lapsed => q.tok \in lapsed'
    BY DEF Lasting
  <2> QED
    BY <1>1, <2>1, <2>2, <2>3, <2>4 DEF Sound, RefreshSound
<1>4. ResetSound(req[o])'
  BY <1>1 DEF Sound, ResetSound, Lasting, Minted
<1>5. LoginSound(req[o])'
  BY <1>1 DEF Sound, LoginSound
<1> QED
  BY <1>2, <1>3, <1>4, <1>5 DEF Sound

(* A step of request r preserves the invariant if what lasts lasts, the    *)
(* tables and jars stay in order, and r itself is sound afterwards.        *)
LEMMA StepOf ==
    ASSUME IInv, NEW r \in Requests, TypeOK', Lasting, RowsMatchClaims',
           JarsMinted', Sound(r)', password_hash' = password_hash,
           \A o \in Requests \ {r} : req'[o] = req[o]
    PROVE  IInv'
<1>1. (~HasRow(Nil))'
  BY DEF RowsMatchClaims, HasRow, Row, HashToken
<1>2. ASSUME NEW o \in Requests PROVE Sound(o)'
  BY <1>1, Bystander
<1> QED
  BY <1>2 DEF IInv

(* A step that changes nothing but request r, ... *)
LEMMA QuietStep ==
    ASSUME IInv, NEW r \in Requests, NEW q \in Request, Becomes(r, q),
           Known(q), RefreshSound(q), ResetSound(q), LoginSound(q),
           UNCHANGED <<tables, server, clocks, jars>>
    PROVE  IInv'
<1> USE DEF tables, server, clocks, jars
<1>1. /\ req' \in [Requests -> Request]
      /\ req'[r] = q
      /\ \A o \in Requests \ {r} : req'[o] = req[o]
  BY BecomesType DEF IInv
<1>2. TypeOK' /\ RowsMatchClaims' /\ JarsMinted'
  BY <1>1 DEF IInv, TypeOK, RowsMatchClaims, JarsMinted, Minted
<1>3. Lasting
  BY DEF Lasting, Minted, HasRow, IsResetToken
<1>4. Sound(r)'
  BY <1>1 DEF Sound, Known, RefreshSound, ResetSound, LoginSound, Minted,
              HasRow, IsResetToken
<1> QED
  BY <1>1, <1>2, <1>3, <1>4, StepOf

(* ... and one that also deletes rows. *)
LEMMA DeletingStep ==
    ASSUME IInv, NEW r \in Requests, NEW q \in Request, Becomes(r, q),
           refresh_tokens' \subseteq refresh_tokens, Sound(r)',
           UNCHANGED <<password_hash, password_reset_tokens, server, clocks,
                       jars>>
    PROVE  IInv'
<1> USE DEF server, clocks, jars
<1>1. /\ req' \in [Requests -> Request]
      /\ \A o \in Requests \ {r} : req'[o] = req[o]
  BY BecomesType DEF IInv
<1>2. TypeOK' /\ RowsMatchClaims' /\ JarsMinted'
  BY <1>1 DEF IInv, TypeOK, RowsMatchClaims, JarsMinted, Minted
<1>3. Lasting
  BY DEF Lasting, Minted, HasRow, IsResetToken
<1> QED
  BY <1>1, <1>2, <1>3, StepOf

-----------------------------------------------------------------------------
(* Browsers *)

(* A request is sound when it is sent. *)
LEMMA CallStep ==
    ASSUME IInv, NEW r \in Requests, Call(r)
    PROVE  IInv'
<1> USE DEF Known, RefreshSound, ResetSound, LoginSound
<1>0. TypeOK
  BY DEF IInv
<1>1. CASE \E b \in Browsers : SendRefresh(r, b)
  <2>1. PICK b \in Browsers : SendRefresh(r, b)
    BY <1>1
  <2> DEFINE t == CookieFor(b, RefreshPath)
             q == [Idle EXCEPT !.op = "refresh", !.pc = "lookup",
                               !.browser = b, !.tok = t, !.dead = ~HasRow(t)]
  <2>2. t \in Tokens \cup {Nil} /\ (t # Nil => Minted(t))
    BY DEF IInv, TypeOK, CookieFor, JarsMinted
  <2>3. q \in Request
    BY <2>2, IdleType DEF Request, Ops, PCs
  <2>4. Known(q) /\ RefreshSound(q) /\ ResetSound(q) /\ LoginSound(q)
    BY <2>2, <2>3 DEF Idle
  <2> HIDE DEF q
  <2> QED
    BY <2>1, <2>3, <2>4, QuietStep DEF SendRefresh, Send, q
<1>2. CASE \E b \in Browsers : SendLogout(r, b)
  <2>1. PICK b \in Browsers : SendLogout(r, b)
    BY <1>2
  <2> DEFINE t == CookieFor(b, LogoutPath)
             h == cookie[b]
             q == [Idle EXCEPT !.op = "logout", !.pc = "lookup",
                               !.browser = b, !.tok = t, !.held = h]
  <2>2. t = Nil /\ h \in Tokens \cup {Nil}
    BY <1>0 DEF TypeOK, CookieFor, RefreshPath, LogoutPath
  <2>3. Becomes(r, q) /\ UNCHANGED <<tables, server, clocks, jars>>
    BY <2>1, Zenon DEF SendLogout, Send
  <2> HIDE DEF t, h
  <2>4. q \in Request
    BY <2>2, IdleType DEF Request, Ops, PCs
  <2>5. Known(q) /\ RefreshSound(q) /\ ResetSound(q) /\ LoginSound(q)
    BY <2>2 DEF Idle
  <2> HIDE DEF q
  <2> QED
    BY <2>3, <2>4, <2>5, QuietStep
<1>3. CASE \E b \in Browsers : SendSession(r, b)
  <2>1. PICK b \in Browsers : SendSession(r, b)
    BY <1>3
  <2> DEFINE q == [Idle EXCEPT !.op = "session", !.pc = "lookup",
                               !.browser = b, !.user = access[b]]
  <2>2. q \in Request
    BY <1>0, IdleType DEF TypeOK, Request, Ops, PCs
  <2>3. Known(q) /\ RefreshSound(q) /\ ResetSound(q) /\ LoginSound(q)
    BY <2>2 DEF Idle
  <2> HIDE DEF q
  <2> QED
    BY <2>1, <2>2, <2>3, QuietStep DEF SendSession, Send, q
<1>4. CASE \E b \in Browsers, u \in Users \cup {Nil}, p \in Passwords :
             SendLogin(r, b, u, p)
  <2>1. PICK b \in Browsers, u \in Users \cup {Nil}, p \in Passwords :
               SendLogin(r, b, u, p)
    BY <1>4
  <2> DEFINE d == IF u = Nil THEN {} ELSE {password_hash[u]}
             q == [Idle EXCEPT !.op = "login", !.pc = "lookup",
                               !.browser = b, !.user = u, !.pw = p,
                               !.during = d]
  <2>2. d \in SUBSET Passwords /\ (u # Nil => password_hash[u] \in d)
    BY <1>0 DEF TypeOK
  <2> HIDE DEF d
  <2>3. q \in Request
    BY <2>2, IdleType DEF Request, Ops, PCs
  <2>4. Known(q) /\ RefreshSound(q) /\ ResetSound(q) /\ LoginSound(q)
    BY <2>2, <2>3 DEF Idle
  <2>5. Becomes(r, q) /\ UNCHANGED <<tables, server, clocks, jars>>
    BY <2>1, Zenon DEF SendLogin, Send, d
  <2> HIDE DEF q
  <2> QED
    BY <2>3, <2>4, <2>5, QuietStep
<1>5. CASE \E u \in Users \cup {Nil} : SendForgot(r, u)
  <2>1. PICK u \in Users \cup {Nil} : SendForgot(r, u)
    BY <1>5
  <2> DEFINE q == [Idle EXCEPT !.op = "forgot", !.pc = "lookup", !.user = u]
  <2>2. q \in Request
    BY IdleType DEF Request, Ops, PCs
  <2>3. Known(q) /\ RefreshSound(q) /\ ResetSound(q) /\ LoginSound(q)
    BY <2>2 DEF Idle
  <2> HIDE DEF q
  <2> QED
    BY <2>1, <2>2, <2>3, QuietStep DEF SendForgot, Send, q
<1>6. CASE \E k \in ResetTokens, p \in Passwords : SendReset(r, k, p)
  <2>1. PICK k \in ResetTokens, p \in Passwords : SendReset(r, k, p)
    BY <1>6
  <2> DEFINE d == ~IsResetToken(k)
             q == [Idle EXCEPT !.op = "reset", !.pc = "lookup", !.tok = k,
                               !.pw = p, !.dead = d]
  <2>2. d \in BOOLEAN /\ (d => k \in drawn /\ ~IsResetToken(k))
    BY <2>1 DEF SendReset, IsResetToken
  <2>3. Becomes(r, q) /\ UNCHANGED <<tables, server, clocks, jars>>
    BY <2>1, Zenon DEF SendReset, Send
  <2> HIDE DEF d
  <2>4. q \in Request
    BY <2>2, IdleType DEF Request, Ops, PCs
  <2>5. Known(q) /\ RefreshSound(q) /\ ResetSound(q) /\ LoginSound(q)
    BY <2>2 DEF Idle
  <2> HIDE DEF q
  <2> QED
    BY <2>3, <2>4, <2>5, QuietStep
<1> QED
  BY <1>1, <1>2, <1>3, <1>4, <1>5, <1>6 DEF Call

(* A response is delivered, or lost. *)
LEMMA DeliverStep ==
    ASSUME IInv, NEW r \in Requests, Deliver(r) \/ Lose(r)
    PROVE  IInv'
<1> USE DEF tables, server, clocks, jars
<1>1. /\ req' \in [Requests -> Request]
      /\ req'[r] = Idle
      /\ \A o \in Requests \ {r} : req'[o] = req[o]
  BY IdleType, BecomesType DEF IInv, Deliver, Lose
<1>2. req[r].new \in Tokens \cup {Nil}
      /\ (req[r].new # Nil => Minted(req[r].new))
  BY DEF IInv, TypeOK, Request, Sound, Known
<1>3. /\ \A b \in Browsers : cookie'[b] \in {cookie[b], req[r].new}
      /\ \A b \in Browsers :
            access'[b] \in {access[b], Nil} \cup
                {u \in Users : req[r].new # Nil /\ u = claims[req[r].new]}
      /\ DOMAIN cookie' = Browsers /\ DOMAIN access' = Browsers
      /\ cookie' = [b \in Browsers |-> cookie'[b]]
      /\ access' = [b \in Browsers |-> access'[b]]
  <2>1. CASE Deliver(r)
    BY <1>2, <2>1 DEF Deliver, Minted
  <2>2. CASE Lose(r)
    BY <2>2 DEF Lose, IInv, TypeOK
  <2> QED
    BY <2>1, <2>2
<1>4. TypeOK' /\ JarsMinted'
  <2>1. UNCHANGED <<tables, server, clocks>>
    BY DEF Deliver, Lose
  <2>2. \A b \in Browsers : cookie'[b] \in Tokens \cup {Nil}
                            /\ access'[b] \in Users \cup {Nil}
    BY <1>2, <1>3 DEF IInv, TypeOK
  <2>3. cookie' \in [Browsers -> Tokens \cup {Nil}]
        /\ access' \in [Browsers -> Users \cup {Nil}]
    BY <1>3, <2>2
  <2> QED
    BY <1>1, <1>2, <1>3, <2>1, <2>3 DEF IInv, TypeOK, JarsMinted, Minted
<1>5. Lasting /\ RowsMatchClaims' /\ password_hash' = password_hash
  BY DEF Deliver, Lose, IInv, Lasting, Minted, HasRow, IsResetToken,
         RowsMatchClaims
<1>6. Sound(r)'
  BY <1>1 DEF Sound, Known, RefreshSound, ResetSound, LoginSound, Idle
<1> QED
  BY <1>1, <1>4, <1>5, <1>6, StepOf

-----------------------------------------------------------------------------
(* Handlers *)

(* An answer that claims nothing about rows. *)
LEMMA ReplyStep ==
    ASSUME IInv, NEW r \in Requests, NEW s \in Statuses \ {"compromised"},
           Reply(r, s) \/ ReplyFailed(r, s),
           s = "ok" => req[r].op \notin {"refresh", "reset"},
           req[r].op = "reset" => s = "bad_request",
           UNCHANGED <<tables, server, clocks, jars>>
    PROVE  IInv'
<1>1. PICK f \in BOOLEAN :
        Becomes(r, [req[r] EXCEPT !.pc = "replied", !.status = s,
                                  !.failed = f])
  <2>1. req[r] \in Request
    BY DEF IInv, TypeOK
  <2>2. [req[r] EXCEPT !.pc = "replied", !.status = s]
          = [req[r] EXCEPT !.pc = "replied", !.status = s,
                           !.failed = req[r].failed]
    BY <2>1 DEF Request
  <2> QED
    BY <2>1, <2>2 DEF Reply, ReplyFailed, Request
<1> DEFINE q == [req[r] EXCEPT !.pc = "replied", !.status = s, !.failed = f]
<1>2. req[r] \in Request /\ Sound(r)
  BY DEF IInv, TypeOK
<1>3. q \in Request
  BY <1>2 DEF Request, PCs
<1>4. Known(q) /\ RefreshSound(q) /\ ResetSound(q) /\ LoginSound(q)
  BY <1>2 DEF Request, Sound, Known, RefreshSound, ResetSound, LoginSound
<1> HIDE DEF q
<1> QED
  BY <1>1, <1>3, <1>4, QuietStep DEF q

(* GetUserByEmail and CheckPassword in Login.                              *)
LEMMA LoginLookupStep ==
    ASSUME IInv, NEW r \in Requests, LoginLookup(r)
    PROVE  IInv'
<1>1. CASE Goto(r, "create") /\ req[r].user # Nil
           /\ CheckPassword(req[r].pw, req[r].user)
  <2> DEFINE q == [req[r] EXCEPT !.pc = "create"]
  <2>1. req[r] \in Request /\ Sound(r) /\ req[r].op = "login"
    BY DEF IInv, TypeOK, LoginLookup, At
  <2>2. q \in Request
    BY <2>1 DEF Request, PCs
  <2>3. Known(q) /\ RefreshSound(q) /\ ResetSound(q) /\ LoginSound(q)
    BY <1>1, <2>1 DEF Request, Sound, Known, RefreshSound, ResetSound,
                      LoginSound, CheckPassword, LoginLookup, At
  <2> HIDE DEF q
  <2> QED
    BY <1>1, <2>2, <2>3, QuietStep DEF Goto, LoginLookup, q
<1>2. CASE Reply(r, "panic") \/ ReplyFailed(r, "panic")
           \/ Reply(r, "unauthorized")
  BY <1>2, ReplyStep DEF LoginLookup, At, Statuses
<1> QED
  BY <1>1, <1>2 DEF LoginLookup

(* CreateRefreshToken in issueTokens, for Login and for Refresh: the signed *)
(* token is new, so no other request can know it as a dead one.            *)
LEMMA IssueTokensStep ==
    ASSUME IInv, NEW r \in Requests, IssueTokens(r)
    PROVE  IInv'
<1> USE DEF server, clocks, jars
<1>1. req[r] \in Request /\ Sound(r) /\ req[r].pc = "create" /\ TypeOK
  BY DEF IInv, TypeOK, IssueTokens
<1> DEFINE u == req[r].user
<1>2. u \in Users /\ req[r].op \in {"login", "refresh"}
  BY <1>1 DEF Sound, Known
<1>3. PICK t \in Tokens, f \in BOOLEAN :
        /\ claims[t] = Nil
        /\ claims' = [claims EXCEPT ![t] = u]
        /\ \/ refresh_tokens' = refresh_tokens \cup {Row(u, t)}
           \/ refresh_tokens' = refresh_tokens
        /\ Becomes(r, [req[r] EXCEPT !.pc = "replied", !.status = "ok",
                                     !.new = t, !.failed = f])
        /\ req[r].failed => f
  <2>1. PICK t \in Tokens :
          /\ claims[t] = Nil
          /\ claims' = [claims EXCEPT ![t] = u]
          /\ \/ /\ refresh_tokens' = refresh_tokens \cup {Row(u, t)}
                /\ Becomes(r, [req[r] EXCEPT !.pc = "replied",
                                             !.status = "ok", !.new = t])
             \/ /\ refresh_tokens' = refresh_tokens
                /\ Becomes(r, [req[r] EXCEPT !.pc = "replied",
                                             !.status = "ok", !.new = t,
                                             !.failed = TRUE])
    BY DEF IssueTokens, NewRefreshToken
  <2>2. [req[r] EXCEPT !.pc = "replied", !.status = "ok", !.new = t]
          = [req[r] EXCEPT !.pc = "replied", !.status = "ok", !.new = t,
                           !.failed = req[r].failed]
        /\ req[r].failed \in BOOLEAN
    BY <1>1 DEF Request
  <2> QED
    BY <2>1, <2>2
<1> DEFINE q == [req[r] EXCEPT !.pc = "replied", !.status = "ok",
                               !.new = t, !.failed = f]
<1>4. q \in Request
  BY <1>1 DEF Request, PCs, Statuses
<1>5. /\ req' \in [Requests -> Request]
      /\ req'[r] = q
      /\ \A o \in Requests \ {r} : req'[o] = req[o]
  BY <1>1, <1>3, <1>4, BecomesType
<1>6. TypeOK'
  BY <1>1, <1>2, <1>3, <1>5, RowType DEF TypeOK, IssueTokens
<1>7. RowsMatchClaims' /\ JarsMinted'
  BY <1>1, <1>2, <1>3
     DEF IInv, TypeOK, RowsMatchClaims, JarsMinted, Minted, Row, IssueTokens
<1>8. Lasting
  BY <1>1, <1>2, <1>3 DEF TypeOK, Lasting, Minted, HasRow, IsResetToken, Row,
                          HashToken, IssueTokens
<1>9. Sound(r)'
  <2>1. /\ req'[r].op = req[r].op /\ req'[r].user = req[r].user
        /\ req'[r].tok = req[r].tok /\ req'[r].pw = req[r].pw
        /\ req'[r].dead = req[r].dead /\ req'[r].before = req[r].before
        /\ req'[r].during = req[r].during
        /\ req'[r].pc = "replied" /\ req'[r].status = "ok"
        /\ req'[r].new = t /\ req'[r].failed = f
    BY <1>1, <1>5 DEF Request
  <2>2. Minted(t)'
    BY <1>1, <1>2, <1>3 DEF TypeOK, Minted
  <2>3. Known(req[r])' /\ ResetSound(req[r])'
    BY <1>2, <2>1, <2>2 DEF Known, ResetSound
  <2>4. LoginSound(req[r])'
    BY <1>1, <2>1 DEF Sound, LoginSound, IssueTokens
  <2>5. RefreshSound(req[r])'
    <3> SUFFICES ASSUME req[r].op = "refresh"
                 PROVE  RefreshSound(req[r])'
      BY <2>1 DEF RefreshSound
    <3>1. req[r].tok = Nil \/ Minted(req[r].tok)
      BY <1>1 DEF Sound, RefreshSound
    <3>2. ~HasRow(Nil) /\ (~HasRow(Nil))'
      BY <1>7 DEF IInv, RowsMatchClaims, HasRow, Row, HashToken
    <3>3. Minted(req[r].tok) => Minted(req[r].tok)'
      BY <1>8, <2>1 DEF Lasting, Minted
    <3>4. ~HasRow(req[r].tok) => ~HasRow(req[r].tok)'
      BY <1>8, <2>1, <3>1, <3>2 DEF Lasting, Minted
    <3> QED
      BY <1>1, <1>3, <2>1, <3>1, <3>3, <3>4 DEF Sound, RefreshSound
  <2> QED
    BY <2>3, <2>4, <2>5 DEF Sound
<1> QED
  BY <1>5, <1>6, <1>7, <1>8, <1>9, StepOf DEF IssueTokens

(* VerifyToken and RefreshTokenExists in Refresh.                          *)
LEMMA RefreshCheckStep ==
    ASSUME IInv, NEW r \in Requests, RefreshCheck(r)
    PROVE  IInv'
<1>1. req[r] \in Request /\ Sound(r) /\ At(r, "refresh", "lookup")
  BY DEF IInv, TypeOK, RefreshCheck
<1> DEFINE t == req[r].tok
<1>2. CASE Reply(r, "unauthorized") \/ ReplyFailed(r, "error")
  BY <1>1, <1>2, ReplyStep DEF RefreshCheck, At, Statuses
<1>3. CASE VerifyToken(t)
           /\ \/ /\ RefreshTokenExists(claims[t], t)
                 /\ Becomes(r, [req[r] EXCEPT !.pc = "rotate",
                                              !.user = claims[t]])
              \/ /\ ~RefreshTokenExists(claims[t], t)
                 /\ Becomes(r, [req[r] EXCEPT !.pc = "revoke",
                                              !.user = claims[t]])
  <2>1. Minted(t) /\ t # Nil /\ t \in Tokens
    BY <1>1, <1>3 DEF Sound, RefreshSound, At, VerifyToken, Minted
  <2>2. claims[t] \in Users
    BY <2>1 DEF Minted
  <2>3. CASE RefreshTokenExists(claims[t], t)
    <3> DEFINE q == [req[r] EXCEPT !.pc = "rotate", !.user = claims[t]]
    <3>1. HasRow(t)
      BY <2>3 DEF RefreshTokenExists, HasRow, Row
    <3>2. q \in Request
      BY <1>1, <2>2 DEF Request, PCs
    <3>3. Known(q) /\ RefreshSound(q) /\ ResetSound(q) /\ LoginSound(q)
      BY <1>1, <2>1, <2>2, <3>1 DEF Request, At, Sound, Known, RefreshSound,
                                    ResetSound, LoginSound
    <3> HIDE DEF q
    <3> QED
      BY <1>3, <2>3, <3>2, <3>3, QuietStep DEF RefreshCheck, q
  <2>4. CASE ~RefreshTokenExists(claims[t], t)
    <3> DEFINE q == [req[r] EXCEPT !.pc = "revoke", !.user = claims[t]]
    <3>1. ~HasRow(t) \/ t \in lapsed
      BY <2>1, <2>4, RowsAreSigned DEF RefreshTokenExists
    <3>2. q \in Request
      BY <1>1, <2>2 DEF Request, PCs
    <3>3. Known(q) /\ RefreshSound(q) /\ ResetSound(q) /\ LoginSound(q)
      BY <1>1, <2>1, <2>2, <3>1 DEF Request, At, Sound, Known, RefreshSound,
                                    ResetSound, LoginSound
    <3> HIDE DEF q
    <3> QED
      BY <1>3, <2>4, <3>2, <3>3, QuietStep DEF RefreshCheck, q
  <2> QED
    BY <2>3, <2>4
<1> QED
  BY <1>2, <1>3 DEF RefreshCheck

(* Request r goes on to pc with answer s; f tells whether a statement of it *)
(* has failed.                                                             *)
GoesOn(r, pc, s, f) ==
    Becomes(r, [req[r] EXCEPT !.pc = pc, !.status = s, !.failed = f])

(* Reply, Goto and their failing forms are instances of GoesOn.            *)
LEMMA GoesOnAs ==
    ASSUME TypeOK, NEW r \in Requests, NEW pc, NEW s
    PROVE  /\ req[r].failed \in BOOLEAN
           /\ Reply(r, s) => GoesOn(r, "replied", s, req[r].failed)
           /\ ReplyFailed(r, s) => GoesOn(r, "replied", s, TRUE)
           /\ Goto(r, pc) => GoesOn(r, pc, req[r].status, req[r].failed)
           /\ GotoFailed(r, pc) => GoesOn(r, pc, req[r].status, TRUE)
<1>1. req[r] \in Request
  BY DEF TypeOK
<1>2. /\ req[r].failed \in BOOLEAN
      /\ [req[r] EXCEPT !.pc = "replied", !.status = s]
           = [req[r] EXCEPT !.pc = "replied", !.status = s,
                            !.failed = req[r].failed]
      /\ [req[r] EXCEPT !.pc = pc]
           = [req[r] EXCEPT !.pc = pc, !.status = req[r].status,
                            !.failed = req[r].failed]
      /\ [req[r] EXCEPT !.pc = pc, !.failed = TRUE]
           = [req[r] EXCEPT !.pc = pc, !.status = req[r].status,
                            !.failed = TRUE]
  BY <1>1 DEF Request
<1> QED
  BY <1>2 DEF GoesOn, Reply, ReplyFailed, Goto, GotoFailed

(* A statement that deletes rows, or fails to, and what follows it. *)
LEMMA DeletionStep ==
    ASSUME IInv, NEW r \in Requests, NEW pc \in PCs, NEW s \in Statuses,
           NEW f \in BOOLEAN, GoesOn(r, pc, s, f), req[r].failed => f,
           refresh_tokens' \subseteq refresh_tokens,
           UNCHANGED <<password_hash, password_reset_tokens, server, clocks,
                       jars>>,
           \/ /\ req[r].op = "refresh" /\ req[r].pc = "revoke"
              /\ pc = "replied" /\ s = "compromised"
           \/ /\ req[r].op = "refresh" /\ req[r].pc = "rotate"
              /\ pc = "create" /\ s = "none"
              /\ f \/ ~HasRow(req[r].tok)'
           \/ req[r].op = "logout" /\ pc = "replied" /\ s = "ok"
           \/ /\ req[r].op = "reset" /\ req[r].pc = "revoke"
              /\ pc = "replied" /\ s = "ok"
              /\ f \/ \A t \in req[r].before : ~HasRow(t)'
    PROVE  IInv'
<1> DEFINE q == [req[r] EXCEPT !.pc = pc, !.status = s, !.failed = f]
<1>1. req[r] \in Request /\ Sound(r)
  BY DEF IInv, TypeOK
<1>2. q \in Request
  BY <1>1 DEF Request
<1>3. /\ req'[r].op = req[r].op /\ req'[r].user = req[r].user
      /\ req'[r].tok = req[r].tok /\ req'[r].pw = req[r].pw
      /\ req'[r].dead = req[r].dead /\ req'[r].before = req[r].before
      /\ req'[r].during = req[r].during /\ req'[r].new = req[r].new
      /\ req'[r].pc = pc /\ req'[r].status = s /\ req'[r].failed = f
  <2>1. req'[r] = q
    BY DEF GoesOn, Becomes, IInv, TypeOK
  <2> QED
    BY <1>1, <2>1 DEF Request
<1>4. UNCHANGED <<claims, drawn, lapsed, password_hash, password_reset_tokens>>
  BY DEF server, clocks
<1>5. \A t : ~HasRow(t) => ~HasRow(t)'
  BY DEF HasRow
<1>6. Known(req[r])'
  BY <1>1, <1>3, <1>4 DEF Sound, Known, Minted
<1>7. RefreshSound(req[r])'
  <2>1. ~HasRow(req[r].tok) => ~HasRow(req[r].tok)'
    BY <1>3 DEF HasRow
  <2> QED
    BY <1>1, <1>3, <1>4, <2>1 DEF Sound, RefreshSound, Minted
<1>8. ResetSound(req[r])'
  BY <1>1, <1>3, <1>4, <1>5
     DEF Sound, ResetSound, Minted, IsResetToken
<1>9. LoginSound(req[r])'
  BY <1>1, <1>3, <1>4 DEF Sound, LoginSound
<1> HIDE DEF q
<1> QED
  BY <1>2, <1>6, <1>7, <1>8, <1>9, DeletingStep DEF Sound, GoesOn, q

(* DeleteAllRefreshTokens in Refresh.                                      *)
LEMMA RefreshRevokeStep ==
    ASSUME IInv, NEW r \in Requests, RefreshRevoke(r)
    PROVE  IInv'
<1>1. req[r] \in Request /\ At(r, "refresh", "revoke")
  BY DEF IInv, TypeOK, RefreshRevoke
<1>2. refresh_tokens' \subseteq refresh_tokens
  BY DEF RefreshRevoke, DeleteAllRefreshTokens
<1>3. PICK f \in BOOLEAN :
        /\ GoesOn(r, "replied", "compromised", f)
        /\ req[r].failed => f
  BY <1>1, GoesOnAs DEF RefreshRevoke, IInv
<1> QED
  BY <1>1, <1>2, <1>3, DeletionStep DEF RefreshRevoke, At, PCs, Statuses

(* DeleteRefreshToken in Refresh.                                          *)
LEMMA RefreshRotateStep ==
    ASSUME IInv, NEW r \in Requests, RefreshRotate(r)
    PROVE  IInv'
<1>1. req[r] \in Request /\ At(r, "refresh", "rotate")
      /\ req[r].status = "none"
  BY DEF IInv, TypeOK, RefreshRotate, Sound, Known, At
<1>2. refresh_tokens' \subseteq refresh_tokens
  BY DEF RefreshRotate, DeleteRefreshToken
<1>3. PICK f \in BOOLEAN :
        /\ GoesOn(r, "create", "none", f)
        /\ req[r].failed => f
        /\ f \/ refresh_tokens' = DeleteRefreshToken(req[r].tok)
  BY <1>1, GoesOnAs DEF RefreshRotate, IInv
<1>4. req'[r].tok = req[r].tok
  BY <1>1, <1>3 DEF GoesOn, Becomes, IInv, TypeOK, Request
<1>5. f \/ ~HasRow(req[r].tok)'
  BY <1>3, <1>4 DEF HasRow, DeleteRefreshToken
<1> QED
  BY <1>1, <1>2, <1>3, <1>5, DeletionStep
     DEF RefreshRotate, At, PCs, Statuses

(* DeleteRefreshToken in Logout.                                           *)
LEMMA LogoutStep ==
    ASSUME IInv, NEW r \in Requests, Logout(r)
    PROVE  IInv'
<1>1. req[r] \in Request /\ At(r, "logout", "lookup")
  BY DEF IInv, TypeOK, Logout
<1>2. refresh_tokens' \subseteq refresh_tokens
  BY DEF Logout, DeleteRefreshToken
<1>3. PICK f \in BOOLEAN :
        /\ GoesOn(r, "replied", "ok", f)
        /\ req[r].failed => f
  BY <1>1, GoesOnAs DEF Logout, IInv
<1> QED
  BY <1>1, <1>2, <1>3, DeletionStep DEF Logout, At, PCs, Statuses

(* The user's rows are those of its tokens, so a reset that deletes them   *)
(* leaves none of the tokens it found.                                     *)
LEMMA ResetRevokeStep ==
    ASSUME IInv, NEW r \in Requests, ResetRevoke(r)
    PROVE  IInv'
<1>1. req[r] \in Request /\ At(r, "reset", "revoke") /\ Sound(r)
  BY DEF IInv, TypeOK, ResetRevoke
<1>2. refresh_tokens' \subseteq refresh_tokens
  BY DEF ResetRevoke, DeleteAllRefreshTokens
<1>3. PICK f \in BOOLEAN :
        /\ GoesOn(r, "replied", "ok", f)
        /\ req[r].failed => f
        /\ f \/ refresh_tokens' = DeleteAllRefreshTokens(req[r].user)
  BY <1>1, GoesOnAs DEF ResetRevoke, IInv
<1>4. \A t \in req[r].before : /\ t \in Tokens
                               /\ claims[t] = req[r].user
  BY <1>1 DEF Sound, ResetSound, At, Minted
<1>5. ASSUME refresh_tokens' = DeleteAllRefreshTokens(req[r].user),
             NEW t \in req[r].before
      PROVE  ~HasRow(t)'
  <2> SUFFICES ASSUME HasRow(t)' PROVE FALSE
    OBVIOUS
  <2>1. PICK row \in refresh_tokens' : row.token_hash = HashToken(t)
    BY DEF HasRow
  <2>2. row.user_id # req[r].user /\ row \in refresh_tokens
    BY <1>5, <2>1 DEF DeleteAllRefreshTokens, RowsOf
  <2>3. PICK s \in Tokens : row = Row(claims[s], s)
    BY <2>2 DEF IInv, RowsMatchClaims
  <2>4. s = t
    BY <2>1, <2>3 DEF Row, HashToken
  <2> QED
    BY <1>4, <2>2, <2>3, <2>4 DEF Row
<1>6. f \/ \A t \in req[r].before : ~HasRow(t)'
  BY <1>3, <1>5
<1> QED
  BY <1>1, <1>2, <1>3, <1>6, DeletionStep DEF ResetRevoke, At, PCs, Statuses

(* GetUserSessions in Session.                                             *)
LEMMA SessionStep ==
    ASSUME IInv, NEW r \in Requests, Session(r)
    PROVE  IInv'
BY ReplyStep DEF Session, At, Statuses

(* GetUserByEmail in ForgotPassword.                                       *)
LEMMA ForgotLookupStep ==
    ASSUME IInv, NEW r \in Requests, ForgotLookup(r)
    PROVE  IInv'
<1>1. req[r] \in Request /\ At(r, "forgot", "lookup") /\ Sound(r)
  BY DEF IInv, TypeOK, ForgotLookup
<1>2. CASE Reply(r, "ok") \/ ReplyFailed(r, "ok")
  BY <1>2, ReplyStep DEF ForgotLookup, At, Statuses
<1>3. CASE req[r].user # Nil /\ Goto(r, "upsert")
  <2> DEFINE q == [req[r] EXCEPT !.pc = "upsert"]
  <2>1. q \in Request
    BY <1>1 DEF Request, PCs
  <2>2. Known(q) /\ RefreshSound(q) /\ ResetSound(q) /\ LoginSound(q)
    BY <1>1, <1>3 DEF Request, At, Sound, Known, RefreshSound, ResetSound,
                      LoginSound
  <2> HIDE DEF q
  <2> QED
    BY <1>3, <2>1, <2>2, QuietStep DEF ForgotLookup, Goto, q
<1> QED
  BY <1>2, <1>3 DEF ForgotLookup

(* UpsertPasswordResetToken in ForgotPassword: it may replace a token that *)
(* another request presents, never revive one.                             *)
LEMMA ForgotUpsertStep ==
    ASSUME IInv, NEW r \in Requests, ForgotUpsert(r)
    PROVE  IInv'
<1> USE DEF clocks, jars
<1>1. TypeOK /\ req[r] \in Request /\ At(r, "forgot", "upsert") /\ Sound(r)
  BY DEF IInv, TypeOK, ForgotUpsert
<1>2. PICK k \in ResetTokens \ drawn, f \in BOOLEAN :
        /\ drawn' = drawn \cup {k}
        /\ GoesOn(r, "replied", "ok", f)
        /\ \/ password_reset_tokens' =
                [password_reset_tokens EXCEPT ![req[r].user] = k]
           \/ password_reset_tokens' = password_reset_tokens
  BY <1>1, GoesOnAs DEF ForgotUpsert
<1> DEFINE q == [req[r] EXCEPT !.pc = "replied", !.status = "ok", !.failed = f]
<1>3. q \in Request
  BY <1>1 DEF Request, PCs, Statuses
<1>4. /\ req' \in [Requests -> Request]
      /\ req'[r] = q
      /\ \A o \in Requests \ {r} : req'[o] = req[o]
  BY <1>1, <1>2, <1>3, BecomesType DEF GoesOn
<1>5. UNCHANGED <<password_hash, refresh_tokens, claims, clocks, jars>>
  BY DEF ForgotUpsert
<1>6. TypeOK'
  BY <1>1, <1>2, <1>4, <1>5 DEF TypeOK
<1>7. RowsMatchClaims' /\ JarsMinted'
  BY <1>5 DEF IInv, RowsMatchClaims, JarsMinted, Minted
<1>8. Lasting
  BY <1>1, <1>2, <1>5 DEF TypeOK, Lasting, Minted, HasRow, IsResetToken
<1>9. Sound(r)'
  <2>1. /\ req'[r].op = "forgot" /\ req'[r].new = req[r].new
        /\ req'[r].pc = "replied" /\ req'[r].status = "ok"
    BY <1>1, <1>4 DEF Request, At
  <2> QED
    BY <1>1, <2>1 DEF At, Sound, Known, RefreshSound, ResetSound, LoginSound
<1> QED
  BY <1>4, <1>5, <1>6, <1>7, <1>8, <1>9, StepOf

(* GetUserIDByResetToken in ResetPassword, where the stored tokens that the *)
(* reset must revoke are fixed.                                            *)
LEMMA ResetLookupStep ==
    ASSUME IInv, NEW r \in Requests, ResetLookup(r)
    PROVE  IInv'
<1>1. TypeOK /\ req[r] \in Request /\ At(r, "reset", "lookup") /\ Sound(r)
  BY DEF IInv, TypeOK, ResetLookup
<1>2. CASE Reply(r, "bad_request") \/ ReplyFailed(r, "bad_request")
  BY <1>2, ReplyStep DEF ResetLookup, At, Statuses
<1>3. ASSUME NEW u \in Users, ResetTokenValid(u, req[r].tok),
             Becomes(r, [req[r] EXCEPT !.pc = "update", !.user = u,
                                       !.before = TokensOf(u),
                                       !.during = {password_hash[u]}])
      PROVE  IInv'
  <2> DEFINE q == [req[r] EXCEPT !.pc = "update", !.user = u,
                                 !.before = TokensOf(u),
                                 !.during = {password_hash[u]}]
  <2>1. TokensOf(u) \in SUBSET Tokens /\ {password_hash[u]} \in SUBSET Passwords
    BY <1>1 DEF TypeOK, TokensOf
  <2>2. q \in Request
    BY <1>1, <2>1 DEF Request, PCs
  <2>3. \A t \in TokensOf(u) : Minted(t) /\ claims[t] = u
    BY DEF IInv, RowsMatchClaims, TokensOf, Minted, Row, HashToken
  <2>4. ~req[r].dead
    BY <1>1, <1>3 DEF Sound, ResetSound, At, ResetTokenValid, IsResetToken
  <2>5. Known(q) /\ RefreshSound(q) /\ ResetSound(q) /\ LoginSound(q)
    BY <1>1, <2>3, <2>4 DEF Request, At, Sound, Known, RefreshSound,
                            ResetSound, LoginSound
  <2> HIDE DEF q
  <2> QED
    BY <1>3, <2>2, <2>5, QuietStep DEF ResetLookup, q
<1> QED
  BY <1>2, <1>3 DEF ResetLookup

(* The one step that touches other requests: it records the new password   *)
(* with those being served for the user.                                   *)
LEMMA ResetUpdateStep ==
    ASSUME IInv, NEW r \in Requests, ResetUpdate(r)
    PROVE  IInv'
<1> USE DEF server, clocks, jars
<1> DEFINE u == req[r].user
           p == req[r].pw
<1>1. TypeOK /\ req[r] \in Request /\ At(r, "reset", "update") /\ Sound(r)
  BY DEF IInv, TypeOK, ResetUpdate
<1>2. /\ u \in Users /\ p \in Passwords
      /\ req[r].status = "none" /\ ~req[r].dead
  BY <1>1 DEF At, Sound, Known, ResetSound
<1>3. UNCHANGED <<refresh_tokens, password_reset_tokens, claims, drawn,
                  expired, lapsed, cookie, access>>
  BY DEF ResetUpdate
<1>4. CASE GotoFailed(r, "forget") /\ password_hash' = password_hash
  <2> DEFINE q == [req[r] EXCEPT !.pc = "forget", !.failed = TRUE]
  <2>1. q \in Request
    BY <1>1 DEF Request, PCs
  <2>2. Known(q) /\ RefreshSound(q) /\ ResetSound(q) /\ LoginSound(q)
    BY <1>1, <1>2 DEF Request, At, Sound, Known, RefreshSound, ResetSound,
                      LoginSound
  <2> HIDE DEF q
  <2> QED
    BY <1>3, <1>4, <2>1, <2>2, QuietStep DEF GotoFailed, tables, q
<1>5. ASSUME password_hash' = [password_hash EXCEPT ![u] = p],
             req' = [q \in Requests |->
                       [req[q] EXCEPT
                          !.pc = IF q = r THEN "forget" ELSE @,
                          !.during = IF /\ req[q].user = u
                                        /\ req[q].op \in {"login", "reset"}
                                     THEN @ \cup {p} ELSE @]]
      PROVE  IInv'
  <2>1. ASSUME NEW o \in Requests
        PROVE  /\ req'[o] \in Request
               /\ req'[o].op = req[o].op /\ req'[o].user = req[o].user
               /\ req'[o].tok = req[o].tok /\ req'[o].pw = req[o].pw
               /\ req'[o].dead = req[o].dead /\ req'[o].before = req[o].before
               /\ req'[o].new = req[o].new /\ req'[o].status = req[o].status
               /\ req'[o].failed = req[o].failed
               /\ req'[o].pc = (IF o = r THEN "forget" ELSE req[o].pc)
               /\ req[o].during \subseteq req'[o].during
               /\ req[o].op = "login" /\ req[o].user = u => p \in req'[o].during
    <3>1. req[o] \in Request
      BY <1>1 DEF TypeOK
    <3> DEFINE pc == IF o = r THEN "forget" ELSE req[o].pc
               d == IF req[o].user = u /\ req[o].op \in {"login", "reset"}
                    THEN req[o].during \cup {p} ELSE req[o].during
    <3>2. req'[o] = [req[o] EXCEPT !.pc = pc, !.during = d]
      BY <1>5
    <3>3. pc \in PCs
      BY <3>1 DEF Request, PCs
    <3>4. /\ d \in SUBSET Passwords /\ req[o].during \subseteq d
          /\ req[o].op = "login" /\ req[o].user = u => p \in d
      BY <1>2, <3>1 DEF Request
    <3> HIDE DEF pc, d
    <3>5. req'[o] \in Request
      BY <3>1, <3>2, <3>3, <3>4 DEF Request
    <3> QED
      BY <3>1, <3>2, <3>4, <3>5 DEF Request, pc
  <2>2. TypeOK'
    <3>1. req' \in [Requests -> Request]
      BY <1>5, <2>1
    <3>2. password_hash' \in [Users -> Passwords]
      BY <1>1, <1>2, <1>5 DEF TypeOK
    <3> QED
      BY <1>1, <1>3, <3>1, <3>2 DEF TypeOK
  <2>3. RowsMatchClaims' /\ JarsMinted'
    BY <1>3 DEF IInv, RowsMatchClaims, JarsMinted, Minted
  <2>4. ASSUME NEW o \in Requests PROVE Sound(o)'
    <3>1. Sound(o)
      BY DEF IInv
    <3>2. Known(req[o])'
      BY <1>1, <1>2, <1>3, <2>1, <3>1 DEF At, Sound, Known, Minted
    <3>3. RefreshSound(req[o])'
      BY <1>1, <1>3, <2>1, <3>1 DEF At, Sound, RefreshSound, Minted, HasRow
    <3>4. ResetSound(req[o])'
      BY <1>1, <1>2, <1>3, <2>1, <3>1
         DEF At, Sound, ResetSound, Minted, HasRow, IsResetToken
    <3>5. LoginSound(req[o])'
      <4>1. req[o].user \in Users \cup {Nil}
        BY <1>1 DEF TypeOK, Request
      <4>2. \A v \in Users :
               password_hash'[v] = IF v = u THEN p ELSE password_hash[v]
        BY <1>1, <1>2, <1>5 DEF TypeOK
      <4>3. req[o].op = "login" => o # r
        BY <1>1 DEF At
      <4> QED
        BY <2>1, <3>1, <4>1, <4>2, <4>3 DEF Sound, LoginSound
    <3> QED
      BY <3>2, <3>3, <3>4, <3>5 DEF Sound
  <2> QED
    BY <2>2, <2>3, <2>4 DEF IInv
<1> QED
  BY <1>4, <1>5 DEF ResetUpdate

(* DeletePasswordResetToken in ResetPassword.                              *)
LEMMA ResetForgetStep ==
    ASSUME IInv, NEW r \in Requests, ResetForget(r)
    PROVE  IInv'
<1> USE DEF server, clocks, jars
<1>1. TypeOK /\ req[r] \in Request /\ At(r, "reset", "forget") /\ Sound(r)
  BY DEF IInv, TypeOK, ResetForget
<1>2. PICK f \in BOOLEAN :
        /\ GoesOn(r, "revoke", req[r].status, f)
        /\ \/ password_reset_tokens' =
                [password_reset_tokens EXCEPT ![req[r].user] = Nil]
           \/ password_reset_tokens' = password_reset_tokens
  BY <1>1, GoesOnAs DEF ResetForget
<1> DEFINE q == [req[r] EXCEPT !.pc = "revoke", !.status = req[r].status,
                               !.failed = f]
<1>3. q \in Request
  BY <1>1 DEF Request, PCs
<1>4. /\ req' \in [Requests -> Request]
      /\ req'[r] = q
      /\ \A o \in Requests \ {r} : req'[o] = req[o]
  BY <1>1, <1>2, <1>3, BecomesType DEF GoesOn
<1>5. UNCHANGED <<password_hash, refresh_tokens, claims, drawn, expired,
                  lapsed, cookie, access>>
  BY DEF ResetForget
<1>6. TypeOK'
  BY <1>1, <1>2, <1>4, <1>5 DEF TypeOK
<1>7. RowsMatchClaims' /\ JarsMinted'
  BY <1>5 DEF IInv, RowsMatchClaims, JarsMinted, Minted
<1>8. Lasting
  BY <1>1, <1>2, <1>5 DEF TypeOK, Lasting, Minted, HasRow, IsResetToken
<1>9. Sound(r)'
  <2>1. /\ req'[r].op = "reset" /\ req'[r].new = req[r].new
        /\ req'[r].user = req[r].user /\ req'[r].before = req[r].before
        /\ req'[r].dead = req[r].dead /\ req'[r].pw = req[r].pw
        /\ req'[r].pc = "revoke" /\ req'[r].status = req[r].status
    BY <1>1, <1>4 DEF Request, At
  <2>2. req[r].status = "none" /\ ~req[r].dead /\ req[r].user \in Users
        /\ req[r].new = Nil
    BY <1>1 DEF At, Sound, Known, ResetSound
  <2> QED
    BY <1>1, <1>5, <2>1, <2>2 DEF At, Sound, Known, RefreshSound, ResetSound,
                                  LoginSound, Minted
<1> QED
  BY <1>4, <1>5, <1>6, <1>7, <1>8, <1>9, StepOf

-----------------------------------------------------------------------------
(* Time *)

(* A token may pass its date on either clock. *)
LEMMA ClockStep ==
    ASSUME IInv,
           \/ \E t \in Perishable : Expire(t) \/ Lapse(t)
           \/ \E b \in Browsers : AccessExpires(b)
           \/ UNCHANGED vars
    PROVE  IInv'
<1> USE DEF tables, server, clocks, jars, vars
<1>1. /\ UNCHANGED <<password_hash, refresh_tokens, password_reset_tokens,
                     claims, drawn, cookie, req>>
      /\ lapsed \subseteq lapsed'
  BY DEF Expire, Lapse, AccessExpires
<1>2. TypeOK'
  BY <1>1 DEF IInv, TypeOK, Expire, Lapse, AccessExpires
<1>3. RowsMatchClaims' /\ JarsMinted'
  BY <1>1 DEF IInv, RowsMatchClaims, JarsMinted, Minted
<1>4. Lasting
  BY <1>1 DEF Lasting, Minted, HasRow, IsResetToken
<1>5. (~HasRow(Nil))'
  BY <1>3 DEF RowsMatchClaims, HasRow, Row, HashToken
<1>6. \A o \in Requests : Sound(o)'
  BY <1>1, <1>4, <1>5, Bystander
<1> QED
  BY <1>2, <1>3, <1>6 DEF IInv

-----------------------------------------------------------------------------
(* Theorems *)

(* The tables start with users, without tokens, and the jars empty. *)
LEMMA InitInv == Init => IInv
<1> SUFFICES ASSUME Init PROVE IInv
  OBVIOUS
<1>1. TypeOK
  BY IdleType DEF Init, TypeOK
<1>2. RowsMatchClaims /\ JarsMinted
  BY DEF Init, RowsMatchClaims, JarsMinted
<1>3. ASSUME NEW r \in Requests PROVE Sound(r)
  BY DEF Init, Idle, Sound, Known, RefreshSound, ResetSound, LoginSound
<1> QED
  BY <1>1, <1>2, <1>3 DEF IInv

(* Every step keeps the invariant, one lemma per action.                   *)
LEMMA NextInv == IInv /\ [Next]_vars => IInv'
<1> SUFFICES ASSUME IInv, [Next]_vars PROVE IInv'
  OBVIOUS
<1>1. ASSUME NEW r \in Requests, Handle(r) PROVE IInv'
  BY <1>1, LoginLookupStep, IssueTokensStep, RefreshCheckStep,
     RefreshRevokeStep, RefreshRotateStep, LogoutStep, SessionStep,
     ForgotLookupStep, ForgotUpsertStep, ResetLookupStep, ResetUpdateStep,
     ResetForgetStep, ResetRevokeStep
     DEF Handle
<1>2. ASSUME NEW r \in Requests, Call(r) \/ Deliver(r) \/ Lose(r) PROVE IInv'
  BY <1>2, CallStep, DeliverStep
<1>3. CASE \/ \E t \in Perishable : Expire(t) \/ Lapse(t)
           \/ \E b \in Browsers : AccessExpires(b)
           \/ UNCHANGED vars
  BY <1>3, ClockStep
<1> QED
  BY <1>1, <1>2, <1>3 DEF Next

(* The inductive invariant holds throughout: the handlers of AuthHanlder.go, *)
(* statement by statement, never leave it.                                 *)
THEOREM Invariance == Spec => []IInv
BY InitInv, NextInv, PTL DEF Spec

(* Every variable keeps its type; in particular no token is ever stored    *)
(* unhashed and no row names a user that does not exist.                   *)
THEOREM TypeCorrect == Spec => []TypeOK
<1>1. IInv => TypeOK
  BY DEF IInv
<1> QED
  BY <1>1, Invariance, PTL

(* Every row of refresh_tokens carries the subject of its signed token.    *)
THEOREM RowsSigned == Spec => []RowsMatchClaims
<1>1. IInv => RowsMatchClaims
  BY DEF IInv
<1> QED
  BY <1>1, Invariance, PTL

(* A refresh sent with a dead token yields no token, whatever any number   *)
(* of other requests do meanwhile.                                         *)
THEOREM RefreshReplayRefused == Spec => []NoRefreshReplay
<1>1. IInv => NoRefreshReplay
  BY DEF IInv, Sound, RefreshSound, NoRefreshReplay
<1> QED
  BY <1>1, Invariance, PTL

(* A reset token that was consumed or replaced is refused.                 *)
THEOREM ResetReplayRefused == Spec => []NoResetReplay
<1>1. IInv => NoResetReplay
  BY DEF IInv, Sound, ResetSound, NoResetReplay
<1> QED
  BY <1>1, Invariance, PTL

(* A reset whose statements were all executed leaves none of the tokens    *)
(* that were stored when it found its user.                                *)
THEOREM ResetRevokes == Spec => []ResetRevokesExisting
<1>1. IInv => ResetRevokesExisting
  BY DEF IInv, Sound, ResetSound, ResetRevokesExisting
<1> QED
  BY <1>1, Invariance, PTL

(* A login that issues tokens had its password right at some moment while  *)
(* it was served.                                                          *)
THEOREM LoginsLinearize == Spec => []LoginLinearizable
<1>1. IInv => LoginLinearizable
  BY DEF IInv, Sound, LoginSound, LoginLinearizable
<1> QED
  BY <1>1, Invariance, PTL

(* An exchanged token has no row unless a statement failed.                *)
THEOREM ExchangeKills == Spec => []ExchangedTokenIsDead
<1>1. IInv => ExchangedTokenIsDead
  BY DEF IInv, Sound, RefreshSound, ExchangedTokenIsDead
<1> QED
  BY <1>1, Invariance, PTL

(* "session compromised" is never said of a live token.                    *)
THEOREM CompromisedDead == Spec => []CompromisedIsDead
<1>1. IInv => CompromisedIsDead
  BY DEF IInv, Sound, Known, RefreshSound, CompromisedIsDead
<1> QED
  BY <1>1, Invariance, PTL

-----------------------------------------------------------------------------
(* Sessions implements SessionLedger *)

(* The ledger sees nothing but signatures and rows. *)
LEMMA KeepsLedger ==
    ASSUME claims' = claims, refresh_tokens' = refresh_tokens
    PROVE  UNCHANGED <<claims, Live>>
BY DEF Live, HasRow

(* Deleting the row of one token closes that token, if it was open. *)
LEMMA DeleteOneCloses ==
    ASSUME IInv, claims' = claims,
           NEW t, refresh_tokens' = DeleteRefreshToken(t)
    PROVE  [Ledger!Next]_<<claims, Live>>
<1>1. CASE t \notin Live
  <2>1. \A row \in refresh_tokens : row.token_hash # HashToken(t)
    BY <1>1 DEF IInv, RowsMatchClaims, Live, HasRow, Row, HashToken
  <2>2. refresh_tokens' = refresh_tokens
    BY <2>1 DEF DeleteRefreshToken
  <2> QED
    BY <2>2, KeepsLedger
<1>2. CASE t \in Live
  <2>1. t \in Tokens /\ claims[t] \in Users
    BY <1>2, RowsAreSigned DEF Live, Minted
  <2>2. Live' = Live \ {t}
    BY <1>2 DEF Live, HasRow, DeleteRefreshToken, HashToken
  <2>3. {t} \in SUBSET Ledger!OpenBy(claims[t])
    BY <1>2 DEF Ledger!OpenBy
  <2>4. Ledger!Close(claims[t])
    BY <2>2, <2>3 DEF Ledger!Close
  <2> QED
    BY <2>1, <2>4 DEF Ledger!Next
<1> QED
  BY <1>1, <1>2

(* Deleting the rows of a user closes its open tokens and no others. *)
LEMMA DeleteAllCloses ==
    ASSUME IInv, claims' = claims,
           NEW u \in Users, refresh_tokens' = DeleteAllRefreshTokens(u)
    PROVE  Ledger!Next
<1>1. Live' = Live \ Ledger!OpenBy(u)
  <2>1. ASSUME NEW t \in Tokens PROVE HasRow(t)' <=> HasRow(t) /\ claims[t] # u
    <3>1. ASSUME NEW row \in refresh_tokens, row.token_hash = HashToken(t)
          PROVE  row = Row(claims[t], t)
      BY <3>1 DEF IInv, RowsMatchClaims, Row, HashToken
    <3>2. Row(claims[t], t).user_id = claims[t]
      BY DEF Row
    <3> QED
      BY <3>1, <3>2 DEF HasRow, DeleteAllRefreshTokens, RowsOf
  <2> QED
    BY <2>1 DEF Live, Ledger!OpenBy
<1>2. Ledger!OpenBy(u) \in SUBSET Ledger!OpenBy(u)
  OBVIOUS
<1>3. Ledger!Close(u)
  BY <1>1, <1>2 DEF Ledger!Close
<1> QED
  BY <1>3 DEF Ledger!Next

(* issueTokens opens a token in the ledger, whether or not its row is stored. *)
LEMMA IssueOpens ==
    ASSUME IInv, NEW r \in Requests, IssueTokens(r)
    PROVE  Ledger!Next
<1> DEFINE u == req[r].user
<1>1. u \in Users /\ TypeOK
  BY DEF IInv, Sound, Known, IssueTokens
<1>2. PICK t \in Tokens :
        /\ claims[t] = Nil
        /\ claims' = [claims EXCEPT ![t] = u]
        /\ \/ refresh_tokens' = refresh_tokens \cup {Row(u, t)}
           \/ refresh_tokens' = refresh_tokens
  BY DEF IssueTokens, NewRefreshToken
<1>3. ~HasRow(t)
  BY <1>2, RowsAreSigned DEF Minted
<1>4. \A s \in Tokens : claims'[s] = IF s = t THEN u ELSE claims[s]
  BY <1>1, <1>2 DEF TypeOK
<1>5. \A s \in Tokens \ {t} : s \in Live' <=> s \in Live
  BY <1>2 DEF Live, HasRow, Row, HashToken
<1>6. t \notin Live
  BY <1>3 DEF Live
<1>7. Live \subseteq Tokens /\ Live' \subseteq Tokens
  BY DEF Live
<1>8. Live' \in {Live, Live \cup {t}}
  BY <1>5, <1>6, <1>7
<1>9. Ledger!Open(u, t)
  BY <1>2, <1>8 DEF Ledger!Open
<1> QED
  BY <1>1, <1>9 DEF Ledger!Next

(* Every step opens one token, closes tokens of one user, or changes nothing *)
(* that the ledger records.                                                *)
LEMMA LedgerStep == IInv /\ [Next]_vars => [Ledger!Next]_<<claims, Live>>
<1> USE DEF tables, server, clocks, jars
<1> SUFFICES ASSUME IInv, [Next]_vars
             PROVE  [Ledger!Next]_<<claims, Live>>
  OBVIOUS
<1>1. ASSUME NEW r \in Requests, IssueTokens(r)
      PROVE  Ledger!Next
  BY <1>1, IssueOpens
<1>2. ASSUME NEW r \in Requests, RefreshRevoke(r) \/ ResetRevoke(r)
      PROVE  [Ledger!Next]_<<claims, Live>>
  <2>1. req[r].user \in Users /\ claims' = claims
    BY <1>2 DEF RefreshRevoke, ResetRevoke, At, IInv, Sound, Known
  <2>2. \/ refresh_tokens' = DeleteAllRefreshTokens(req[r].user)
        \/ refresh_tokens' = refresh_tokens
    BY <1>2 DEF RefreshRevoke, ResetRevoke
  <2> QED
    BY <2>1, <2>2, KeepsLedger, DeleteAllCloses
<1>3. ASSUME NEW r \in Requests, RefreshRotate(r) \/ Logout(r)
      PROVE  [Ledger!Next]_<<claims, Live>>
  <2>1. claims' = claims
    BY <1>3 DEF RefreshRotate, Logout
  <2>2. \/ refresh_tokens' = DeleteRefreshToken(req[r].tok)
        \/ refresh_tokens' = refresh_tokens
    BY <1>3 DEF RefreshRotate, Logout
  <2> QED
    BY <2>1, <2>2, KeepsLedger, DeleteOneCloses
<1>4. ASSUME NEW r \in Requests,
             \/ Call(r) \/ Deliver(r) \/ Lose(r) \/ LoginLookup(r)
             \/ RefreshCheck(r) \/ Session(r) \/ ForgotLookup(r)
             \/ ForgotUpsert(r) \/ ResetLookup(r) \/ ResetUpdate(r)
             \/ ResetForget(r)
      PROVE  UNCHANGED <<claims, Live>>
  <2>1. claims' = claims /\ refresh_tokens' = refresh_tokens
    BY <1>4 DEF Call, Send, SendLogin, SendRefresh, SendLogout, SendSession,
                SendForgot, SendReset, Deliver, Lose, LoginLookup,
                RefreshCheck, Session, ForgotLookup, ForgotUpsert,
                ResetLookup, ResetUpdate, ResetForget
  <2> QED
    BY <2>1, KeepsLedger
<1>5. CASE \/ \E t \in Perishable : Expire(t) \/ Lapse(t)
           \/ \E b \in Browsers : AccessExpires(b)
           \/ UNCHANGED vars
  <2>1. claims' = claims /\ refresh_tokens' = refresh_tokens
    BY <1>5 DEF Expire, Lapse, AccessExpires, vars
  <2> QED
    BY <2>1, KeepsLedger
<1> QED
  BY <1>1, <1>2, <1>3, <1>4, <1>5 DEF Next, Handle

(* The handlers, interleaved statement by statement and failing where they *)
(* may, implement the ledger: each token is opened once and for one user,  *)
(* and every deletion is of tokens of one user.                            *)
THEOREM Refinement == Spec => ImplementsLedger
<1>1. Init => Ledger!Init
  BY DEF Init, Ledger!Init, Live, HasRow
<1> QED
  BY <1>1, InitInv, NextInv, LedgerStep, PTL
     DEF Spec, ImplementsLedger, Ledger!Spec

-----------------------------------------------------------------------------
(* Steps touch the rows of one user *)

Touches(u) ==
    \/ TokensOf(u)' # TokensOf(u)
    \/ password_hash'[u] # password_hash[u]
    \/ password_reset_tokens'[u] # password_reset_tokens[u]

(* A statement always moves the request it is executed for.                *)
LEMMA HandlerMoves ==
    ASSUME IInv, NEW r \in Requests, Handle(r)
    PROVE  req'[r] # req[r]
<1>1. req[r] \in Request /\ req \in [Requests -> Request]
  BY DEF IInv, TypeOK
<1>2. ASSUME NEW pc, NEW s, req[r].pc \notin {"replied", pc},
             \/ Reply(r, s) \/ ReplyFailed(r, s)
             \/ Goto(r, pc) \/ GotoFailed(r, pc)
      PROVE  req'[r] # req[r]
  <2>1. PICK x \in {"replied", pc} : \E t, f : GoesOn(r, x, t, f)
    BY <1>2, GoesOnAs DEF IInv
  <2>2. req'[r].pc = x
    BY <1>1, <2>1 DEF GoesOn, Becomes, Request
  <2> QED
    BY <1>2, <2>1, <2>2
<1>3. ASSUME NEW q, Becomes(r, q), q.pc # req[r].pc
      PROVE  req'[r] # req[r]
  <2>1. req'[r] = q
    BY <1>1, <1>3 DEF Becomes
  <2> QED
    BY <1>3, <2>1
<1>4. CASE IssueTokens(r)
  <2>1. \A t : /\ [req[r] EXCEPT !.pc = "replied", !.status = "ok",
                                !.new = t].pc = "replied"
              /\ [req[r] EXCEPT !.pc = "replied", !.status = "ok",
                                !.new = t, !.failed = TRUE].pc = "replied"
    BY <1>1 DEF Request
  <2> QED
    BY <1>3, <1>4, <2>1 DEF IssueTokens
<1>5. CASE RefreshCheck(r)
  <2>1. CASE Reply(r, "unauthorized") \/ ReplyFailed(r, "error")
    BY <1>2, <1>5, <2>1 DEF RefreshCheck, At
  <2>2. CASE \E u, pc : /\ Becomes(r, [req[r] EXCEPT !.pc = pc, !.user = u])
                        /\ pc \in {"rotate", "revoke"}
    <3>1. \A u, pc : [req[r] EXCEPT !.pc = pc, !.user = u].pc = pc
      BY <1>1 DEF Request
    <3> QED
      BY <1>3, <1>5, <2>2, <3>1 DEF RefreshCheck, At
  <2> QED
    BY <1>5, <2>1, <2>2 DEF RefreshCheck
<1>6. CASE ResetLookup(r)
  <2>1. CASE Reply(r, "bad_request") \/ ReplyFailed(r, "bad_request")
    BY <1>2, <1>6, <2>1 DEF ResetLookup, At
  <2>2. CASE \E u, b, d : Becomes(r, [req[r] EXCEPT !.pc = "update",
                                       !.user = u, !.before = b, !.during = d])
    <3>1. \A u, b, d : [req[r] EXCEPT !.pc = "update", !.user = u,
                                     !.before = b, !.during = d].pc = "update"
      BY <1>1 DEF Request
    <3>2. req[r].pc # "update"
      BY <1>6 DEF ResetLookup, At
    <3>3. PICK u, b, d : Becomes(r, [req[r] EXCEPT !.pc = "update",
                                     !.user = u, !.before = b, !.during = d])
      BY <2>2
    <3> DEFINE q == [req[r] EXCEPT !.pc = "update", !.user = u, !.before = b,
                                   !.during = d]
    <3>4. Becomes(r, q) /\ q.pc # req[r].pc
      BY <3>1, <3>2, <3>3
    <3> HIDE DEF q
    <3> QED
      BY <1>3, <3>4
  <2> QED
    BY <1>6, <2>1, <2>2 DEF ResetLookup
<1>7. CASE ResetUpdate(r)
  <2>1. CASE GotoFailed(r, "forget")
    BY <1>1, <1>3, <1>7, <2>1 DEF ResetUpdate, At, GotoFailed, Request
  <2>2. CASE req' = [q \in Requests |->
                       [req[q] EXCEPT
                          !.pc = IF q = r THEN "forget" ELSE @,
                          !.during = IF /\ req[q].user = req[r].user
                                        /\ req[q].op \in {"login", "reset"}
                                     THEN @ \cup {req[r].pw} ELSE @]]
    <3> DEFINE d == IF /\ req[r].user = req[r].user
                       /\ req[r].op \in {"login", "reset"}
                    THEN req[r].during \cup {req[r].pw} ELSE req[r].during
    <3>1. req'[r] = [req[r] EXCEPT !.pc = "forget", !.during = d]
      BY <2>2
    <3> HIDE DEF d
    <3>2. req'[r].pc = "forget"
      BY <1>1, <3>1 DEF Request
    <3> QED
      BY <1>7, <3>2 DEF ResetUpdate, At
  <2> QED
    BY <1>7, <2>1, <2>2 DEF ResetUpdate
<1>8. CASE LoginLookup(r) \/ Logout(r) \/ Session(r) \/ ForgotLookup(r)
           \/ RefreshRevoke(r) \/ RefreshRotate(r) \/ ResetForget(r)
           \/ ResetRevoke(r) \/ ForgotUpsert(r)
  BY <1>2, <1>8
     DEF LoginLookup, Logout, Session, ForgotLookup, RefreshRevoke,
         RefreshRotate, ResetForget, ResetRevoke, ForgotUpsert, At
<1> QED
  BY <1>4, <1>5, <1>6, <1>7, <1>8 DEF Handle

(* A step that touches what belongs to a user serves that user.            *)
LEMMA OwnRowsStep ==
    ASSUME IInv, [Next]_vars, NEW u \in Users, Touches(u)
    PROVE  \E r \in Requests : Serving(r, u)
<1> USE DEF tables, server, clocks, jars
<1>0. TypeOK
  BY DEF IInv
<1>1. ASSUME NEW r \in Requests, Handle(r)
      PROVE  req[r].user = u
  <2>1. CASE IssueTokens(r)
    <3>1. \A t \in Tokens : Row(u, t) = Row(req[r].user, t) => u = req[r].user
      BY DEF Row
    <3>2. PICK t \in Tokens :
            refresh_tokens' \in {refresh_tokens,
                                 refresh_tokens \cup {Row(req[r].user, t)}}
      BY <2>1 DEF IssueTokens
    <3>3. password_hash' = password_hash
          /\ password_reset_tokens' = password_reset_tokens
      BY <2>1 DEF IssueTokens
    <3> QED
      BY <3>2, <3>3 DEF Touches, TokensOf, Row
  <2>2. CASE RefreshRevoke(r) \/ ResetRevoke(r)
    <3>1. refresh_tokens' \in {refresh_tokens,
                               DeleteAllRefreshTokens(req[r].user)}
          /\ password_hash' = password_hash
          /\ password_reset_tokens' = password_reset_tokens
      BY <2>2 DEF RefreshRevoke, ResetRevoke
    <3> QED
      BY <3>1 DEF Touches, TokensOf, DeleteAllRefreshTokens, RowsOf, Row
  <2>3. CASE RefreshRotate(r) \/ Logout(r)
    <3>1. refresh_tokens' \in {refresh_tokens, DeleteRefreshToken(req[r].tok)}
          /\ password_hash' = password_hash
          /\ password_reset_tokens' = password_reset_tokens
      BY <2>3 DEF RefreshRotate, Logout
    <3>2. PICK t \in Tokens : Row(u, t) \in refresh_tokens
                              /\ Row(u, t).token_hash = HashToken(req[r].tok)
      BY <3>1 DEF Touches, TokensOf, DeleteRefreshToken
    <3>3. t = req[r].tok /\ t \in Tokens
      BY <3>2 DEF Row, HashToken
    <3>4. claims[t] = u
      BY <3>2 DEF IInv, RowsMatchClaims, Row, HashToken
    <3> QED
      BY <2>3, <3>3, <3>4 DEF RefreshRotate, Logout, At, IInv, Sound, Known,
                              RefreshSound
  <2>4. CASE ForgotUpsert(r) \/ ResetUpdate(r) \/ ResetForget(r)
    <3>1. refresh_tokens' = refresh_tokens
          /\ \A v \in Users \ {req[r].user} :
                /\ password_hash'[v] = password_hash[v]
                /\ password_reset_tokens'[v] = password_reset_tokens[v]
      BY <1>0, <2>4 DEF TypeOK, ForgotUpsert, ResetUpdate, ResetForget
    <3> QED
      BY <3>1 DEF Touches, TokensOf
  <2>5. CASE LoginLookup(r) \/ RefreshCheck(r) \/ Session(r)
             \/ ForgotLookup(r) \/ ResetLookup(r)
    BY <2>5 DEF Touches, TokensOf, LoginLookup, RefreshCheck, Session,
                ForgotLookup, ResetLookup
  <2> QED
    BY <1>1, <2>1, <2>2, <2>3, <2>4, <2>5 DEF Handle
<1>2. ASSUME NEW r \in Requests, Call(r) \/ Deliver(r) \/ Lose(r)
      PROVE  FALSE
  BY <1>2 DEF Touches, TokensOf, Call, Send, SendLogin, SendRefresh,
              SendLogout, SendSession, SendForgot, SendReset, Deliver, Lose
<1>3. CASE \/ \E t \in Perishable : Expire(t) \/ Lapse(t)
           \/ \E b \in Browsers : AccessExpires(b)
           \/ UNCHANGED vars
  BY <1>3 DEF Touches, TokensOf, Expire, Lapse, AccessExpires, vars
<1> QED
  BY <1>1, <1>2, <1>3, HandlerMoves DEF Next, Serving

(* No step of any interleaving touches the rows, the password or the reset *)
(* token of a user for whom no request is being served.                    *)
THEOREM OwnRowsOnly == Spec => ChangesOnlyOwnRows
<1>1. IInv /\ [Next]_vars =>
        [\A u \in Users :
           \/ TokensOf(u)' # TokensOf(u)
           \/ password_hash'[u] # password_hash[u]
           \/ password_reset_tokens'[u] # password_reset_tokens[u]
           => \E r \in Requests : Serving(r, u)]_vars
  BY OwnRowsStep DEF Touches
<1> QED
  BY <1>1, InitInv, NextInv, PTL DEF Spec, ChangesOnlyOwnRows

-----------------------------------------------------------------------------
(* The ledger: a token that was opened and is not live never becomes live. *)
THEOREM LedgerClosed == Ledger!Spec => Ledger!ClosedStaysClosed
<1>1. [Ledger!Next]_<<claims, Live>> =>
        [\A t \in Tokens :
           claims[t] # Nil /\ t \notin Live => t \notin Live']_<<claims, Live>>
  BY DEF Ledger!Next, Ledger!Open, Ledger!Close
<1> QED
  BY <1>1, PTL DEF Ledger!Spec, Ledger!ClosedStaysClosed
=============================================================================
