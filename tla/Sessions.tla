------------------------------ MODULE Sessions ------------------------------
(***************************************************************************)
(* The session life cycle of CourseLite: Login, Refresh, Logout, Session,  *)
(* ForgotPassword and ResetPassword of internal/handlers/AuthHanlder.go,   *)
(* over the three tables they share (sql/schema.sql) and the cookie jars   *)
(* of the browsers that call them.                                         *)
(*                                                                         *)
(* net/http runs every request in its own goroutine and no handler opens a *)
(* transaction, so a handler is a sequence of actions, one per database    *)
(* statement; the local work between two statements belongs to the action  *)
(* before it.  A statement of a request in Faulty may fail: the connection *)
(* broke, or r.Context() was cancelled because the client went away.       *)
(***************************************************************************)
EXTENDS Naturals, FiniteSets

CONSTANTS
    Users,        \* rows of the users table, all with a password
    Browsers,     \* cookie jars; the tabs of one browser share a jar
    Requests,     \* slots for the requests being served at one time
    Tokens,       \* refresh tokens the server may sign (bounds issuing)
    ResetTokens,  \* password reset tokens it may draw (bounds forgetting)
    Passwords,
    Nil,          \* no cookie, no row, no such user
    Faulty,       \* requests whose database statements may fail
    Perishable,   \* tokens that may outlive their expiry date
    FillsValues   \* does ParseWithClaims fill a Claims passed by value?

ASSUME SessionsAssumption ==
    /\ Nil \notin Users \cup Browsers \cup Tokens \cup ResetTokens \cup Passwords
    /\ Tokens \cap ResetTokens = {}
    /\ Faulty \subseteq Requests
    /\ Perishable \subseteq Tokens \cup ResetTokens
    /\ FillsValues \in BOOLEAN

VARIABLES
    password_hash,          \* users.password_hash, as the password it verifies
    refresh_tokens,         \* the refresh_tokens table
    password_reset_tokens,  \* user_id is UNIQUE: at most one token per user
    claims,                 \* the user_id signed into each refresh token
    drawn,                  \* the reset tokens drawn by randomHex
    expired,                \* tokens past their exp claim on the server's clock
    lapsed,                 \* tokens past expires_at on the database's clock
    cookie,                 \* the refresh_token cookie of each browser
    access,                 \* the user_id in its access_token cookie
    req                     \* the requests being served

tables == <<password_hash, refresh_tokens, password_reset_tokens>>
server == <<claims, drawn>>
clocks == <<expired, lapsed>>
jars   == <<cookie, access>>
vars   == <<tables, server, clocks, jars, req>>

-----------------------------------------------------------------------------
(* Values *)

HashToken(t) == <<"sha256", t>>

RefreshRow == [user_id: Users, token_hash: {HashToken(t) : t \in Tokens}]

RawRow(u, t) == [user_id |-> u, token_hash |-> t]  \* mutant: not hashed

Row(u, t) == [user_id |-> u, token_hash |-> HashToken(t)]

HasRow(t) == \E row \in refresh_tokens : row.token_hash = HashToken(t)

RowsOf(u) == {row \in refresh_tokens : row.user_id = u}

TokensOf(u) == {t \in Tokens : Row(u, t) \in refresh_tokens}

IsResetToken(k) == \E u \in Users : password_reset_tokens[u] = k

(* The fields after status are history: whether a statement failed, whether *)
(* the presented token had no row when the request was sent, the tokens     *)
(* stored when a reset looked its own up, the cookie held by the browser    *)
(* that logs out, and the passwords the user had while being served.        *)
Idle == [op |-> "none", pc |-> "idle", browser |-> Nil, user |-> Nil,
         tok |-> Nil, pw |-> Nil, new |-> Nil, status |-> "none",
         failed |-> FALSE, dead |-> FALSE, before |-> {}, held |-> Nil,
         during |-> {}]

Ops == {"none", "login", "refresh", "logout", "session", "forgot", "reset"}

PCs == {"idle", "lookup", "rotate", "revoke", "create", "upsert", "update",
        "forget", "replied"}

Statuses == {"none", "ok", "unauthorized", "compromised", "bad_request",
             "error", "panic"}

Request ==
    [op: Ops, pc: PCs, browser: Browsers \cup {Nil}, user: Users \cup {Nil},
     tok: Tokens \cup ResetTokens \cup {Nil}, pw: Passwords \cup {Nil},
     new: Tokens \cup {Nil}, status: Statuses, failed: BOOLEAN,
     dead: BOOLEAN, before: SUBSET Tokens, held: Tokens \cup {Nil},
     during: SUBSET Passwords]

TypeOK ==
    /\ password_hash \in [Users -> Passwords]
    /\ refresh_tokens \subseteq RefreshRow
    /\ password_reset_tokens \in [Users -> ResetTokens \cup {Nil}]
    /\ claims \in [Tokens -> Users \cup {Nil}]
    /\ drawn \subseteq ResetTokens
    /\ expired \subseteq Tokens
    /\ lapsed \subseteq Tokens \cup ResetTokens
    /\ cookie \in [Browsers -> Tokens \cup {Nil}]
    /\ access \in [Browsers -> Users \cup {Nil}]
    /\ req \in [Requests -> Request]

Init ==
    /\ password_hash \in [Users -> Passwords]
    /\ refresh_tokens = {}
    /\ password_reset_tokens = [u \in Users |-> Nil]
    /\ claims = [t \in Tokens |-> Nil]
    /\ drawn = {}
    /\ expired = {}
    /\ lapsed = {}
    /\ cookie = [b \in Browsers |-> Nil]
    /\ access = [b \in Browsers |-> Nil]
    /\ req = [r \in Requests |-> Idle]

Becomes(r, q) == req' = [req EXCEPT ![r] = q]

-----------------------------------------------------------------------------
(* Browsers *)

RefreshPath == "/api/auth/refresh"

LogoutPath == "/api/auth/logout"

(* A browser attaches a cookie to the requests its Path covers; issueTokens *)
(* sets refresh_token with Path RefreshPath.                                *)
CookieFor(b, path) == IF path = RefreshPath THEN cookie[b] ELSE Nil

(* Bounds: a request that will sign a token finds one left to sign. *)
TokensLeft ==
    Cardinality({t \in Tokens : claims[t] = Nil})
        > Cardinality({r \in Requests : /\ req[r].op \in {"login", "refresh"}
                                        /\ req[r].pc # "replied"})

ResetTokensLeft ==
    Cardinality(ResetTokens \ drawn)
        > Cardinality({r \in Requests : /\ req[r].op = "forgot"
                                        /\ req[r].pc # "replied"})

Send(r, q) ==
    /\ req[r].pc = "idle"
    /\ Becomes(r, q)
    /\ UNCHANGED <<tables, server, clocks, jars>>

(* u = Nil is an address that has no account. *)
SendLogin(r, b, u, p) ==
    /\ TokensLeft
    /\ Send(r, [Idle EXCEPT !.op = "login", !.pc = "lookup", !.browser = b,
                            !.user = u, !.pw = p,
                            !.during = IF u = Nil THEN {}
                                       ELSE {password_hash[u]}])

SendRefresh(r, b) ==
    /\ TokensLeft
    /\ LET t == CookieFor(b, RefreshPath) IN
       Send(r, [Idle EXCEPT !.op = "refresh", !.pc = "lookup", !.browser = b,
                            !.tok = t, !.dead = ~HasRow(t)])

SendLogout(r, b) ==
    Send(r, [Idle EXCEPT !.op = "logout", !.pc = "lookup", !.browser = b,
                         !.tok = CookieFor(b, LogoutPath),
                         !.held = cookie[b]])

SendSession(r, b) ==
    Send(r, [Idle EXCEPT !.op = "session", !.pc = "lookup", !.browser = b,
                         !.user = access[b]])

SendForgot(r, u) ==
    /\ ResetTokensLeft
    /\ Send(r, [Idle EXCEPT !.op = "forgot", !.pc = "lookup", !.user = u])

(* The reset link is to be mailed by code that is not written yet; any     *)
(* token drawn so far may come back in a link.                             *)
SendReset(r, k, p) ==
    /\ k \in drawn
    /\ Send(r, [Idle EXCEPT !.op = "reset", !.pc = "lookup", !.tok = k,
                            !.pw = p, !.dead = ~IsResetToken(k)])

(* The response arrives: Set-Cookie replaces the cookies in the jar. *)
Deliver(r) ==
    LET q == req[r]
        set == q.new # Nil
        clear == q.op = "logout"
    IN  /\ q.pc = "replied"
        /\ cookie' = [b \in Browsers |->
                        IF b = q.browser /\ (set \/ clear) THEN q.new
                                                           ELSE cookie[b]]
        /\ access' = [b \in Browsers |->
                        IF b # q.browser \/ ~(set \/ clear) THEN access[b]
                        ELSE IF set THEN claims[q.new] ELSE Nil]
        /\ Becomes(r, Idle)
        /\ UNCHANGED <<tables, server, clocks>>

(* The response is lost with its cookies. *)
Lose(r) ==
    /\ req[r].pc = "replied"
    /\ Becomes(r, Idle)
    /\ UNCHANGED <<tables, server, clocks, jars>>

-----------------------------------------------------------------------------
(* Statements *)

At(r, op, pc) == req[r].op = op /\ req[r].pc = pc

Reply(r, s) == Becomes(r, [req[r] EXCEPT !.pc = "replied", !.status = s])

ReplyFailed(r, s) ==
    Becomes(r, [req[r] EXCEPT !.pc = "replied", !.status = s, !.failed = TRUE])

Goto(r, pc) == Becomes(r, [req[r] EXCEPT !.pc = pc])

GotoFailed(r, pc) == Becomes(r, [req[r] EXCEPT !.pc = pc, !.failed = TRUE])

\* mutant: compares the hashes with the token itself
DeleteUnhashed(t) == {row \in refresh_tokens : row.token_hash # t}

DeleteRefreshToken(t) ==
    {row \in refresh_tokens : row.token_hash # HashToken(t)}

DeleteEveryones(u) == {}  \* mutant: no WHERE clause

\* mutant: takes only the rows past their date
DeleteLapsed(u) ==
    refresh_tokens \ {Row(u, t) : t \in Tokens \cap lapsed}

DeleteAllRefreshTokens(u) == refresh_tokens \ RowsOf(u)

ExistsForUser(u, t) == RowsOf(u) # {}  \* mutant: token_hash is not compared

\* mutant: expires_at is compared the wrong way round
ExistsIfLapsed(u, t) == Row(u, t) \in refresh_tokens /\ t \in lapsed

RefreshTokenExists(u, t) == Row(u, t) \in refresh_tokens /\ t \notin lapsed

\* mutant: any token ever drawn will do
WasDrawn(u, k) == k \in drawn /\ k \notin lapsed

ResetTokenValid(u, k) == password_reset_tokens[u] = k /\ k \notin lapsed

AnyPassword(p, u) == TRUE  \* mutant: the result is not looked at

CheckPassword(p, u) == p = password_hash[u]

SignNobody(u, t) == claims  \* mutant: UserID is not set

NewRefreshToken(u, t) == [claims EXCEPT ![t] = u]

(* VerifyToken, given t the token of a cookie or Nil: its date, and the     *)
(* claims it is decoded into, Claims{} by value.  The library that go.mod   *)
(* pins does not fill them: as shipped the program refuses every token, and *)
(* FillsValues = TRUE is the program that jwt.go's comment describes.       *)
VerifyToken(t) == t # Nil /\ t \notin expired /\ FillsValues

-----------------------------------------------------------------------------
(* Login: GetUserByEmail and CheckPassword, then issueTokens.  A failed    *)
(* lookup leaves user.PasswordHash nil; the handler dereferences it before *)
(* it looks at err, and chi's Recoverer answers 500.                       *)
LoginLookup(r) ==
    /\ At(r, "login", "lookup")
    /\ \/ /\ req[r].user = Nil
          /\ Reply(r, "panic")
       \/ /\ r \in Faulty
          /\ ReplyFailed(r, "panic")
       \/ /\ req[r].user # Nil
          /\ ~CheckPassword(req[r].pw, req[r].user)
          /\ Reply(r, "unauthorized")
       \/ /\ req[r].user # Nil
          /\ CheckPassword(req[r].pw, req[r].user)
          /\ Goto(r, "create")
    /\ UNCHANGED <<tables, server, clocks, jars>>

(* issueTokens: sign a token with a fresh jti, insert its row (the error   *)
(* is discarded) and answer 200 with both cookies.                         *)
IssueTokens(r) ==
    /\ req[r].pc = "create"
    /\ \E t \in Tokens :
        /\ claims[t] = Nil
        /\ claims' = NewRefreshToken(req[r].user, t)
        /\ \/ /\ refresh_tokens' = refresh_tokens \cup {Row(req[r].user, t)}
              /\ Becomes(r, [req[r] EXCEPT !.pc = "replied", !.status = "ok",
                                           !.new = t])
           \/ /\ r \in Faulty
              /\ refresh_tokens' = refresh_tokens
              /\ Becomes(r, [req[r] EXCEPT !.pc = "replied", !.status = "ok",
                                           !.new = t, !.failed = TRUE])
    /\ UNCHANGED <<password_hash, password_reset_tokens, drawn, clocks, jars>>

(* Refresh: verify the cookie's token, then RefreshTokenExists. *)
RefreshCheck(r) ==
    /\ At(r, "refresh", "lookup")
    /\ LET t == req[r].tok
       IN  \/ /\ ~VerifyToken(t)
              /\ Reply(r, "unauthorized")
           \/ /\ VerifyToken(t)
              /\ r \in Faulty
              /\ ReplyFailed(r, "error")
           \/ /\ VerifyToken(t)
              /\ RefreshTokenExists(claims[t], t)
              /\ Becomes(r, [req[r] EXCEPT !.pc = "rotate", !.user = claims[t]])
           \/ /\ VerifyToken(t)
              /\ ~RefreshTokenExists(claims[t], t)
              /\ Becomes(r, [req[r] EXCEPT !.pc = "revoke", !.user = claims[t]])
    /\ UNCHANGED <<tables, server, clocks, jars>>

(* An unknown token ends every session of its user; the error is discarded. *)
RefreshRevoke(r) ==
    /\ At(r, "refresh", "revoke")
    /\ \/ /\ refresh_tokens' = DeleteAllRefreshTokens(req[r].user)
          /\ Reply(r, "compromised")
       \/ /\ r \in Faulty
          /\ refresh_tokens' = refresh_tokens
          /\ ReplyFailed(r, "compromised")
    /\ UNCHANGED <<password_hash, password_reset_tokens, server, clocks, jars>>

(* The presented token is deleted, error discarded, before IssueTokens. *)
RefreshRotate(r) ==
    /\ At(r, "refresh", "rotate")
    /\ \/ /\ refresh_tokens' = DeleteRefreshToken(req[r].tok)
          /\ Goto(r, "create")
       \/ /\ r \in Faulty
          /\ refresh_tokens' = refresh_tokens
          /\ GotoFailed(r, "create")
    /\ UNCHANGED <<password_hash, password_reset_tokens, server, clocks, jars>>

(* Logout deletes the row of the cookie it is sent, if it is sent one. *)
Logout(r) ==
    /\ At(r, "logout", "lookup")
    /\ \/ /\ refresh_tokens' = DeleteRefreshToken(req[r].tok)
          /\ Reply(r, "ok")
       \/ /\ r \in Faulty
          /\ refresh_tokens' = refresh_tokens
          /\ ReplyFailed(r, "ok")
    /\ UNCHANGED <<password_hash, password_reset_tokens, server, clocks, jars>>

(* Session lists the rows of the user named by the access token. *)
Session(r) ==
    /\ At(r, "session", "lookup")
    /\ \/ /\ req[r].user = Nil \/ ~FillsValues
          /\ Reply(r, "unauthorized")
       \/ /\ req[r].user # Nil /\ FillsValues
          /\ r \in Faulty
          /\ ReplyFailed(r, "error")
       \/ /\ req[r].user # Nil /\ FillsValues
          /\ Reply(r, "ok")
    /\ UNCHANGED <<tables, server, clocks, jars>>

(* ForgotPassword answers 200 whatever it finds. *)
ForgotLookup(r) ==
    /\ At(r, "forgot", "lookup")
    /\ \/ /\ req[r].user = Nil
          /\ Reply(r, "ok")
       \/ /\ r \in Faulty
          /\ ReplyFailed(r, "ok")
       \/ /\ req[r].user # Nil
          /\ Goto(r, "upsert")
    /\ UNCHANGED <<tables, server, clocks, jars>>

ForgotUpsert(r) ==
    /\ At(r, "forgot", "upsert")
    /\ \E k \in ResetTokens \ drawn :
        /\ drawn' = drawn \cup {k}
        /\ \/ /\ password_reset_tokens' =
                    [password_reset_tokens EXCEPT ![req[r].user] = k]
              /\ Reply(r, "ok")
           \/ /\ r \in Faulty
              /\ password_reset_tokens' = password_reset_tokens
              /\ ReplyFailed(r, "ok")
    /\ UNCHANGED <<password_hash, refresh_tokens, claims, clocks, jars>>

(* ResetPassword: find the user of the token, then three statements whose  *)
(* errors are discarded.                                                   *)
ResetLookup(r) ==
    /\ At(r, "reset", "lookup")
    /\ \/ /\ r \in Faulty
          /\ ReplyFailed(r, "bad_request")
       \/ /\ \A u \in Users : ~ResetTokenValid(u, req[r].tok)
          /\ Reply(r, "bad_request")
       \/ \E u \in Users :
            /\ ResetTokenValid(u, req[r].tok)
            /\ Becomes(r, [req[r] EXCEPT !.pc = "update", !.user = u,
                                         !.before = TokensOf(u),
                                         !.during = {password_hash[u]}])
    /\ UNCHANGED <<tables, server, clocks, jars>>

(* The other requests being served for the user see its password change. *)
ResetUpdate(r) ==
    LET u == req[r].user
        p == req[r].pw
    IN  /\ At(r, "reset", "update")
        /\ \/ /\ password_hash' = [password_hash EXCEPT ![u] = p]
              /\ req' = [q \in Requests |->
                           [req[q] EXCEPT
                              !.pc = IF q = r THEN "forget" ELSE @,
                              !.during = IF /\ req[q].user = u
                                            /\ req[q].op \in {"login", "reset"}
                                         THEN @ \cup {p} ELSE @]]
           \/ /\ r \in Faulty
              /\ password_hash' = password_hash
              /\ GotoFailed(r, "forget")
        /\ UNCHANGED <<refresh_tokens, password_reset_tokens, server, clocks,
                       jars>>

ResetForget(r) ==
    /\ At(r, "reset", "forget")
    /\ \/ /\ password_reset_tokens' =
                [password_reset_tokens EXCEPT ![req[r].user] = Nil]
          /\ Goto(r, "revoke")
       \/ /\ r \in Faulty
          /\ password_reset_tokens' = password_reset_tokens
          /\ GotoFailed(r, "revoke")
    /\ UNCHANGED <<password_hash, refresh_tokens, server, clocks, jars>>

ResetRevoke(r) ==
    /\ At(r, "reset", "revoke")
    /\ \/ /\ refresh_tokens' = DeleteAllRefreshTokens(req[r].user)
          /\ Reply(r, "ok")
       \/ /\ r \in Faulty
          /\ refresh_tokens' = refresh_tokens
          /\ ReplyFailed(r, "ok")
    /\ UNCHANGED <<password_hash, password_reset_tokens, server, clocks, jars>>

-----------------------------------------------------------------------------
(* Time.  The exp claim is compared with the server's clock, expires_at    *)
(* with the database's NOW(): a token may pass either date first.          *)

Expire(t) ==
    /\ t \in Tokens /\ claims[t] # Nil
    /\ t \notin expired
    /\ expired' = expired \cup {t}
    /\ UNCHANGED <<tables, server, lapsed, jars, req>>

Lapse(t) ==
    /\ t \in drawn \/ (t \in Tokens /\ claims[t] # Nil)
    /\ t \notin lapsed
    /\ lapsed' = lapsed \cup {t}
    /\ UNCHANGED <<tables, server, expired, jars, req>>

(* The access token lives 15 minutes, in the cookie and in its claim. *)
AccessExpires(b) ==
    /\ access[b] # Nil
    /\ access' = [access EXCEPT ![b] = Nil]
    /\ UNCHANGED <<tables, server, clocks, cookie, req>>

-----------------------------------------------------------------------------
Handle(r) ==
    \/ LoginLookup(r) \/ IssueTokens(r)
    \/ RefreshCheck(r) \/ RefreshRevoke(r) \/ RefreshRotate(r)
    \/ Logout(r) \/ Session(r)
    \/ ForgotLookup(r) \/ ForgotUpsert(r)
    \/ ResetLookup(r) \/ ResetUpdate(r) \/ ResetForget(r) \/ ResetRevoke(r)

Call(r) ==
    \/ \E b \in Browsers : \/ SendRefresh(r, b)
                           \/ SendLogout(r, b)
                           \/ SendSession(r, b)
                           \/ \E u \in Users \cup {Nil}, p \in Passwords :
                                SendLogin(r, b, u, p)
    \/ \E u \in Users \cup {Nil} : SendForgot(r, u)
    \/ \E k \in ResetTokens, p \in Passwords : SendReset(r, k, p)

Next ==
    \/ \E r \in Requests : Call(r) \/ Handle(r) \/ Deliver(r) \/ Lose(r)
    \/ \E t \in Perishable : Expire(t) \/ Lapse(t)
    \/ \E b \in Browsers : AccessExpires(b)

Spec == Init /\ [][Next]_vars

-----------------------------------------------------------------------------
(* Safety *)

(* A refresh whose token had no row when it was sent - exchanged, revoked  *)
(* or never stored - signs no token, whatever the other requests do while  *)
(* it is served: a row, once gone, never comes back.                       *)
NoRefreshReplay ==
    \A r \in Requests :
        req[r].op = "refresh" /\ req[r].dead =>
            req[r].pc \notin {"rotate", "create"} /\ req[r].new = Nil

(* A reset token that was consumed or replaced before a ResetPassword was  *)
(* sent does not get that request past its lookup.                         *)
NoResetReplay ==
    \A r \in Requests :
        req[r].op = "reset" /\ req[r].dead =>
            req[r].pc = "lookup" \/ req[r].status = "bad_request"

(* Once ResetPassword has answered 200 with every statement executed, no   *)
(* refresh token that was stored when its reset token was looked up has a  *)
(* row, however logins, refreshes and other resets interleaved with it.    *)
ResetRevokesExisting ==
    \A r \in Requests :
        req[r].op = "reset" /\ req[r].status = "ok" /\ ~req[r].failed =>
            \A t \in req[r].before : ~HasRow(t)

(* A login that issues tokens was sent with a password that was the        *)
(* user's at some moment while it was served, resets running beside it     *)
(* notwithstanding.                                                        *)
LoginLinearizable ==
    \A r \in Requests :
        req[r].op = "login" /\ req[r].new # Nil => req[r].pw \in req[r].during

(* When a refresh answers 200 and no statement of it failed, the token it  *)
(* exchanged has no row: the browser never holds a live predecessor.       *)
ExchangedTokenIsDead ==
    \A r \in Requests :
        req[r].op = "refresh" /\ req[r].status = "ok" /\ ~req[r].failed =>
            ~HasRow(req[r].tok)

(* "session compromised" is answered only for a token that has no row or   *)
(* whose row is past its date; it stays so for as long as the answer is    *)
(* under way.                                                              *)
CompromisedIsDead ==
    \A r \in Requests :
        req[r].status = "compromised" =>
            ~HasRow(req[r].tok) \/ req[r].tok \in lapsed

(* A row carries the subject signed into the token it is the hash of, and  *)
(* no other row carries the same hash.                                     *)
RowsMatchClaims ==
    \A row \in refresh_tokens : \E t \in Tokens :
        row = Row(claims[t], t) /\ claims[t] # Nil

(* A step changes the rows, the password or the reset token of a user only *)
(* on behalf of a request being served for that user.                      *)
Serving(r, u) == req[r].user = u /\ req'[r] # req[r]

ChangesOnlyOwnRows ==
    [][\A u \in Users :
         \/ TokensOf(u)' # TokensOf(u)
         \/ password_hash'[u] # password_hash[u]
         \/ password_reset_tokens'[u] # password_reset_tokens[u]
         => \E r \in Requests : Serving(r, u)]_vars

(* The requests, statement by statement, keep the ledger of SessionLedger: *)
(* its live tokens are those with a row.                                   *)
Live == {t \in Tokens : HasRow(t)}

Ledger == INSTANCE SessionLedger WITH owner <- claims, live <- Live

ImplementsLedger == Ledger!Spec

-----------------------------------------------------------------------------
(* What comments and messages of the repository say *)

(* AuthHanlder.go:184: Logout deletes the refresh token of the browser     *)
(* that logs out.                                                          *)
LogoutDeletesSession ==
    \A r \in Requests :
        req[r].op = "logout" /\ req[r].status = "ok" /\ ~req[r].failed
        /\ req[r].held # Nil => ~HasRow(req[r].held)

(* AuthHanlder.go:264: a reset that answers "password updated              *)
(* successfully" has made its password the user's.                         *)
ResetTookEffect ==
    \A r \in Requests :
        req[r].op = "reset" /\ req[r].status = "ok" =>
            req[r].pw \in req[r].during

(* jwt.go:85: VerifyToken returns the claims if the token is valid; a      *)
(* refresh with a token the server signed, not yet expired when the answer *)
(* leaves, is not answered "invalid or expired token".                     *)
ValidTokenVerifies ==
    \A r \in Requests :
        req[r].op = "refresh" /\ req[r].tok # Nil
        /\ req[r].status = "unauthorized" => req[r].tok \in expired

=============================================================================
