---------------------------- MODULE RedisLimiter ----------------------------
(***************************************************************************)
(* pkg/rateLimiter/redis/redis.go: the sliding window kept in a sorted set *)
(* of Redis, shared by several servers, each with a clock of its own.       *)
(*                                                                         *)
(* Redis runs the Lua script in one step.  Between time.Now() and the       *)
(* script other calls may run theirs, and go-redis sends a command again,   *)
(* with the same arguments, when it cannot tell whether it was executed.    *)
(*                                                                         *)
(* All times are relative to the present of Redis's clock: Advance makes    *)
(* everything one unit older.  So the model needs no last moment.           *)
(***************************************************************************)
EXTENDS Integers, FiniteSets

CONSTANTS
    Servers,
    Keys,
    Callers,   \* goroutines in Allow
    Draws,     \* values of math.random(1, 1000000) in the script
    Nil,
    Limit,     \* cfg.Limit
    Window,    \* cfg.Window, in units of the clock
    Spread,    \* how far two clocks may be apart
    Stall,     \* the longest from time.Now() to the last run of the script
    Deletions  \* how often a key is deleted at most: bounds Reset and LoseData

ASSUME RedisAssumption ==
    /\ Limit \in Nat \ {0} /\ Window \in Nat \ {0}
    /\ Spread \in Nat /\ Stall \in Nat /\ Deletions \in Nat
    /\ Nil \notin Servers \cup Keys

VARIABLES
    skew,     \* how far the clock of each server is ahead of it
    zset,     \* the members of the sorted set of each key
    expires,  \* the time that PEXPIRE left each key, 0 without one
    life,     \* history: how often each key was deleted
    admitted, \* history: what Allow was told to let through in the last Width
    call      \* the calls of Allow

store == <<zset, expires>>
history == <<life, admitted>>
limiter == <<skew, store, history, call>>

(* The window that the servers keep to together. *)
Width == Window - Stall - Spread

Oldest == -(Window + Stall)

Stamp == Oldest..Spread

Member == [score: Stamp, draw: Draws]

(* life tells what was admitted before a key was deleted from what was after. *)
Admission == [at: -Window..0, member: Member, life: 0..Deletions]

Call == [pc: {"idle", "sent", "answered"},
         server: Servers \cup {Nil}, key: Keys \cup {Nil}, now: Stamp,
         result: {"none", "allowed", "denied", "error"}]

Idle == [pc |-> "idle", server |-> Nil, key |-> Nil, now |-> 0,
         result |-> "none"]

LimiterTypeOK ==
    /\ skew \in [Servers -> 0..Spread]
    /\ zset \in [Keys -> SUBSET Member]
    /\ \A k \in Keys : Cardinality(zset[k]) <= Limit
    /\ expires \in [Keys -> 0..2 * Window]
    /\ life \in [Keys -> 0..Deletions]
    /\ admitted \in [Keys -> SUBSET Admission]
    /\ call \in [Callers -> Call]

LimiterInit ==
    /\ skew \in {f \in [Servers -> 0..Spread] : \E s \in Servers : f[s] = 0}
    /\ zset = [k \in Keys |-> {}]
    /\ expires = [k \in Keys |-> 0]
    /\ life = [k \in Keys |-> 0]
    /\ admitted = [k \in Keys |-> {}]
    /\ call = [c \in Callers |-> Idle]

-----------------------------------------------------------------------------
(* The script *)

EarlierCutoff(k, now) ==  \* mutant: takes what is still in the window
    {m \in zset[k] : m.score > now - Window + 1}

(* ZREMRANGEBYSCORE key -inf window_start *)
Valid(k, now) == {m \in zset[k] : m.score > now - Window}

FullLate(n) == n > Limit  \* mutant: one too many

Full(n) == n >= Limit

(* A member that is there already is not added: ZADD sets its score again.  *)
Script(k, member, result) ==
    LET valid == Valid(k, member.score)
    IN  \/ /\ ~Full(Cardinality(valid))
           /\ result = "allowed"
           /\ zset' = [zset EXCEPT ![k] = valid \cup {member}]
           /\ expires' = [expires EXCEPT ![k] = 2 * Window]
        \/ /\ Full(Cardinality(valid))
           /\ result = "denied"
           /\ zset' = [zset EXCEPT ![k] = valid]
           /\ UNCHANGED expires

-----------------------------------------------------------------------------
(* Allow *)

Start(c, s, k) ==
    /\ call[c].pc = "idle"
    /\ call' = [call EXCEPT ![c] = [Idle EXCEPT !.pc = "sent", !.server = s,
                                       !.key = k, !.now = skew[s]]]
    /\ UNCHANGED <<skew, store, history>>

Answered(c, result) ==
    call' = [call EXCEPT ![c] = [@ EXCEPT !.pc = "answered", !.now = 0,
                                          !.result = result]]

(* Redis was not reached or the reply is lost: go-redis gives up, or sends  *)
(* the command again, here as often as Stall allows.                         *)
Lost(c) == UNCHANGED call \/ Answered(c, "error")

Remember(k, member) ==
    admitted' = [admitted EXCEPT ![k] =
        @ \cup {[at |-> 0, member |-> member, life |-> life[k]]}]

Run(c) ==
    LET k == call[c].key IN
    /\ call[c].pc = "sent"
    /\ \E d \in Draws, result \in {"allowed", "denied"} :
        LET member == [score |-> call[c].now, draw |-> d] IN
        /\ Script(k, member, result)
        /\ \/ Answered(c, result) /\ result = "allowed" /\ Remember(k, member)
           \/ Answered(c, result) /\ result = "denied" /\ UNCHANGED admitted
           \/ Lost(c) /\ UNCHANGED admitted
    /\ UNCHANGED <<skew, life>>

Fail(c) ==
    /\ call[c].pc = "sent"
    /\ Answered(c, "error")
    /\ UNCHANGED <<skew, store, history>>

-----------------------------------------------------------------------------
(* Reset deletes the key. *)
Reset(k) ==
    /\ zset[k] # {}
    /\ zset' = [zset EXCEPT ![k] = {}]
    /\ expires' = [expires EXCEPT ![k] = 0]
    /\ life[k] < Deletions
    /\ life' = [life EXCEPT ![k] = @ + 1]
    /\ UNCHANGED <<skew, admitted, call>>

(* Redis starts again without its data: every key is gone. *)
LoseData ==
    /\ \E k \in Keys : zset[k] # {}
    /\ zset' = [k \in Keys |-> {}]
    /\ expires' = [k \in Keys |-> 0]
    /\ \A k \in Keys : life[k] < Deletions
    /\ life' = [k \in Keys |-> life[k] + 1]
    /\ UNCHANGED <<skew, admitted, call>>

(* A score that is out of the window of every call to come gets no lower.  *)
Older(m) == [m EXCEPT !.score = IF @ > Oldest THEN @ - 1 ELSE @]

(* Time passes while no call has taken longer than Stall.  Redis drops the  *)
(* keys whose time is up.                                                    *)
Advance ==
    /\ \A c \in Callers : call[c].pc = "sent" =>
           skew[call[c].server] - call[c].now < Stall
    /\ expires' = [k \in Keys |-> IF expires[k] = 0 THEN 0 ELSE expires[k] - 1]
    /\ zset' = [k \in Keys |-> IF expires'[k] = 0 THEN {}
                              ELSE {Older(m) : m \in zset[k]}]
    /\ admitted' = [k \in Keys |->
                       {[at |-> g.at - 1, member |-> Older(g.member),
                         life |-> g.life] :
                           g \in {h \in admitted[k] : h.at - 1 > -Width}}]
    /\ call' = [c \in Callers |->
                   IF call[c].pc = "sent" THEN [call[c] EXCEPT !.now = @ - 1]
                                          ELSE call[c]]
    /\ UNCHANGED <<skew, life>>

-----------------------------------------------------------------------------
(* Properties *)

Members(admissions, n) ==
    {g.member : g \in {h \in admissions : h.life = n}}

(* Between two deletions of a key, the members that the servers together     *)
(* are told to let through in any Width are no more than Limit, whatever     *)
(* their clocks, in whatever order the scripts run, and replies lost and     *)
(* commands repeated included (redis.go:85).  Each deletion gives the key a  *)
(* quota of its own, beside what was admitted before it.  These are members, *)
(* not requests: see GateRequests for two requests that are one member.      *)
AdmittedWithinLimit ==
    \A k \in Keys, n \in 0..Deletions :
        Cardinality(Members(admitted[k], n)) <= Limit
=============================================================================
