---------------------------- MODULE LocalLimiter ----------------------------
(***************************************************************************)
(* pkg/rateLimiter/local/local.go: the in-memory sliding-window limiter,   *)
(* its callers and its cleanup goroutine.                                  *)
(*                                                                         *)
(* Allow reads the clock, finds or makes the entry of its key under l.mu,  *)
(* and decides under e.mu; between these steps anything may run.  cleanup  *)
(* holds l.mu for a whole sweep and takes e.mu entry by entry, so a caller *)
(* that has its entry already can decide in the middle of a sweep.         *)
(***************************************************************************)
EXTENDS Integers, Sequences, FiniteSets

CONSTANTS
    Keys,
    Entries,   \* the entry objects that may be allocated (a bound)
    Callers,   \* goroutines in Allow
    Nil,
    Limit,     \* cfg.Limit
    Window,    \* cfg.Window, in units of the clock
    Stall,     \* the longest a caller takes from time.Now() to e.mu
    MaxTime    \* a bound: the clock stops here

ASSUME LimiterAssumption ==
    /\ Limit \in Nat /\ Window \in Nat \ {0} /\ Stall \in Nat
    /\ MaxTime \in Nat
    /\ Nil \notin Keys \cup Entries \cup Int

VARIABLES
    clock,
    tick,        \* the time waiting in ticker.C, or Nil
    cleaner,     \* the cleanup goroutine: waiting, locking, sweeping or gone
    left,        \* the keys a sweep has still to visit
    cutoff,      \* of the current sweep
    closing,     \* Close: open, stopping (stopCh is closed) or closed
    store,       \* l.store: the entry of each key
    timestamps,  \* of each entry
    granted,     \* history: when an entry admitted, since its Reset, while recent
    call         \* the calls of Allow

limiter == <<store, timestamps, granted>>
sweeper == <<tick, cleaner, left, cutoff>>
vars    == <<clock, sweeper, closing, limiter, call>>

Time == 0..MaxTime

(* Between calls a slot keeps the last result: Allowed and RetryAfter. *)
Call == [pc: {"idle", "lookup", "create", "decide"},
         key: Keys \cup {Nil}, now: Time, entry: Entries \cup {Nil},
         allowed: BOOLEAN, retry: Nat]

Idle == [pc |-> "idle", key |-> Nil, now |-> 0, entry |-> Nil,
         allowed |-> TRUE, retry |-> 0]

TypeOK ==
    /\ clock \in Time
    /\ tick \in Time \cup {Nil}
    /\ cleaner \in {"waiting", "locking", "sweeping", "gone"}
    /\ left \subseteq Keys
    /\ cutoff \in Int
    /\ closing \in {"open", "stopping", "closed"}
    /\ store \in [Keys -> Entries \cup {Nil}]
    /\ timestamps \in [Entries -> Seq(Time)]
    /\ \A e \in Entries : Len(timestamps[e]) <= Limit
    /\ granted \in [Entries -> Seq(Time)]
    /\ call \in [Callers -> Call]

Init ==
    /\ clock = 0
    /\ tick = Nil
    /\ cleaner = "waiting"
    /\ left = {}
    /\ cutoff = 0
    /\ closing = "open"
    /\ store = [k \in Keys |-> Nil]
    /\ timestamps = [e \in Entries |-> <<>>]
    /\ granted = [e \in Entries |-> <<>>]
    /\ call = [c \in Callers |-> Idle]

-----------------------------------------------------------------------------
(* Allow *)

Unlocked == cleaner # "sweeping"  \* l.mu is free

InStore(e) == \E k \in Keys : store[k] = e

(* An entry no key and no caller refers to and that admitted nothing        *)
(* recently: memory for a new one.                                          *)
Fresh(e) ==
    /\ ~InStore(e)
    /\ \A c \in Callers : call[c].entry # e
    /\ granted[e] = <<>>

Start(c, k) ==
    /\ call[c].pc = "idle"
    /\ call' = [call EXCEPT ![c] = [Idle EXCEPT !.pc = "lookup", !.key = k,
                                                !.now = clock]]
    /\ UNCHANGED <<clock, sweeper, closing, limiter>>

(* getOrCreate under RLock ... *)
Lookup(c) ==
    LET e == store[call[c].key] IN
    /\ call[c].pc = "lookup"
    /\ Unlocked
    /\ call' = [call EXCEPT ![c].pc = IF e = Nil THEN "create" ELSE "decide",
                            ![c].entry = e]
    /\ UNCHANGED <<clock, sweeper, closing, limiter>>

(* mutant: the second look at the store is left out *)
CreateUnchecked(c) ==
    /\ call[c].pc = "create"
    /\ Unlocked
    /\ \E e \in Entries :
        /\ Fresh(e)
        /\ store' = [store EXCEPT ![call[c].key] = e]
        /\ timestamps' = [timestamps EXCEPT ![e] = <<>>]
        /\ call' = [call EXCEPT ![c].pc = "decide", ![c].entry = e]
    /\ UNCHANGED <<clock, sweeper, closing, granted>>

(* ... and again under Lock, before it makes an entry. *)
Create(c) ==
    LET k == call[c].key IN
    /\ call[c].pc = "create"
    /\ Unlocked
    /\ \E e \in Entries :
        /\ \/ /\ store[k] = e
              /\ UNCHANGED <<store, timestamps>>
           \/ /\ store[k] = Nil
              /\ Fresh(e)
              /\ store' = [store EXCEPT ![k] = e]
              /\ timestamps' = [timestamps EXCEPT ![e] = <<>>]
        /\ call' = [call EXCEPT ![c].pc = "decide", ![c].entry = e]
    /\ UNCHANGED <<clock, sweeper, closing, granted>>

(* The loop of Allow: the elements of s after t, in their order. *)
After(s, t) ==
    LET valid[i \in 0..Len(s)] ==
            IF i = 0 THEN <<>>
            ELSE IF s[i] > t THEN Append(valid[i - 1], s[i])
            ELSE valid[i - 1]
    IN  valid[Len(s)]

KeepsBoundary(s, now) ==  \* mutant: keeps one tick too few
    After(s, now - Window + 1)

KeepsEdge(s, now) ==  \* mutant: not Before where the code has After
    After(s, now - Window - 1)

InWindow(s, now) == After(s, now - Window)

RetryIsAge(s, now) == now - s[1]  \* mutant: the age of the oldest request

RetryAfter(s, now) == s[1] + Window - now

FullLate(n) == n > Limit  \* mutant: one too many

Full(n) == n >= Limit

(* Under e.mu: drop what has left the window, then admit or deny. *)
Decide(c) ==
    LET e == call[c].entry
        now == call[c].now
        valid == InWindow(timestamps[e], now)
    IN  /\ call[c].pc = "decide"
        /\ \/ /\ ~Full(Len(valid))
              /\ timestamps' = [timestamps EXCEPT ![e] = Append(valid, now)]
              /\ granted' = [granted EXCEPT ![e] = Append(@, now)]
              /\ call' = [call EXCEPT ![c] = Idle]
           \/ /\ Full(Len(valid))
              /\ timestamps' = [timestamps EXCEPT ![e] = valid]
              /\ call' = [call EXCEPT ![c] =
                             [Idle EXCEPT !.allowed = FALSE,
                                          !.retry = IF valid = <<>> THEN 0
                                                    ELSE RetryAfter(valid, now)]]
              /\ UNCHANGED granted
        /\ UNCHANGED <<clock, sweeper, closing, store>>

-----------------------------------------------------------------------------
(* Reset and Close *)

Reset(k) ==
    /\ Unlocked
    /\ store[k] # Nil
    /\ timestamps' = [timestamps EXCEPT ![store[k]] = <<>>]
    /\ granted' = [granted EXCEPT ![store[k]] = <<>>]
    /\ UNCHANGED <<clock, sweeper, closing, store, call>>

Close ==
    \/ /\ closing = "open"
       /\ closing' = "stopping"
       /\ UNCHANGED <<clock, sweeper, limiter, call>>
    \/ /\ closing = "stopping"
       /\ Unlocked
       /\ closing' = "closed"
       /\ store' = [k \in Keys |-> Nil]
       /\ UNCHANGED <<clock, sweeper, timestamps, granted, call>>

-----------------------------------------------------------------------------
(* cleanup *)

(* Time passes while no caller has stalled for longer than Stall; every     *)
(* Window the ticker sends the time, unless the last one is still waiting.  *)
Advance ==
    /\ clock < MaxTime
    /\ \A c \in Callers :
           call[c].pc \in {"lookup", "create", "decide"} =>
               clock - call[c].now < Stall
    /\ clock' = clock + 1
    /\ tick' = IF /\ (clock + 1) % Window = 0
                  /\ tick = Nil
                  /\ cleaner # "gone"
               THEN clock + 1 ELSE tick
    /\ granted' = [e \in Entries |->
                      After(granted[e], clock + 1 - Window - Stall)]
    /\ UNCHANGED <<cleaner, left, cutoff, closing, store, timestamps, call>>

(* select picks either channel when both are ready. *)
TakeTick ==
    /\ cleaner = "waiting"
    /\ tick # Nil
    /\ cleaner' = "locking"
    /\ cutoff' = tick - Window
    /\ tick' = Nil
    /\ UNCHANGED <<clock, left, closing, limiter, call>>

(* l.mu is taken; meanwhile the ticker may have sent again. *)
SweepBegin ==
    /\ cleaner = "locking"
    /\ cleaner' = "sweeping"
    /\ left' = Keys
    /\ UNCHANGED <<clock, tick, cutoff, closing, limiter, call>>

StaleFirst(e) ==  \* mutant: looks at the oldest request
    timestamps[e] = <<>> \/ timestamps[e][1] < cutoff

Stale(e) ==
    \/ timestamps[e] = <<>>
    \/ timestamps[e][Len(timestamps[e])] < cutoff

SweepKey(k) ==
    /\ cleaner = "sweeping"
    /\ k \in left
    /\ left' = left \ {k}
    /\ store' = IF store[k] # Nil /\ Stale(store[k])
                THEN [store EXCEPT ![k] = Nil] ELSE store
    /\ UNCHANGED <<clock, tick, cleaner, cutoff, closing, timestamps, granted,
                   call>>

SweepEnd ==
    /\ cleaner = "sweeping"
    /\ left = {}
    /\ cleaner' = "waiting"
    /\ UNCHANGED <<clock, tick, left, cutoff, closing, limiter, call>>

CleanerStops ==
    /\ cleaner = "waiting"
    /\ closing # "open"
    /\ cleaner' = "gone"
    /\ tick' = Nil
    /\ UNCHANGED <<clock, left, cutoff, closing, limiter, call>>

-----------------------------------------------------------------------------
Allow(c) ==
    \/ \E k \in Keys : Start(c, k)
    \/ Lookup(c) \/ Create(c) \/ Decide(c)

Cleanup ==
    \/ TakeTick \/ SweepBegin \/ (\E k \in Keys : SweepKey(k)) \/ SweepEnd
    \/ CleanerStops

Next ==
    \/ \E c \in Callers : Allow(c)
    \/ \E k \in Keys : Reset(k)
    \/ Cleanup \/ Close \/ Advance

Spec == Init /\ [][Next]_vars

-----------------------------------------------------------------------------
(* Properties *)

Admissions(e, from, until) ==
    {i \in DOMAIN granted[e] : from < granted[e][i] /\ granted[e][i] <= until}

(* One entry admits at most Limit requests in any Window - Stall: a caller  *)
(* that stalls between time.Now() and e.mu can see requests evicted that    *)
(* its own window still holds, and costs at most its stall.                 *)
EntryWithinLimit ==
    \A e \in Entries, t \in Time :
        Cardinality(Admissions(e, t - (Window - Stall), t)) <= Limit

(* A denied caller that waits RetryAfter finds a slot unless others take    *)
(* it: fewer than Limit of the requests admitted when it was denied are in   *)
(* the window then, though timestamps[0] need not be the earliest.           *)
RetryAfterSuffices ==
    [][\A c \in Callers :
         LET q == call[c] IN
         q.pc = "decide" /\ ~call'[c].allowed /\ Limit > 0 =>
             Len(InWindow(granted[q.entry], q.now + call'[c].retry))
                 < Limit]_vars

(* Nobody is denied without cause: Limit requests that the entry admitted    *)
(* since its Reset are in the window of the one that it denies.              *)
DeniedOnlyWhenFull ==
    [][\A c \in Callers :
         LET q == call[c] IN
         q.pc = "decide" /\ ~call'[c].allowed =>
             Len(InWindow(granted[q.entry], q.now)) >= Limit]_vars

(* A sweep takes no entry whose requests still count: all of them are older *)
(* than one Window, give or take the stall of the caller that came last.    *)
SweepsOnlyStale ==
    [][\A k \in Keys :
         cleaner = "sweeping" /\ store[k] # Nil /\ store'[k] = Nil =>
             \A i \in DOMAIN timestamps[store[k]] :
                 timestamps[store[k]][i] < clock - Window + Stall]_vars

(* The double-checked locking of getOrCreate: an entry that callers may be   *)
(* counting on is never replaced, it only leaves by a sweep or by Close.     *)
EntryNotReplaced ==
    [][\A k \in Keys : store[k] # Nil => store'[k] \in {store[k], Nil}]_vars

(* ratelimiter.go:32, local.go:40: Limit is the maximum number of requests  *)
(* allowed per window.  For a single key, whose entries come and go.         *)
KeyWithinLimit ==
    closing = "open" => \A t \in Time :
        Cardinality(UNION {{e} \X Admissions(e, t - Window, t) : e \in Entries})
            <= Limit
=============================================================================
