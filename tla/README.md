# CourseLite in TLA+

CourseLite is a course platform: a Go server (chi router, PostgreSQL through
sqlc, JWT cookies, an in-memory or Redis rate limiter) and a React client. This
directory specifies the parts of it that are hard to test - handlers that
interleave between SQL statements, goroutines that share a map or a channel, a
browser whose requests race one refresh - model-checks them with TLC and proves
the properties that matter most with TLAPS.

Paths below are relative to the repository; `AuthHanlder.go` is spelled as in
the code.

## 1. Inventory

| Component | State | Operations | Talks to |
|---|---|---|---|
| Session and password handlers, `internal/handlers/AuthHanlder.go`, `internal/auth/jwt.go` | tables `users`, `refresh_tokens`, `password_reset_tokens`; cookies in browsers | Register, Login, Session, Refresh, Logout, ForgotPassword, ResetPassword | PostgreSQL, one statement at a time, never a transaction; browsers |
| Password hashing, `internal/auth/password.go` | `argonSem`, a semaphore of NumCPU slots | HashPassword, CheckPassword | Register, Login, ResetPassword |
| Local rate limiter, `pkg/rateLimiter/local` | map of entries, one slice of timestamps each, two levels of locks | Allow, Reset, Close, cleanup goroutine | middleware, shutdown |
| Redis rate limiter, `pkg/rateLimiter/redis` | sorted sets in Redis | Allow (one Lua script), Reset, Close | Redis, several servers |
| Middleware and routes, `internal/middleware`, `internal/server` | none; the two limiters of the server | RateLimit: 100/min for everything, 5 per 15 min for login and register | limiters, handlers |
| Worker pool, `internal/worker` | a channel of jobs, a channel of signals, goroutines | NewPool, Send, Shutdown | nothing uses it yet |
| Process life cycle, `cmd/api/main.go`, `DBHandler.go` | signal channel, done channel, database pool | start, serve, graceful shutdown | all of the above |
| Client API layer, `client/src/api.ts` | `isRefreshing`, `refreshQueue`, `_retry` on requests | interceptor for 401, endpoint wrappers | server, through the browser's cookie jar |
| Course handlers, `CourseHandler.go` | tables `courses`, `sections`, `lessons`, `course_enrollments` | GetAll, GetCourse, IsEnrolled (Enroll and GetPaginatedOrderByTitle are not routed) | PostgreSQL, several statements to an answer |
| Generated queries, `internal/db` | the same tables | one SQL statement each; those that write courses have no caller yet | PostgreSQL |
| Payment provider, utilities, pages, API collection, containers | - | an interface without implementation, a log filter, rendering, deployment | - |

What is hard, and what makes each component correct:

* **Handlers.** Two requests of one browser, or of a browser and a reset link,
  interleave between statements; discarded errors leave a handler half done;
  responses and their cookies get lost; tokens are dated on two clocks. Correct
  means: a token without a row buys nothing, ever; what an answer says about the
  tables is true when it is sent; nobody's rows change on behalf of another user.
* **Local limiter.** Callers read the clock, look an entry up and decide under
  three different critical sections, while sweeps remove entries. Correct means:
  no entry, and so no key, is admitted more than Limit times per Window (the entry
  is not, the key is), sweeps forget only what no longer counts, RetryAfter is long
  enough.
* **Worker pool.** Senders, workers, panicking handlers and a shutdown share one
  channel. Correct means: accepted jobs are handled once, in order, eventually,
  and Shutdown waits for them.
* **Client.** Late 401s, and refreshes that are refused, fail half way or lose their
  answer. Correct means: one refresh at a time, no request stranded, and the page
  never passes for a thief by its own concurrency.
* **Registration.** A check and an insert that are not one transaction, a
  case-sensitive check in front of a case-insensitive index, a semaphore nobody
  can stop waiting for. Correct means: one account per address, whoever was told
  of an account can log in to it, everybody is answered.
* **Life cycle.** Signals at any moment, handlers that outlive the 30 s, a server
  that could not listen. Correct means: nothing is closed under a request that
  did not outlive Shutdown, main leaves nothing open, a signal ends the process.
* **Redis limiter and middleware.** Servers with clocks of their own, scripts that
  run late, twice or unknown to the caller, a store that loses its data, and a
  middleware that lets requests through when the limiter fails. Correct means:
  the servers together keep to the limit of a window narrowed by stall and skew, and
  every login, whatever Redis answered, is charged to the second limiter.
* **Courses.** An answer is put together from several statements while rows come
  and go, and handlers go on after an error. Correct means: what a 200 says was
  true during the request, and a 200 is one document about a course that exists.

The hazards, each at its line with the properties that would catch it, are in
`PROJECT.json`.

## 2. Modules

| Module | Models | Role |
|---|---|---|
| `SessionLedger` | what the `refresh_tokens` table promises | abstract specification |
| `Sessions` | the six session and password handlers, cookie jars, both clocks | implements `SessionLedger` |
| `MCSessions` | symmetry for TLC | model checking |
| `SessionsProofs` | | theorems about `Sessions` and `SessionLedger` |
| `LocalLimiter`, `MCLocalLimiter` | `local.go`, lock by lock | model checking |
| `LocalLimiterProofs` | | theorems about `LocalLimiter` |
| `JobQueue` | what the pool promises those who send it jobs | abstract specification |
| `WorkerPool` | `worker.go` over the Go channel's rules | implements `JobQueue` |
| `WorkerPoolProofs` | | theorems about `WorkerPool` and `JobQueue` |
| `ApiClient` | the interceptor of `api.ts` | model checking |
| `ApiClientProofs` | | theorems about `ApiClient` |
| `Registration`, `MCRegistration` | Register and Login over the indexes of `users` and `argonSem` | model checking |
| `RegistrationProofs` | | theorems about `Registration` |
| `Lifecycle` | `main.go`, the database pool and the connections | model checking |
| `LifecycleProofs` | | theorems about `Lifecycle` |
| `RedisLimiter` | `redis.go` on several servers | part of `Gate` |
| `Gate`, `MCGate` | `routes.go` and `ratelimit.go`: both limiters in front of login | extends `RedisLimiter` |
| `GateRequests` | `Gate` within one moment, counting requests | model checking |
| `GateProofs` | | theorems about `RedisLimiter` and `Gate` |
| `Courses`, `MCCourses` | the course tables, every statement that changes their rows, the course handlers | model checking |
| `CoursesProofs` | | theorems about `Courses` |

### Sessions

The tables are variables of the same names. `password_hash` holds, for each
user, the password its hash verifies; `refresh_tokens` is a set of rows (user,
hash); `password_reset_tokens` a function, since `user_id` is UNIQUE. `claims`
is what the server signed: the user in each token. `cookie` and `access` are the
browsers' jars, and `CookieFor` applies the Path of the refresh cookie. `req` is
the set of goroutines net/http runs, each with a program counter between
statements.

A handler is one action per SQL statement; everything it does between two
statements belongs to the earlier one: `LoginLookup`, then `IssueTokens`;
`RefreshCheck`, then `RefreshRotate` and `IssueTokens`, or `RefreshRevoke`;
`ResetLookup`, `ResetUpdate`, `ResetForget`, `ResetRevoke`; `ForgotLookup`,
`ForgotUpsert`; `Logout`; `Session`. A statement of a request in `Faulty` may
fail at any time (a broken connection or a cancelled `r.Context()`), and the
handler does what the code does with the error, mostly nothing. `Deliver` and
`Lose` bring the answer to the browser, or not. `Expire` passes a token's exp
claim on the server's clock, `Lapse` its `expires_at` on the database's, in
either order; `AccessExpires` ends an access token.

Left out: the 400 answers for malformed bodies, which touch no state; the
limiter in front of the handlers, which is in `Gate`; `Register`, which is in
`Registration`: here users exist from `Init` on. A login for an address without an
account, or whose lookup fails, dereferences a nil `PasswordHash` (`AuthHanlder.go:100`) before the error
is looked at, and chi's Recoverer answers 500: the status is `"panic"`.

`FillsValues` is one fact about code outside `src/`: whether
`jwt.ParseWithClaims` can fill a `Claims` passed by value
(`internal/auth/jwt.go:91`). With the library of `go.mod` it cannot. So, as shipped,
`VerifyToken` refuses every token: Refresh and Session answer 401 and change
nothing, and only Login, Logout and the two password handlers ever succeed; run
`verify` shows that. The runs `users` and `faults` set it to TRUE, the program that
the comment of jwt.go describes and the handlers are written for. Among its
behaviours are those of the program as shipped, once the requests that it refuses,
which change nothing, are left out: what passes there is safe for both. The theorems
are proved for either value, and no violation is claimed of a program with TRUE.

### LocalLimiter

Time is a small clock; `Advance` is the only action that moves it, and no caller
takes longer than `Stall` from `time.Now()` to `e.mu`. `Start`, `Lookup`,
`Create` and `Decide` are the four parts of Allow between which other goroutines
run: the clock, the read lock, the write lock with its second look, the entry's
lock. `TakeTick` receives from the ticker and takes the cutoff, `SweepBegin` is
`l.mu.Lock()`, before which callers may still run and the ticker may send again.
`SweepKey` and `SweepEnd` are the sweep, which holds `l.mu` throughout (`Unlocked`)
but each `e.mu` only for its own entry, so that a caller that has an entry already
may decide in the middle. `granted` is history: when
each entry admitted. Entry objects come from the set `Entries`, and one may be
used again once nothing refers to it and its admissions are old, as its memory
would be. `After` is the loop of Allow, element by element: the timestamps need not
be in order, since callers stamp before they lock.

### WorkerPool

The channel is modelled as the runtime behaves: a send goes to a parked receiver
or into the buffer, close wakes the receivers, a closed channel is drained.
`p.done` has no capacity, so `Shutdown`'s loop runs zero times and the action
closes and returns; a worker that ends is left in `Signalling`, where it stays
blocked for ever. Send after Shutdown panics in the caller (`SendPanics`).
The pool's capacity is chosen in `Init`, as NewPool's argument.

`JobQueue` says what of all this a caller sees: a bounded queue, first in first out,
that takes a job on once, passes it straight on only while nothing waits, and takes
nothing on after it was closed. Parking, waking and the handoff of the channel are
steps it does not see, or one step where the channel makes one.

### ApiClient

JavaScript runs one callback at a time, so each callback up to its next await
is an action: `Respond` (the interceptor), `AfterRefresh` (what follows
`await api.post`, with `finally`), `Resume` (the `.then` of a queued request).

`Serve` and `ServeRefresh` are the server, reduced to the session it keeps for this
browser: refresh tokens are numbered, `token` is the browser's, `issued` the newest
that was signed, `rows` those that would be exchanged. A refresh is answered in one
of three ways. `Decline`: it changes nothing, because VerifyToken refuses the token,
as the shipped one does with every token, because the lookup fails (500), the
limiter refuses (429), or the request is lost. `Exchange`: a token with a row is
rotated; the DELETE and the INSERT may each fail, their errors being discarded, and
the answer may be lost. `Compromise`: a token without a row ends every session.
`Sever` is what others do to the rows: dates that pass, other devices, password
resets. `severed` and `compromised` are history. The page does not tell 401, 429 and
500 apart once it is refreshing, and redirects on each.

The module is one page. Two tabs have an `isRefreshing` each and one cookie; what
their refreshes do to each other is in `Sessions`, where one browser may send two
with the same cookie.

### Registration

`users` is the set of rows (email as written, password the hash verifies), an
email an address and a spelling, `Lower` what the index `lower(email)` sees.
`RegisterLookup` is EmailExists, which compares spellings and whose error is
discarded; `LoginLookup` is GetUserByEmail; `CreateUser` the INSERT with both
unique indexes and the NOT NULL column, which may report an error and have been
executed. `Acquire`, `Hash` and `Release` are `argonSem`: a Go channel used as a
semaphore, `held` its length, `waiting` the goroutines blocked on the send, in
the order the runtime wakes them. `registered` is history: what clients were told.

`CreateUser` never names `userpfpUrl`, NOT NULL and without a default in
`sql/schema.sql:11`, so that against that schema every registration fails with
"could not create user". `pfpDefault` says whether the database at hand has a
default after all; both values are checked, and only with TRUE are there
accounts.

Left out: the salt and the encoding of hashes, malformed bodies, the tokens that
both handlers issue before they answer, which are in `Sessions`, and the place that
ResetPassword takes in the semaphore, which it takes and gives back like Register.

### Lifecycle

`main` and `guard` are where main and gracefulShutdown are; each of
gracefulShutdown's calls is an action, since requests run between them.
`sigCh` has room for one signal: a signal before `Notify` ends the process at
once, later ones are put into the channel or dropped. `Listen` may fail, and main
then waits for `done` like a server that was shut down. A connection is new, at
the limiter, in its handler, in a statement, or idle; a handler may hang for any
time, and runs any number of statements. `ShutdownReturns` comes when no
connection is busy, or when 30 s have passed; `StopDB` refuses statements and
`DBStopped` waits for those that run, as pgxpool's Close does. `cut` is history:
requests that met a closed pool or a closed Redis client. The limiters in memory
answer after Close as before, so a closed one cuts nobody off.

### RedisLimiter and Gate

The sorted set of a key is the set of its members, score and random part. The
Lua script is one action, `Script`; ZADD of a member that is there already only
sets its score. Between `Start` (time.Now) and `Run` other callers run theirs;
after `Run` the caller has the reply, an error, or the client library sends the
command once more with the same arguments. All times are relative to the present
of Redis's clock, and `Advance` makes everything older, so that the model has no
last moment; scores out of every window are kept at `Oldest`.

`Reset` deletes one key and `LoseData` all of them, as a restart of Redis without
its data does. Neither touches `admitted`, the history of what callers were told to
let through: `life` counts the deletions of a key and each admission is kept with
the life it belongs to. A deletion gives the key a new quota at once, as the comment
of Reset says, beside what was admitted before it; the limit is stated, and holds,
for each life. `Deletions` bounds their number.

`Gate` adds what the routes do: `Arrive` (health checks skip the limiter),
`Proceed` (denied: 429; allowed or failed: on to the handler, through the login
limiter where the route has one), `Restart` of a server. Login and register are
one route here: both have the same limiter object and the same key.

The login limiter is what `LocalLimiter` is proved to be, not a step of its own
making: `Login` may refuse only when the limiter has let `LoginLimit` requests of the
window through (`DeniedOnlyWhenFull` there), and may let more than that through, since
a sweep can cost a key its entry (`KeyWithinLimit`, run `limiter_key`). Nothing is
claimed here, therefore, of how many logins pass. `charged` is what the limiter counts,
`logins` what reached a handler; `Excess` bounds what passes beyond the limit.

`GateRequests` is `Gate` while no time passes, with a count of the requests, as
opposed to the members, that the shared limiter admits.

Assumed, and stated in the modules: clocks are at most `Spread` apart and do not
run backwards; no command is executed later than `Stall` after its timestamp was
taken; the commands of a server that crashes are gone with it. One client address,
since keys share nothing.

### Courses

A row is its identity, its parent and its slug. `Write` is every statement of the
query layer that creates, removes or re-slugs a row, with the foreign keys, ON
DELETE CASCADE and the unique constraints; nothing in the program issues the ones
that write yet, so they come at any time. A handler is one action per statement:
`FindCourse`, `ListSections`, `ListLessons` (one per section), `CheckEnrolled`,
`InsertEnrollment`; each may fail, and the code's missing returns are modelled:
after an error from GetCourseBySlug or GetCourseIDBySlug the handler goes on with
the zero id, and a second body follows the first. `truths`, `ever`, `always` and
`renamed` are history, kept by `Watch` while a request runs: the true answers to
its question, and the outlines of its course.

Claims are taken to be readable here (see `FillsValues` above; if they are not,
IsEnrolled always answers 401). Left out: titles, prices, currency, the published
flag, positions and contents, and with them Publish, Unpublish, UpdateSection and
UpdateLesson, which change nothing else; what lists hold and in which order, and with
it the paginations, which order by columns that are left out (`created_at` is the
start of a transaction, so that rows may become visible out of its order, and tie)
and of which only the one by title has a caller, itself without a route; joins without
a caller. `Outline` is no query: it is what the course's outline is at one moment, for
the history.

## 3. What the runs show

Passing:

| Run | Instance | Shows |
|---|---|---|
| `users` | 2 users, 1 browser, 2 requests, 3 refresh tokens, 1 reset token, 2 passwords | `NoRefreshReplay`, `LoginLinearizable`, `ChangesOnlyOwnRows`, and that `Sessions` implements `SessionLedger` |
| `faults` | 1 user, 2 requests of which one faulty, 2 refresh tokens that may expire on both clocks, 2 reset tokens that may expire | `TypeOK`, `NoResetReplay`, `ResetRevokesExisting`, `ExchangedTokenIsDead`, `CompromisedIsDead` |
| `limiter` | 1 key, 2 callers, 2 entries, Limit 2, Window 3, Stall 1, clock to 6 | `TypeOK`, `EntryWithinLimit`, `RetryAfterSuffices`, `DeniedOnlyWhenFull`, `SweepsOnlyStale`, `EntryNotReplaced` |
| `pool` | 2 workers, 4 jobs, capacities 0, 1 and 2 | `TypeOK`, `EachJobOnce`, `AcceptedHandled`, and that `WorkerPool` implements `JobQueue` |
| `client` | 3 requests, one always answered 401, one that may fail; refreshes refused, failing or lost | `TypeOK`, `QueueWaitsOnRefresh`, `CompromisedOnlyWhenSevered`, `EveryRequestSettles` |
| `register` | 1 address in 2 spellings, 2 passwords, 3 requests, 1 hashing slot | `TypeOK`, `OneAccountPerAddress`, `RegisteredLogsIn`, `EveryRequestAnswered` |
| `lifecycle` | 3 connections, 3 signals, with Redis and without | `TypeOK`, `NothingCutOff`, `EndsTidily`, `SignalEndsProcess` |
| `gate` | 2 servers, 1 key, 2 requests at a time, Limit 2, Window 4, Stall 1, Spread 1, 1 draw, 1 deletion, 1 login in 1 unit | `TypeOK`, `AdmittedWithinLimit`, `LoginsCharged`, `LoginRefusedOnlyWhenFull` |
| `courses` | 2 courses, 2 sections, 2 lessons, 2 slugs, 1 user, 1 request | `TypeOK`, `OutlineIsRegular`, `EnrolledIsLinearizable`, `OkIsOneDocument` |

Violations, each of a sentence in the repository:

| Run | Property | What happens |
|---|---|---|
| `verify` | `ValidTokenVerifies` | claims passed by value cannot be filled: a valid token is answered 401 |
| `limiter_key` | `KeyWithinLimit` | a caller holds an entry that a sweep removes, the next caller starts another one |
| `gate_requests` | `RequestsWithinLimit` | two requests of one millisecond draw the same number and are one member: three are admitted where the limit is two |

`EntryWithinLimit` and `KeyWithinLimit` belong together: the entry keeps its limit,
the key has sometimes two entries. So do `AdmittedWithinLimit` and
`RequestsWithinLimit`: the sorted set keeps its limit, for a window shorter by
`Stall + Spread` and between two deletions of the key, and counts members.

`ResetRevokesExisting` says that the tokens which are stored when a reset finds its
user are dead when it answers 200, if its statements all ran. In a program whose
tokens verify it says no more than that: a refresh that has deleted its row and not
yet stored the successor is not seen by the revocation, and its session goes on.
As shipped no refresh gets that far. `NoResetReplay` is about a token that was spent
or replaced before it was sent; two requests that present one token at a time may both
be past the lookup, and then both succeed.

Where the code departs from what it says or seems to mean, apart from those three
(`LogoutDeletesSession`, `ResetTookEffect` and `ShutdownWaits` are stated in their
modules and no run checks them):

* Logout: the refresh cookie has Path `/api/auth/refresh` (`AuthHanlder.go:312`), so
  logout receives none and deletes nothing, against the comment at `:184`.
  `LogoutDeletesSession` in `Sessions` states it and does not hold.
* ResetPassword discards the error of its UPDATE (`:257`): the token is spent and
  the answer is "password updated successfully" although the password is the old
  one (`ResetTookEffect`, likewise).
* Shutdown of the worker pool ranges over a capacity of zero (`worker.go:59`) and
  waits for nobody (`ShutdownWaits`, likewise); the workers stay blocked on `done`.
* Register fails against the repository's own schema (see `Registration`).
* The second Ctrl+C that the log invites (`main.go:28`) is put into a channel that
  nobody reads again. A ListenAndServe that fails leaves main waiting for a signal,
  its error formatted and dropped (`main.go:82`). A signal in the moment before
  `signal.Notify` kills the process, which may be serving by then.
* GetCourse, IsEnrolled and Enroll go on after answering an error
  (`CourseHandler.go:82`, `:87`, `:150`, `:181`); Enroll takes `claims.ID`, the
  token's id, for the user's (`:173`), so that the foreign key refuses it;
  GetPaginatedOrderByTitle always gives the second page (`:64`). The last two have
  no route.

### Bounds, and why they suffice

*Sessions.* A violation of a replay or revocation property needs two requests
that interleave and a third that ran before; slots are reused, so two slots give
any number of requests in sequence and two at a time. Three tokens allow login,
refresh and another refresh or login. Two reset tokens are one and its replacement.
The second user is needed only to show that rows of one are safe from requests of
the other, so `faults` has one; time and faults multiply the states and are kept out
of `users`. `TokensLeft` and `ResetTokensLeft` keep a request that will sign a token
from starting when none is left: they bound issuing, and cut no handler short. All
theorems are for any sizes.

*LocalLimiter.* Six ticks are two windows: the tick at 6 sweeps entries last used
before 3 while requests of 4 and 5 are admitted, and the tick at 3 may be served
late. Two callers suffice for the races of getOrCreate and for a decision in the
middle of a sweep; a third only takes the same places. One key, since entries of
different keys share nothing but `l.mu`. `limiter_key` has Stall 0 so that the
violation cannot be put down to slow callers, and looks only at an open limiter.

*WorkerPool.* Four jobs fill a queue of two with both workers busy; capacity
zero makes every send a handoff.

*Registration.* Two registrations race and a third request logs in; one hashing slot
makes the others wait in line. Two spellings of one address are the only case in
which the check and the index disagree.

*Lifecycle.* Three connections are one that is idle, one that is busy and one that
is new when Shutdown looks; three signals are one before Notify, one that is taken
and one that finds the channel full.

*Gate.* Two servers with clocks one unit apart and two requests, either of which may
be late by one unit or run twice: the smallest instance in which a script evicts
what another server's window still holds. Window 4 leaves a shared window of two
units. There is one draw, as `math.random` starts from the same seed in every script:
requests of one millisecond are one member in this run, those of different ones are
not; the theorem is for any set of draws, and `gate_requests` has two. One deletion
separates two lives. A login limit of 1, exceeded by 1, in a window of one unit has
logins refused, let through and let through in excess. Everything in the module is
relative to the present, so there is no bound on time. TLC takes servers, callers and
draws to be symmetric.

*Courses.* Two of each row are what it takes to delete one and give its slug, or
its place, to another; each is created once (`drawn`), which bounds the run. One
request is enough, as handlers meet one another only through the tables and `Write`
changes those in every possible way.

*ApiClient.* One request refreshes, one queues behind it and one answers late; each
may be the one whose refresh fails half way.
Refreshes are bounded by `_retry` itself, which `TypeOK` records in
`Generations`.

`CHECK_DEADLOCK FALSE` is set where the system may really stop: a clock at its
bound (`LocalLimiter`), a pool that is shut down, a page whose requests have
settled, a process that has ended. The other runs check for deadlock.

### Fairness

`WorkerPool`: the scheduler runs each goroutine that can run, and handlers are
assumed to return (the pool does not bound them). Nobody has to send or shut
down. `ApiClient`: the event loop runs due callbacks, and each request is
answered or fails; the server's `WriteTimeout` of 30 s (`server.go`) ends the
connections of those it does not answer, while axios itself sets no timeout.
`Registration`: each goroutine that can run does, and statements end; no one has to
send a request or to read an answer. `Lifecycle`: main and gracefulShutdown run,
the 30 s of the shutdown context pass, and a statement ends, with an error at the
latest when its connection breaks. Handlers may hang for ever, and that is the
point: the process ends all the same. `Sessions`, `LocalLimiter`, `Gate` and
`Courses` state safety only, and no fairness.

## 4. What is proved

`SessionsProofs`, for every set of users, browsers, requests and tokens, any
set of faulty requests and either value of `FillsValues`, from
`SessionsAssumption` alone (the kinds of values are distinct):

* `Invariance`: `Spec => []IInv`. `TypeOK` is not inductive: IssueTokens writes
  its request's user into a row. `IInv` adds that rows carry signed subjects, that
  browsers hold only signed tokens, and `Sound`, what a request knows at each of
  its statements. `Sound` speaks of rows and reset tokens that other requests
  change; those parts survive because of `Lasting`: a signed token keeps its
  subject, and a row or reset token that is gone never comes back (tokens are
  drawn fresh). Each action has a lemma; `Bystander` carries `Lasting` over to
  the requests that do not move.
* From it, the safety properties of `users` and `faults`: `TypeCorrect`,
  `RefreshReplayRefused`, `ResetReplayRefused`, `ResetRevokes`,
  `LoginsLinearize`, `ExchangeKills`, `CompromisedDead`; and the action property
  `OwnRowsOnly`. `RowsSigned` states a part of the invariant, `RowsMatchClaims`,
  that no run checks by itself; the refinement rests on it.
* `Refinement`: `Sessions` implements `SessionLedger` under `owner <- claims`,
  `live <- Live`, the tokens with a row: a deletion by user closes tokens that were
  opened for that user because of `RowsMatchClaims`. `LedgerClosed`: in the ledger a closed token stays closed.

`WorkerPoolProofs`, for any number of workers, jobs and any capacity:
`PoolInvariance`, `PoolTypeCorrect`, `NoJobLostOrDoubled`,
`FirstComeFirstServed`. `TakenInOrder` needs `ParkedOnEmpty`: a job handed to a
parked worker would overtake the queue if there were one. With it, `PoolRefinement`:
`WorkerPool` implements `JobQueue` under `waiting <- jobs`, `held <- InHand`,
`done <- ended`, `open <- ~closed`, each action of the pool being one of the queue
or unseen; and `ShutdownKeepsJobs` (`NothingForgotten`), which follows for the queue
from each job being in one place. `TakenInOrder` and `NothingForgotten` have no run
of their own: the run that checks the refinement covers them.

`LocalLimiterProofs`, for any callers, keys and entries and any Limit, Window, Stall
and length of the run: `EntryLimitHolds`, `RetryAfterIsEnough`, `DenialsHaveCause`,
`SweepTakesOnlyStale`, `EntryNeverReplaced`, `LocalLimiterTypeCorrect`. What an entry
holds and what it has admitted are different sequences: a decision evicts by its
own, possibly early, clock reading. The invariant of an entry relates them in five
ways. `Ordered`: the timestamps are out of order by Stall at most. `Covers`: from
some moment `low` on, at least a Window ago, they are exactly the recent admissions.
`Backed`: they are never more than those. `Topped`: no admission is later than all
that is still held. `Leads`: of the admissions after a record, a timestamp later
than all before it, all are still held. The limit follows from `Covers`, the cause
of a denial from `Backed`, and the sweep, which looks at the last timestamp only,
from `Ordered`. RetryAfter looks at the first of the timestamps that are left, which
is a record whatever their order: `Leads` gives `RetryAfterIsEnough` for every
Stall, and needs `Topped` when a new timestamp becomes a record. The lemmas about
the loop (`AfterAppend`, `AfterAfter`, `AfterCounts`, `AfterLengths`, `AfterTraces`,
`AfterKeeps`, `AfterRecords`) are proved by induction over sequences, stated with
sets of sequences (`SeqInduction`) rather than with the library's theorem, whose
parameter is an operator, and derived from least elements.

`GateProofs`, for any servers, keys, callers and draws, any limits and windows, any
Spread and Stall and any number of deletions: `SharedLimitHolds`, `LoginsAreCharged`,
`RefusedOnlyWhenFull`, `GateTypeCorrect`. The heart is `Remembered`: a member admitted
in the last Width and in the present life of its key is still in the sorted set,
scored at most Stall before it was admitted, and the set will not expire before it is
out, because no server's clock is so far ahead that its script takes it out. What was
admitted in an earlier life is no longer in the set, but was within the limit when the
key was deleted, and only grows older. `SharedLimitHolds` supposes `Width > 0`, that is
a Window longer than stall and spread together; without it there is no window left to
promise anything of, and a script may be late enough to evict what was admitted in the
same moment. It is about members; that it cannot be strengthened to requests is what
`gate_requests` shows. For the logins the invariant adds that a log is in order, so
that what is out of the window comes first.

`RegistrationProofs`, for any addresses, spellings, passwords and requests and any
NumCPU of at least one: `OneAccount`, `RegisteredAreLetIn`,
`RegistrationTypeCorrect`. Two strengthenings are needed: `Sound`, which carries
what the client was told through the semaphore (a login that knows its account has
that account's hash in hand), and `Counted` with `Line`: `held` is the number of
goroutines that hash, and those in line are blocked there, each once. Without them
a release could take `held` below zero. `HashersBounded` states the count.

`LifecycleProofs`, for any number of connections and signals:
`OnlyLatecomersCutOff`, `MainLeavesTidily`, `LifecycleTypeCorrect`. The invariant
`Stages` ties what is closed to how far gracefulShutdown has come;
`QuietOrTimedOut` is the heart of it: once Shutdown has returned, either it timed
out or there is no connection, and with the listener closed there will be none.

`ApiClientProofs`, for any finite set of requests: `QueueNeverStranded`,
`NeverTakenForThief`, `ClientTypeCorrect`. The invariant says that at most one
request is between its refresh's start and end, that `isRefreshing` says so, that
this refresh carries the token the browser has, and that this token has a row unless
something severed the browser from it (`InStep`); `FewTokens` bounds the tokens by the
requests that have used their one retry. Nothing rests on a refresh being accepted.

`CoursesProofs`, for any users, courses, sections, lessons, slugs and requests, from
`CoursesAssumption` alone (in particular, the id of a token is no user's):
`RegularOutline`, `LinearizableEnrollment`, `OneDocument`, `CoursesTypeCorrect`, and
`HandlersOnlyRead`: Enroll cannot add a row. The invariant has two parts besides the
types. `Constraints` is what the schema keeps. `Knows` is what a request may rely on
while rows come and go under it: a section it has still to visit is the course's or
gone with its lessons, since ids are not drawn twice and sections are not moved; a
course that lost its slug without being renamed was deleted, and at that moment nobody
was enrolled in it. The lemma `Watching` carries the requests over a statement of
somebody else; each statement has only to be shown gentle.

Only model-checked: the liveness properties `AcceptedHandled`, `EveryRequestSettles`,
`EveryRequestAnswered` and `SignalEndsProcess`, liveness under fairness being out of
the prover's reach; and the three violations. Every invariant and every action
property of the passing runs is a theorem.

## 5. Plan

Done: every component with a state of its own is modelled, every safety property of
the runs proved. What is left, the most useful first:

1. Invariants behind the liveness properties that are theorems of their own, such as
   that some step is possible wherever `AcceptedHandled` or `EveryRequestAnswered`
   promises one.
2. A specification of what logging in and out promises one browser, which `ApiClient`
   and `Sessions` could both be measured against.

Not modelled, and not planned: the OAuth upsert, the payment and progress tables and
the payment interface, none of which has a caller; the joins and paginations without
a caller; rate limit headers and the bodies of 429 answers; `KeyByUserID` and
`KeyByRoute`, which no route uses; CORS and static files; the log filter; rendering;
deployment.

## 6. Running

    tlc -config Sessions_users.cfg MCSessions
    tlc -config Sessions_faults.cfg MCSessions
    tlc -config LocalLimiter.cfg MCLocalLimiter
    tlc -config WorkerPool.cfg WorkerPool
    tlc -config ApiClient.cfg ApiClient
    tlc -config Registration.cfg MCRegistration
    tlc -config Lifecycle.cfg Lifecycle
    tlc -config Gate.cfg MCGate
    tlc -config Courses.cfg MCCourses
    tlapm SessionsProofs.tla
    tlapm LocalLimiterProofs.tla
    tlapm WorkerPoolProofs.tla
    tlapm RegistrationProofs.tla
    tlapm LifecycleProofs.tla
    tlapm GateProofs.tla
    tlapm ApiClientProofs.tla
    tlapm CoursesProofs.tla

`Sessions_verify.cfg` (with `MCSessions`), `LocalLimiter_key.cfg` (with
`MCLocalLimiter`) and `Gate_requests.cfg` (with `GateRequests`) give the
counterexamples of section 3. `PROJECT.json` maps each definition to the lines it models and pairs each
property with a mutation of the code that breaks it.
