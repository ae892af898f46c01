---------------------------- MODULE Registration ----------------------------
(***************************************************************************)
(* Register and Login of internal/handlers/AuthHanlder.go against the two  *)
(* unique indexes of the users table, and the semaphore argonSem of        *)
(* internal/auth/password.go that every hashing of a password goes through.*)
(*                                                                         *)
(* A handler is a sequence of actions: its statements, its place in the    *)
(* semaphore and the hashing.  A statement may fail at any time (a broken  *)
(* connection, or a client that left and took r.Context() with it); hashing *)
(* looks at no context and goes on.  The tokens that both handlers issue    *)
(* before they answer, whatever becomes of the row, are left to Sessions.   *)
(***************************************************************************)
EXTENDS Naturals, Sequences, FiniteSets

CONSTANTS
    Addresses,  \* mail addresses up to case
    Spellings,  \* ways to write one in upper and lower case
    Passwords,
    SignUps, SignIns,  \* what clients register, and log in, with: an address
                       \* as written and a password
    Requests,   \* slots for the requests being served
    NumCPU,     \* the capacity of argonSem
    Nil

ASSUME RegistrationAssumption ==
    /\ NumCPU \in Nat \ {0}
    /\ SignUps \cup SignIns \subseteq (Addresses \X Spellings) \X Passwords
    /\ Nil \notin Passwords

Emails == Addresses \X Spellings

Lower(e) == e[1]

VARIABLES
    pfpDefault,  \* does userpfpUrl get a value when an INSERT names none?
    users,       \* the users table
    registered,  \* history: what clients were told an account was created for
    held,        \* len(argonSem)
    waiting,     \* the goroutines blocked on argonSem <-, in their order
    req          \* the requests being served

vars == <<pfpDefault, users, registered, held, waiting, req>>

(* password_hash is the password that it verifies. *)
User == [email: Emails, password_hash: Passwords]

Row(e, p) == [email |-> e, password_hash |-> p]

LowerCased(e) == <<e[1], CHOOSE s \in Spellings : TRUE>>

(* known and failed are history: whether the client was told before that    *)
(* this account was created, and whether a statement of the request failed. *)
Request ==
    [op: {"register", "login"},
     pc: {"lookup", "acquire", "queued", "hash", "insert", "replied"},
     email: Emails, pw: Passwords, hash: Passwords \cup {Nil},
     status: {"none", "ok", "conflict", "unauthorized", "error", "panic"},
     known: BOOLEAN, failed: BOOLEAN]

ASSUME FreeSlotAssumption == Nil \notin Request

TypeOK ==
    /\ pfpDefault \in BOOLEAN
    /\ users \subseteq User
    /\ registered \subseteq User
    /\ held \in 0..NumCPU
    /\ waiting \in Seq(Requests)
    /\ req \in [Requests -> Request \cup {Nil}]

(* sql/schema.sql gives userpfpUrl no default and CreateUser does not name  *)
(* it; a database where accounts exist at all has been given one.           *)
Init ==
    /\ pfpDefault \in BOOLEAN
    /\ users = {}
    /\ registered = {}
    /\ held = 0
    /\ waiting = <<>>
    /\ req = [r \in Requests |-> Nil]

At(r, pc) == req[r] # Nil /\ req[r].pc = pc

Becomes(r, q) == req' = [req EXCEPT ![r] = q]

Reply(q, status) ==
    [q EXCEPT !.pc = "replied", !.status = status, !.hash = Nil]

Failed(q) == [q EXCEPT !.failed = TRUE]

-----------------------------------------------------------------------------
(* Clients send well-formed bodies; the others are answered 400 at once. *)
Send(r, op, e, p) ==
    /\ req[r] = Nil
    /\ Becomes(r, [op |-> op, pc |-> "lookup", email |-> e, pw |-> p,
                   hash |-> Nil, status |-> "none",
                   known |-> op = "login" /\ Row(e, p) \in registered,
                   failed |-> FALSE])
    /\ UNCHANGED <<pfpDefault, users, registered, held, waiting>>

Deliver(r) ==
    /\ At(r, "replied")
    /\ Becomes(r, Nil)
    /\ UNCHANGED <<pfpDefault, users, registered, held, waiting>>

-----------------------------------------------------------------------------
(* The semaphore *)

RoomForOneMore(n) == n <= NumCPU  \* mutant: off by one

Room(n) == n < NumCPU

(* argonSem <- struct{}{} *)
Acquire(r) ==
    /\ At(r, "acquire")
    /\ IF Room(held)
       THEN /\ held' = held + 1
            /\ Becomes(r, [req[r] EXCEPT !.pc = "hash"])
            /\ UNCHANGED waiting
       ELSE /\ waiting' = Append(waiting, r)
            /\ Becomes(r, [req[r] EXCEPT !.pc = "queued"])
            /\ UNCHANGED held
    /\ UNCHANGED <<pfpDefault, users, registered>>

(* mutant: an error path that returns without the deferred receive *)
Leak(r, q) ==
    /\ Becomes(r, q)
    /\ UNCHANGED <<held, waiting>>

(* <-argonSem, as the handler of r goes on as q: the first blocked sender   *)
(* takes the place.                                                         *)
Release(r, q) ==
    IF waiting = <<>>
    THEN /\ held' = held - 1
         /\ Becomes(r, q)
         /\ UNCHANGED waiting
    ELSE /\ waiting' = Tail(waiting)
         /\ req' = [req EXCEPT ![r] = q, ![Head(waiting)].pc = "hash"]
         /\ UNCHANGED held

CheckPassword(q) == q.pw = q.hash

(* argon2.IDKey is done.  Login compares and answers. *)
Hash(r) ==
    LET q == req[r] IN
    /\ At(r, "hash")
    /\ Release(r, CASE q.op = "register" -> [q EXCEPT !.pc = "insert"]
                    [] q.op = "login" /\ CheckPassword(q) -> Reply(q, "ok")
                    [] OTHER -> Reply(q, "unauthorized"))
    /\ UNCHANGED <<pfpDefault, users, registered>>

-----------------------------------------------------------------------------
(* The statements *)

EmailExists(e) == \E row \in users : row.email = e

(* Register: the error of EmailExists is discarded, exists is then false. *)
RegisterLookup(r) ==
    LET q == req[r] IN
    /\ At(r, "lookup")
    /\ q.op = "register"
    /\ \/ Becomes(r, IF EmailExists(q.email) THEN Reply(q, "conflict")
                     ELSE [q EXCEPT !.pc = "acquire"])
       \/ Becomes(r, Failed([q EXCEPT !.pc = "acquire"]))
    /\ UNCHANGED <<pfpDefault, users, registered, held, waiting>>

(* Login: GetUserByEmail compares the exact spelling.  Without a row the    *)
(* handler dereferences a nil PasswordHash and chi's Recoverer answers 500. *)
LoginLookup(r) ==
    LET q == req[r] IN
    /\ At(r, "lookup")
    /\ q.op = "login"
    /\ \/ \E row \in users :
            /\ row.email = q.email
            /\ Becomes(r, [q EXCEPT !.pc = "acquire", !.hash = row.password_hash])
       \/ /\ ~EmailExists(q.email)
          /\ Becomes(r, Reply(q, "panic"))
       \/ Becomes(r, Reply(Failed(q), "panic"))
    /\ UNCHANGED <<pfpDefault, users, registered, held, waiting>>

UniqueAsWritten(e) ==  \* mutant: without the index on lower(email)
    pfpDefault /\ ~EmailExists(e)

(* NOT NULL userpfpUrl, email UNIQUE, users_email_lower_idx. *)
Insertable(e) ==
    pfpDefault /\ \A row \in users : Lower(row.email) # Lower(e)

NormalizedRow(q) == Row(LowerCased(q.email), q.pw)  \* mutant: stores lower case

NewRow(q) == Row(q.email, q.pw)

(* A statement may report an error and have been executed all the same. *)
CreateUser(r) ==
    LET q == req[r] IN
    /\ At(r, "insert")
    /\ \/ /\ Insertable(q.email)
          /\ users' = users \cup {NewRow(q)}
          /\ \/ /\ Becomes(r, Reply(q, "ok"))
                /\ registered' = registered \cup {Row(q.email, q.pw)}
             \/ /\ Becomes(r, Reply(Failed(q), "error"))
                /\ UNCHANGED registered
       \/ /\ ~Insertable(q.email)
          /\ Becomes(r, Reply(q, "error"))
          /\ UNCHANGED <<users, registered>>
       \/ /\ Becomes(r, Reply(Failed(q), "error"))
          /\ UNCHANGED <<users, registered>>
    /\ UNCHANGED <<pfpDefault, held, waiting>>

-----------------------------------------------------------------------------
Handle(r) ==
    \/ RegisterLookup(r) \/ LoginLookup(r) \/ Acquire(r) \/ Hash(r)
    \/ CreateUser(r)

Next ==
    \E r \in Requests :
        \/ \E c \in SignUps : Send(r, "register", c[1], c[2])
        \/ \E c \in SignIns : Send(r, "login", c[1], c[2])
        \/ Handle(r)
        \/ Deliver(r)

(* The Go scheduler runs each goroutine that can run, and statements end.   *)
(* Nobody has to send, or to read an answer.                                *)
Fairness == \A r \in Requests : WF_vars(Handle(r))

Spec == Init /\ [][Next]_vars /\ Fairness

-----------------------------------------------------------------------------
(* Properties *)

Serving(r) == req[r] # Nil /\ req[r].pc # "replied"

Answered(r, op) == At(r, "replied") /\ req[r].op = op

(* However registrations interleave between EmailExists and CreateUser, an  *)
(* address has one account in whatever case it is written, and a client that *)
(* is told its account was created has it, with its own password             *)
(* (AuthHanlder.go:57-79, schema.sql:16).                                    *)
OneAccountPerAddress ==
    /\ \A v, w \in users : Lower(v.email) = Lower(w.email) => v = w
    /\ registered \subseteq users

(* Whoever registered can log in, with the spelling and the password used    *)
(* then, whatever other registrations of the address came in between: no     *)
(* statement failing, Login answers 200 (AuthHanlder.go:99).                 *)
RegisteredLogsIn ==
    \A r \in Requests :
        Answered(r, "login") /\ req[r].known /\ ~req[r].failed =>
            req[r].status = "ok"

(* Every request gets through the semaphore and is answered, though those    *)
(* that wait there cannot give up (password.go:46, :79).                     *)
EveryRequestAnswered ==
    \A r \in Requests : Serving(r) ~> ~Serving(r)
=============================================================================
