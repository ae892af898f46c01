------------------------- MODULE RegistrationProofs -------------------------
(***************************************************************************)
(* Proofs about Registration, for any addresses, spellings, passwords and  *)
(* requests, and any number of processors.                                 *)
(***************************************************************************)
EXTENDS Registration, FiniteSetTheorems, SequenceTheorems, TLAPS

-----------------------------------------------------------------------------
(* The inductive invariant.  RegisteredLogsIn holds of an answer because of *)
(* what the request carried through the semaphore; that held stays within   *)
(* NumCPU, and never falls below zero, because it counts those that hash.   *)

SoundIn(q, told) ==
    /\ q.known => q.op = "login" /\ Row(q.email, q.pw) \in told
    /\ q.pc = "insert" => q.op = "register"
    /\ q.known /\ q.pc \in {"acquire", "queued", "hash"} => q.hash = q.pw
    /\ q.known /\ q.pc = "replied" /\ ~q.failed => q.status = "ok"

Sound == \A r \in Requests : req[r] # Nil => SoundIn(req[r], registered)

Hashers == {r \in Requests : At(r, "hash")}

Counted == IsFiniteSet(Hashers) /\ held = Cardinality(Hashers)

(* Those that wait are blocked there, each in one place of the line. *)
Line ==
    /\ \A i \in 1..Len(waiting) : At(waiting[i], "queued")
    /\ \A i, k \in 1..Len(waiting) : waiting[i] = waiting[k] => i = k

IInv == TypeOK /\ OneAccountPerAddress /\ Sound /\ Counted /\ Line

QueuedNext(s) == req'[s] # Nil /\ req'[s].pc = "queued"

(* Nobody is served at first. *)
LEMMA InitInv == Init => IInv
<1> SUFFICES ASSUME Init PROVE IInv
  OBVIOUS
<1>1. TypeOK
  BY RegistrationAssumption, EmptySeq DEF RegistrationAssumption, Init, TypeOK
<1>2. \A r \in Requests : req[r] = Nil
  BY DEF Init
<1>3. Hashers = {}
  BY <1>2 DEF Hashers, At
<1>4. Counted
  BY <1>3, FS_EmptySet DEF Init, Counted
<1>5. Len(waiting) = 0
  BY EmptySeq DEF Init
<1>6. Line
  BY <1>5 DEF Line
<1> QED
  BY <1>1, <1>2, <1>4, <1>6 DEF Init, IInv, OneAccountPerAddress, Sound

-----------------------------------------------------------------------------
(* What one request does, the others do not. *)
LEMMA OnlyOne ==
    ASSUME TypeOK, NEW r \in Requests, NEW q, Becomes(r, q)
    PROVE  /\ req'[r] = q
           /\ \A s \in Requests \ {r} : req'[s] = req[s]
           /\ q \in Request \cup {Nil} => req' \in [Requests -> Request \cup {Nil}]
BY DEF TypeOK, Becomes

(* A request that neither leaves nor enters the semaphore. *)
LEMMA Elsewhere ==
    ASSUME IInv, NEW r \in Requests, NEW q \in Request \cup {Nil}, Becomes(r, q),
           ~At(r, "hash"), ~At(r, "queued"), q # Nil => q.pc # "hash",
           UNCHANGED <<held, waiting>>
    PROVE  Counted' /\ Line'
<1>1. /\ req'[r] = q
      /\ \A s \in Requests \ {r} : req'[s] = req[s]
  BY OnlyOne DEF IInv
<1>2. ~At(r, "hash")'
  BY <1>1 DEF At
<1>3. \A s \in Requests : At(s, "hash")' <=> At(s, "hash")
  BY <1>1, <1>2 DEF At
<1>4. Hashers' = Hashers
  BY <1>3 DEF Hashers
<1>5. Counted'
  BY <1>4 DEF IInv, Counted
<1>6. \A i \in 1..Len(waiting) : waiting[i] \in Requests \ {r}
  BY LenProperties DEF IInv, TypeOK, Line
<1>7. Line'
  BY <1>1, <1>6 DEF IInv, Line, At
<1> QED
  BY <1>5, <1>7

(* What a request knows stays true while accounts are only added. *)
LEMMA SoundKept ==
    ASSUME IInv, NEW r \in Requests, NEW q \in Request \cup {Nil}, Becomes(r, q),
           registered \subseteq registered',
           q # Nil => SoundIn(q, registered')
    PROVE  Sound'
<1>1. /\ req'[r] = q
      /\ \A s \in Requests \ {r} : req'[s] = req[s]
  BY OnlyOne DEF IInv
<1>2. \A s \in Requests \ {r} : req[s] # Nil => SoundIn(req[s], registered')
  BY DEF IInv, Sound, SoundIn
<1> QED
  BY <1>1, <1>2 DEF Sound

(* A step of one request that leaves the tables and the semaphore alone. *)
LEMMA Aside ==
    ASSUME IInv, NEW r \in Requests, NEW q \in Request \cup {Nil}, Becomes(r, q),
           ~At(r, "hash"), ~At(r, "queued"), q # Nil => q.pc # "hash",
           q # Nil => SoundIn(q, registered),
           UNCHANGED <<pfpDefault, users, registered, held, waiting>>
    PROVE  IInv'
<1>1. Counted' /\ Line'
  BY Elsewhere
<1>2. Sound'
  BY SoundKept
<1>3. TypeOK'
  BY OnlyOne DEF IInv, TypeOK
<1> QED
  BY <1>1, <1>2, <1>3 DEF IInv, OneAccountPerAddress

-----------------------------------------------------------------------------
(* A new request knows what its client was told. *)
LEMMA SendStep ==
    ASSUME IInv, NEW r \in Requests, NEW op \in {"register", "login"},
           NEW c \in SignUps \cup SignIns, Send(r, op, c[1], c[2])
    PROVE  IInv'
<1> DEFINE q == [op |-> op, pc |-> "lookup", email |-> c[1], pw |-> c[2],
                 hash |-> Nil, status |-> "none",
                 known |-> op = "login" /\ Row(c[1], c[2]) \in registered,
                 failed |-> FALSE]
<1>1. c[1] \in Emails /\ c[2] \in Passwords
  BY RegistrationAssumption DEF RegistrationAssumption, Emails
<1>2. q.known \in BOOLEAN
  OBVIOUS
<1>3. q \in Request
  BY <1>1, <1>2 DEF Request
<1>4. SoundIn(q, registered)
  BY DEF SoundIn
<1>5. ~At(r, "hash") /\ ~At(r, "queued") /\ q.pc # "hash"
  BY DEF Send, At
<1>6. Becomes(r, q) /\ UNCHANGED <<pfpDefault, users, registered, held, waiting>>
  BY DEF Send
<1> HIDE DEF q
<1> QED
  BY <1>3, <1>4, <1>5, <1>6, Aside

(* The slot is free again. *)
LEMMA DeliverStep ==
    ASSUME IInv, NEW r \in Requests, Deliver(r)
    PROVE  IInv'
<1>1. ~At(r, "hash") /\ ~At(r, "queued")
  BY DEF Deliver, At
<1> QED
  BY <1>1, Aside DEF Deliver

(* What req[r] is. *)
LEMMA RequestType ==
    ASSUME TypeOK, NEW r \in Requests, NEW pc, At(r, pc)
    PROVE  req[r] \in Request
BY DEF TypeOK, At

(* EmailExists refuses, or lets the request go on to hash. *)
LEMMA RegisterLookupStep ==
    ASSUME IInv, NEW r \in Requests, RegisterLookup(r)
    PROVE  IInv'
<1> DEFINE q == req[r]
<1>1. q \in Request /\ q.pc = "lookup" /\ q.op = "register"
  BY RequestType DEF RegisterLookup, IInv, At
<1>2. ~q.known /\ ~At(r, "hash") /\ ~At(r, "queued")
  BY <1>1, FreeSlotAssumption DEF IInv, Sound, SoundIn, At
<1>3. \E p \in {Reply(q, "conflict"), [q EXCEPT !.pc = "acquire"],
                Failed([q EXCEPT !.pc = "acquire"])} :
        Becomes(r, p)
  BY DEF RegisterLookup
<1>4. ASSUME NEW p \in {Reply(q, "conflict"), [q EXCEPT !.pc = "acquire"],
                        Failed([q EXCEPT !.pc = "acquire"])}
      PROVE  p \in Request /\ p.pc # "hash" /\ SoundIn(p, registered)
  BY <1>1, <1>2 DEF Reply, Failed, Request, SoundIn
<1>5. UNCHANGED <<pfpDefault, users, registered, held, waiting>>
  BY DEF RegisterLookup
<1> HIDE DEF q
<1> QED
  BY <1>2, <1>3, <1>4, <1>5, Aside

(* GetUserByEmail finds the one account of the address, with the hash that  *)
(* was stored when it was registered; a client that was told of it is not   *)
(* turned away here.                                                        *)
LEMMA LoginLookupStep ==
    ASSUME IInv, NEW r \in Requests, LoginLookup(r)
    PROVE  IInv'
<1> DEFINE q == req[r]
<1>1. q \in Request /\ q.pc = "lookup" /\ q.op = "login" /\ q # Nil
  BY RequestType DEF LoginLookup, IInv, At
<1>2. ~At(r, "hash") /\ ~At(r, "queued") /\ SoundIn(q, registered)
  BY <1>1 DEF IInv, Sound, At
<1>3. q.known => Row(q.email, q.pw) \in users
  BY <1>2 DEF IInv, OneAccountPerAddress, SoundIn
<1>4. UNCHANGED <<pfpDefault, users, registered, held, waiting>>
  BY DEF LoginLookup
<1>5. CASE \E row \in users :
             /\ row.email = q.email
             /\ Becomes(r, [q EXCEPT !.pc = "acquire", !.hash = row.password_hash])
  <2> PICK row \in users :
             /\ row.email = q.email
             /\ Becomes(r, [q EXCEPT !.pc = "acquire", !.hash = row.password_hash])
    BY <1>5
  <2> DEFINE p == [q EXCEPT !.pc = "acquire", !.hash = row.password_hash]
  <2>1. p \in Request /\ p.pc # "hash"
    BY <1>1 DEF Request, IInv, TypeOK, User
  <2>2. q.known => row.password_hash = q.pw
    <3> SUFFICES ASSUME q.known PROVE row.password_hash = q.pw
      OBVIOUS
    <3>1. Lower(row.email) = Lower(Row(q.email, q.pw).email)
      BY DEF Row
    <3>2. row = Row(q.email, q.pw)
      BY <1>3, <3>1 DEF IInv, OneAccountPerAddress
    <3> QED
      BY <3>2 DEF Row
  <2>3. SoundIn(p, registered)
    BY <1>1, <1>2, <2>2 DEF SoundIn, Request
  <2> HIDE DEF p
  <2> QED
    BY <1>2, <1>4, <2>1, <2>3, Aside DEF p
<1>6. CASE ~EmailExists(q.email) /\ Becomes(r, Reply(q, "panic"))
  <2>1. ~q.known
    BY <1>3, <1>6 DEF EmailExists, Row
  <2>2. Reply(q, "panic") \in Request /\ Reply(q, "panic").pc # "hash"
    BY <1>1 DEF Request, Reply
  <2>3. SoundIn(Reply(q, "panic"), registered)
    BY <1>1, <2>1 DEF SoundIn, Reply, Request
  <2> QED
    BY <1>2, <1>4, <1>6, <2>2, <2>3, Aside
<1>7. CASE Becomes(r, Reply(Failed(q), "panic"))
  <2>1. /\ Reply(Failed(q), "panic") \in Request
        /\ Reply(Failed(q), "panic").pc # "hash"
    BY <1>1 DEF Request, Reply, Failed
  <2>2. SoundIn(Reply(Failed(q), "panic"), registered)
    BY <1>1, <1>2 DEF SoundIn, Reply, Failed, Request
  <2> QED
    BY <1>2, <1>4, <1>7, <2>1, <2>2, Aside
<1> QED
  BY <1>5, <1>6, <1>7 DEF LoginLookup

(* The row goes into the table only where no account of the address is, and *)
(* the client is told of that row and no other.                             *)
LEMMA CreateUserStep ==
    ASSUME IInv, NEW r \in Requests, CreateUser(r)
    PROVE  IInv'
<1> DEFINE q == req[r]
           new == Row(q.email, q.pw)
<1>1. q \in Request /\ q.pc = "insert" /\ q # Nil
  BY RequestType DEF CreateUser, IInv, At
<1>2. ~At(r, "hash") /\ ~At(r, "queued") /\ ~q.known
  BY <1>1 DEF IInv, Sound, SoundIn, At
<1>3. \E p \in {Reply(q, "ok"), Reply(Failed(q), "error"), Reply(q, "error")} :
        Becomes(r, p)
  BY DEF CreateUser
<1>4. ASSUME NEW p \in {Reply(q, "ok"), Reply(Failed(q), "error"), Reply(q, "error")}
      PROVE  p \in Request /\ p.pc # "hash" /\ SoundIn(p, registered')
  BY <1>1, <1>2 DEF Reply, Failed, Request, SoundIn
<1>5. new \in User
  BY <1>1 DEF Row, User, Request
<1>6. /\ users' \in {users, users \cup {new}}
      /\ registered' \in {registered, registered \cup {new}}
      /\ registered' # registered => users' = users \cup {new}
      /\ users' # users => Insertable(q.email)
  BY DEF CreateUser, NewRow
<1>7. users' \subseteq User /\ registered' \subseteq User
      /\ registered \subseteq registered'
  BY <1>5, <1>6 DEF IInv, TypeOK
<1>8. OneAccountPerAddress'
  <2>1. registered' \subseteq users'
    BY <1>6 DEF IInv, OneAccountPerAddress
  <2>2. users' # users => \A v \in users : Lower(v.email) # Lower(new.email)
    BY <1>6 DEF Insertable, Row
  <2>3. \A v, w \in users' : Lower(v.email) = Lower(w.email) => v = w
    BY <1>6, <2>2 DEF IInv, OneAccountPerAddress
  <2> QED
    BY <2>1, <2>3 DEF OneAccountPerAddress
<1>9. PICK p \in {Reply(q, "ok"), Reply(Failed(q), "error"), Reply(q, "error")} :
        Becomes(r, p)
  BY <1>3
<1>10. UNCHANGED <<pfpDefault, held, waiting>>
  BY DEF CreateUser
<1>11. Counted' /\ Line'
  BY <1>2, <1>4, <1>9, <1>10, Elsewhere
<1>12. Sound'
  BY <1>4, <1>7, <1>9, SoundKept
<1>13. TypeOK'
  BY <1>4, <1>7, <1>9, <1>10, OnlyOne DEF IInv, TypeOK
<1> QED
  BY <1>8, <1>11, <1>12, <1>13 DEF IInv

-----------------------------------------------------------------------------
(* The semaphore *)

(* A request takes a free place, or waits behind those that do. *)
LEMMA AcquireStep ==
    ASSUME IInv, NEW r \in Requests, Acquire(r)
    PROVE  IInv'
<1> DEFINE q == req[r]
<1>1. q \in Request /\ q.pc = "acquire" /\ q # Nil /\ SoundIn(q, registered)
  BY RequestType DEF Acquire, IInv, At, Sound
<1>2. UNCHANGED <<pfpDefault, users, registered>>
  BY DEF Acquire
<1>3. CASE Room(held) /\ held' = held + 1 /\ UNCHANGED waiting
           /\ Becomes(r, [q EXCEPT !.pc = "hash"])
  <2> DEFINE p == [q EXCEPT !.pc = "hash"]
  <2>1. p \in Request /\ p # Nil /\ p.pc = "hash" /\ SoundIn(p, registered)
    BY <1>1, FreeSlotAssumption DEF Request, SoundIn
  <2> HIDE DEF p
  <2>2. /\ req'[r] = p
        /\ \A s \in Requests \ {r} : req'[s] = req[s]
        /\ req' \in [Requests -> Request \cup {Nil}]
    BY <1>3, <2>1, OnlyOne DEF IInv, p
  <2>3. Hashers' = Hashers \cup {r} /\ r \notin Hashers
    BY <1>1, <2>1, <2>2 DEF Hashers, At
  <2>4. Counted'
    BY <1>3, <2>3, FS_AddElement DEF IInv, Counted
  <2>5. held' \in 0..NumCPU
    BY <1>3, RegistrationAssumption DEF RegistrationAssumption, IInv, TypeOK, Room
  <2>6. TypeOK'
    BY <1>2, <1>3, <2>2, <2>5 DEF IInv, TypeOK
  <2>7. Line'
    <3>1. \A i \in 1..Len(waiting) : waiting[i] \in Requests \ {r}
      BY <1>1, LenProperties DEF IInv, TypeOK, Line, At
    <3> QED
      BY <1>3, <2>2, <3>1 DEF IInv, Line, At
  <2>8. Sound'
    BY <1>2, <1>3, <2>1, SoundKept DEF p
  <2> QED
    BY <1>2, <2>4, <2>6, <2>7, <2>8 DEF IInv, OneAccountPerAddress
<1>4. CASE UNCHANGED held /\ waiting' = Append(waiting, r)
           /\ Becomes(r, [q EXCEPT !.pc = "queued"])
  <2> DEFINE p == [q EXCEPT !.pc = "queued"]
  <2>1. p \in Request /\ p # Nil /\ p.pc = "queued" /\ SoundIn(p, registered)
    BY <1>1, FreeSlotAssumption DEF Request, SoundIn
  <2> HIDE DEF p
  <2>2. /\ req'[r] = p
        /\ \A s \in Requests \ {r} : req'[s] = req[s]
        /\ req' \in [Requests -> Request \cup {Nil}]
    BY <1>4, <2>1, OnlyOne DEF IInv, p
  <2>3. Hashers' = Hashers
    BY <1>1, <2>1, <2>2 DEF Hashers, At
  <2>4. Counted'
    BY <1>4, <2>3 DEF IInv, Counted
  <2>5. /\ waiting' \in Seq(Requests) /\ Len(waiting') = Len(waiting) + 1
        /\ Len(waiting) \in Nat
        /\ \A i \in 1..Len(waiting) : waiting'[i] = waiting[i]
        /\ waiting'[Len(waiting) + 1] = r
    BY <1>4, AppendProperties, LenProperties DEF IInv, TypeOK
  <2>6. TypeOK'
    BY <1>2, <1>4, <2>2, <2>5 DEF IInv, TypeOK
  <2>7. \A i \in 1..Len(waiting) : waiting[i] \in Requests \ {r}
    BY <1>1, LenProperties DEF IInv, TypeOK, Line, At
  <2>8. \A i \in 1..Len(waiting') :
            i \in 1..Len(waiting) \/ (i = Len(waiting) + 1 /\ i \notin 1..Len(waiting))
    BY <2>5
  <2>9. /\ QueuedNext(r)
        /\ \A s \in Requests \ {r} : QueuedNext(s) <=> At(s, "queued")
    BY <2>1, <2>2 DEF At, QueuedNext
  <2>10. Line'
    <3>1. \A i \in 1..Len(waiting') : QueuedNext(waiting'[i])
      <4> SUFFICES ASSUME NEW i \in 1..Len(waiting')
                   PROVE  QueuedNext(waiting'[i])
        OBVIOUS
      <4>1. CASE i \in 1..Len(waiting)
        BY <2>5, <2>7, <2>9, <4>1 DEF IInv, Line
      <4>2. CASE i = Len(waiting) + 1
        BY <2>5, <2>9, <4>2
      <4> QED
        BY <2>8, <4>1, <4>2
    <3>2. \A i, k \in 1..Len(waiting') : waiting'[i] = waiting'[k] => i = k
      BY <2>5, <2>7, <2>8 DEF IInv, Line
    <3> QED
      BY <3>1, <3>2 DEF Line, At, QueuedNext
  <2>11. Sound'
    BY <1>2, <1>4, <2>1, SoundKept DEF p
  <2> QED
    BY <1>2, <2>4, <2>6, <2>10, <2>11 DEF IInv, OneAccountPerAddress
<1> QED
  BY <1>3, <1>4 DEF Acquire

(* A hashing goroutine gives its place back, or to the first that waits.    *)
(* It is counted, so that held was not zero.                                *)
LEMMA ReleaseStep ==
    ASSUME IInv, NEW r \in Requests, At(r, "hash"),
           NEW q \in Request, q.pc # "hash", q.pc # "queued",
           SoundIn(q, registered), Release(r, q),
           UNCHANGED <<pfpDefault, users, registered>>
    PROVE  IInv'
<1>1. r \in Hashers /\ IsFiniteSet(Hashers) /\ held = Cardinality(Hashers)
      /\ held \in 0..NumCPU /\ q # Nil
  BY FreeSlotAssumption DEF IInv, TypeOK, Hashers, Counted
<1>2. Cardinality(Hashers \ {r}) = held - 1 /\ IsFiniteSet(Hashers \ {r})
      /\ held - 1 \in Nat
  <2>1. /\ IsFiniteSet(Hashers \ {r})
        /\ Cardinality(Hashers \ {r}) = Cardinality(Hashers) - 1
    BY <1>1, FS_RemoveElement
  <2>2. Cardinality(Hashers \ {r}) \in Nat
    BY <2>1, FS_CardinalityType
  <2> QED
    BY <1>1, <2>1, <2>2
<1>3. \A i \in 1..Len(waiting) : waiting[i] \in Requests \ {r}
  BY LenProperties DEF IInv, TypeOK, Line, At
<1>4. CASE waiting = <<>> /\ held' = held - 1 /\ Becomes(r, q) /\ UNCHANGED waiting
  <2>1. /\ req'[r] = q
        /\ \A s \in Requests \ {r} : req'[s] = req[s]
        /\ req' \in [Requests -> Request \cup {Nil}]
    BY <1>4, OnlyOne DEF IInv
  <2>2. Hashers' = Hashers \ {r}
    BY <2>1 DEF Hashers, At
  <2>3. Counted'
    BY <1>2, <1>4, <2>2 DEF Counted
  <2>4. TypeOK'
    BY <1>1, <1>2, <1>4, <2>1, RegistrationAssumption
       DEF RegistrationAssumption, IInv, TypeOK
  <2>5. Line'
    BY <1>3, <1>4, <2>1 DEF IInv, Line, At
  <2>6. Sound'
    BY <1>4, SoundKept
  <2> QED
    BY <2>3, <2>4, <2>5, <2>6 DEF IInv, OneAccountPerAddress
<1>5. CASE /\ waiting # <<>> /\ waiting' = Tail(waiting) /\ UNCHANGED held
           /\ req' = [req EXCEPT ![r] = q, ![Head(waiting)].pc = "hash"]
  <2> DEFINE h == Head(waiting)
             p == [req[h] EXCEPT !.pc = "hash"]
  <2>1. /\ Len(waiting) \in Nat \ {0} /\ h = waiting[1]
        /\ waiting' \in Seq(Requests) /\ Len(waiting') = Len(waiting) - 1
        /\ \A i \in 1..Len(waiting') : waiting'[i] = waiting[i + 1]
    BY <1>5, HeadTailProperties, EmptySeq DEF IInv, TypeOK
  <2>2. h \in Requests \ {r} /\ At(h, "queued") /\ req[h] \in Request
    BY <1>3, <2>1, RequestType DEF IInv, Line
  <2>3. p \in Request /\ p # Nil /\ p.pc = "hash"
    BY <2>2, FreeSlotAssumption DEF Request
  <2>4. /\ req' \in [Requests -> Request \cup {Nil}]
        /\ req'[r] = q /\ req'[h] = p
        /\ \A s \in Requests \ {r, h} : req'[s] = req[s]
    BY <1>5, <2>2, <2>3 DEF IInv, TypeOK
  <2>5. Hashers' = (Hashers \ {r}) \cup {h} /\ h \notin Hashers
    BY <2>2, <2>3, <2>4 DEF Hashers, At
  <2>6. Counted'
    <3>1. h \notin Hashers \ {r}
      BY <2>5
    <3>2. /\ IsFiniteSet((Hashers \ {r}) \cup {h})
          /\ Cardinality((Hashers \ {r}) \cup {h}) = Cardinality(Hashers \ {r}) + 1
      BY <1>2, <3>1, FS_AddElement
    <3>3. (held - 1) + 1 = held
      BY <1>1
    <3> QED
      BY <1>2, <1>5, <2>5, <3>2, <3>3 DEF Counted
  <2>7. TypeOK'
    BY <1>5, <2>1, <2>4 DEF IInv, TypeOK
  <2>8. \A i \in 1..Len(waiting') :
            /\ i + 1 \in 1..Len(waiting) /\ i + 1 # 1
            /\ waiting'[i] = waiting[i + 1]
            /\ waiting'[i] \in Requests \ {r, h} /\ At(waiting[i + 1], "queued")
    <3> SUFFICES ASSUME NEW i \in 1..Len(waiting')
                 PROVE  /\ i + 1 \in 1..Len(waiting) /\ i + 1 # 1
                        /\ waiting'[i] = waiting[i + 1]
                        /\ waiting'[i] \in Requests \ {r, h} /\ At(waiting[i + 1], "queued")
      OBVIOUS
    <3>1. i + 1 \in 1..Len(waiting) /\ 1 \in 1..Len(waiting) /\ i + 1 # 1
          /\ waiting'[i] = waiting[i + 1]
      BY <2>1
    <3>2. waiting[i + 1] # waiting[1]
      BY <3>1 DEF IInv, Line
    <3> QED
      BY <1>3, <2>1, <3>1, <3>2 DEF IInv, Line
  <2>9. \A i \in 1..Len(waiting') : QueuedNext(waiting'[i])
    BY <2>4, <2>8 DEF At, QueuedNext
  <2>10. \A i, k \in 1..Len(waiting') : waiting'[i] = waiting'[k] => i = k
    <3> SUFFICES ASSUME NEW i \in 1..Len(waiting'), NEW k \in 1..Len(waiting'),
                        waiting'[i] = waiting'[k]
                 PROVE  i = k
      OBVIOUS
    <3>1. i + 1 = k + 1
      BY <2>8 DEF IInv, Line
    <3> QED
      BY <3>1
  <2>11. SoundIn(p, registered)
    BY <2>2 DEF IInv, Sound, SoundIn, At, Request
  <2>12. Sound'
    BY <2>4, <2>11 DEF IInv, Sound
  <2> QED
    BY <2>6, <2>7, <2>9, <2>10, <2>12
       DEF IInv, Line, At, QueuedNext, OneAccountPerAddress
<1> QED
  BY <1>4, <1>5 DEF Release

(* A login that knows compares its password with itself. *)
LEMMA HashStep ==
    ASSUME IInv, NEW r \in Requests, Hash(r)
    PROVE  IInv'
<1> DEFINE q == req[r]
           next == CASE q.op = "register" -> [q EXCEPT !.pc = "insert"]
                     [] q.op = "login" /\ CheckPassword(q) -> Reply(q, "ok")
                     [] OTHER -> Reply(q, "unauthorized")
<1>1. At(r, "hash") /\ UNCHANGED <<pfpDefault, users, registered>> /\ Release(r, next)
  BY DEF Hash
<1>2. q \in Request /\ q.pc = "hash" /\ SoundIn(q, registered)
  BY <1>1, RequestType DEF IInv, At, Sound
<1>3. next \in {[q EXCEPT !.pc = "insert"], Reply(q, "ok"), Reply(q, "unauthorized")}
      /\ (next = [q EXCEPT !.pc = "insert"] => q.op = "register")
  <2>1. Reply(q, "ok").pc = "replied" /\ Reply(q, "unauthorized").pc = "replied"
        /\ [q EXCEPT !.pc = "insert"].pc = "insert"
    BY <1>2 DEF Reply, Request
  <2>2. q.op \in {"register", "login"}
    BY <1>2 DEF Request
  <2>3. CASE q.op = "register"
    BY <2>3
  <2>4. CASE q.op = "login" /\ CheckPassword(q)
    BY <2>1, <2>4
  <2>5. CASE q.op = "login" /\ ~CheckPassword(q)
    BY <2>1, <2>5
  <2> QED
    BY <2>2, <2>3, <2>4, <2>5
<1>4. q.known => next = Reply(q, "ok")
  BY <1>2 DEF SoundIn, CheckPassword
<1>5. next \in Request /\ next.pc # "hash" /\ next.pc # "queued"
  BY <1>2, <1>3 DEF Reply, Request
<1>6. SoundIn(next, registered)
  <2>1. CASE q.known
    BY <1>2, <1>4, <2>1 DEF SoundIn, Reply, Request
  <2>2. CASE ~q.known
    <3>1. ~next.known
      BY <1>2, <1>3, <2>2 DEF Reply, Request
    <3>2. next.pc = "insert" => next.op = "register"
      BY <1>2, <1>3 DEF Reply, Request
    <3> QED
      BY <3>1, <3>2 DEF SoundIn
  <2> QED
    BY <2>1, <2>2
<1> HIDE DEF next
<1> QED
  BY <1>1, <1>5, <1>6, ReleaseStep

(* Every step keeps the invariant. *)
LEMMA NextInv == IInv /\ [Next]_vars => IInv'
<1> SUFFICES ASSUME IInv, [Next]_vars PROVE IInv'
  OBVIOUS
<1>1. CASE UNCHANGED vars
  <2>1. Hashers' = Hashers
    BY <1>1 DEF vars, Hashers, At
  <2> QED
    BY <1>1, <2>1 DEF vars, IInv, TypeOK, OneAccountPerAddress, Sound, Counted,
       Line, At
<1>2. ASSUME NEW r \in Requests, Handle(r)
      PROVE  IInv'
  BY <1>2, RegisterLookupStep, LoginLookupStep, AcquireStep, HashStep,
     CreateUserStep DEF Handle
<1>3. ASSUME NEW r \in Requests, NEW c \in SignUps \cup SignIns,
             \/ Send(r, "register", c[1], c[2])
             \/ Send(r, "login", c[1], c[2])
      PROVE  IInv'
  BY <1>3, SendStep
<1> QED
  BY <1>1, <1>2, <1>3, DeliverStep DEF Next

-----------------------------------------------------------------------------
(* Theorems *)

(* The inductive invariant holds however requests interleave and whichever *)
(* statements fail.                                                        *)
THEOREM RegistrationInvariance == Spec => []IInv
BY InitInv, NextInv, PTL DEF Spec

(* Every variable keeps its type: the semaphore holds between none and      *)
(* NumCPU.                                                                  *)
THEOREM RegistrationTypeCorrect == Spec => []TypeOK
<1>1. IInv => TypeOK
  BY DEF IInv
<1> QED
  BY <1>1, RegistrationInvariance, PTL

(* However many registrations of an address race, it has one account, and   *)
(* the account a client was told of is the one in the table.                *)
THEOREM OneAccount == Spec => []OneAccountPerAddress
<1>1. IInv => OneAccountPerAddress
  BY DEF IInv
<1> QED
  BY <1>1, RegistrationInvariance, PTL

(* Whoever was told of an account is let in with its spelling and password. *)
THEOREM RegisteredAreLetIn == Spec => []RegisteredLogsIn
<1>1. IInv => RegisteredLogsIn
  BY DEF IInv, Sound, SoundIn, RegisteredLogsIn, Answered, At
<1> QED
  BY <1>1, RegistrationInvariance, PTL

(* No more than NumCPU goroutines hash at a time (password.go:24), and the  *)
(* semaphore is full only when that many do.                                *)
THEOREM HashersBounded == Spec => [](held = Cardinality(Hashers) /\ held <= NumCPU)
<1>1. IInv => held = Cardinality(Hashers) /\ held <= NumCPU
  BY RegistrationAssumption DEF RegistrationAssumption, IInv, Counted, TypeOK
<1> QED
  BY <1>1, RegistrationInvariance, PTL
=============================================================================
