-------------------------- MODULE WorkerPoolProofs --------------------------
(***************************************************************************)
(* Proofs about WorkerPool, for every number of workers, every set of jobs *)
(* and every capacity of the queue.                                        *)
(***************************************************************************)
EXTENDS WorkerPool, SequenceTheorems, TLAPS

USE PoolAssumption DEF PoolAssumption

-----------------------------------------------------------------------------
(* Sequences *)

Elements(s) == {s[i] : i \in DOMAIN s}

NoRepeats(s) == \A i, k \in DOMAIN s : s[i] = s[k] => i = k

(* Appending a new element keeps a sequence free of repetitions. *)
LEMMA AppendElements ==
    ASSUME NEW S, NEW s \in Seq(S), NEW x \in S
    PROVE  /\ Elements(Append(s, x)) = Elements(s) \cup {x}
           /\ NoRepeats(s) /\ x \notin Elements(s) => NoRepeats(Append(s, x))
<1>1. /\ DOMAIN s = 1..Len(s) /\ Len(s) \in Nat
      /\ DOMAIN Append(s, x) = 1..Len(s) + 1
      /\ \A i \in 1..Len(s) : Append(s, x)[i] = s[i]
      /\ Append(s, x)[Len(s) + 1] = x
  BY AppendProperties, LenProperties
<1>2. 1..Len(s) + 1 = (1..Len(s)) \cup {Len(s) + 1}
  BY <1>1
<1> QED
  BY <1>1, <1>2 DEF Elements, NoRepeats

(* A sequence free of repetitions is its head and, apart from it, its tail. *)
LEMMA TailElements ==
    ASSUME NEW S, NEW s \in Seq(S), s # <<>>
    PROVE  /\ Head(s) \in S
           /\ Elements(s) = Elements(Tail(s)) \cup {Head(s)}
           /\ NoRepeats(s) => NoRepeats(Tail(s)) /\ Head(s) \notin Elements(Tail(s))
<1>1. /\ DOMAIN s = 1..Len(s) /\ Len(s) \in Nat \ {0}
      /\ Head(s) = s[1] /\ Head(s) \in S
      /\ Tail(s) \in Seq(S) /\ Len(Tail(s)) = Len(s) - 1
      /\ \A i \in 1..Len(Tail(s)) : Tail(s)[i] = s[i + 1]
  BY HeadTailProperties, LenProperties, EmptySeq
<1>2. DOMAIN Tail(s) = 1..Len(s) - 1
  BY <1>1, LenProperties
<1>3. \A i \in DOMAIN s : i = 1 \/ (i - 1 \in DOMAIN Tail(s)
                                     /\ s[i] = Tail(s)[i - 1])
  BY <1>1, <1>2
<1>4. \A i \in DOMAIN Tail(s) : i + 1 \in DOMAIN s /\ Tail(s)[i] = s[i + 1]
                                /\ i + 1 # 1 /\ i \in Nat
  BY <1>1, <1>2
<1>5. Elements(s) = Elements(Tail(s)) \cup {Head(s)}
  <2>1. Elements(s) \subseteq Elements(Tail(s)) \cup {Head(s)}
    <3> SUFFICES ASSUME NEW i \in DOMAIN s
                 PROVE  s[i] \in Elements(Tail(s)) \cup {Head(s)}
      BY DEF Elements
    <3>1. CASE i = 1
      BY <1>1, <3>1
    <3>2. CASE i - 1 \in DOMAIN Tail(s) /\ s[i] = Tail(s)[i - 1]
      BY <3>2 DEF Elements
    <3> QED
      BY <1>3, <3>1, <3>2
  <2>2. Elements(Tail(s)) \subseteq Elements(s)
    BY <1>4 DEF Elements
  <2>3. Head(s) \in Elements(s)
    <3>1. 1 \in DOMAIN s
      BY <1>1
    <3> QED
      BY <1>1, <3>1 DEF Elements
  <2> QED
    BY <2>1, <2>2, <2>3
<1>6. NoRepeats(s) => NoRepeats(Tail(s)) /\ Head(s) \notin Elements(Tail(s))
  BY <1>1, <1>4 DEF Elements, NoRepeats
<1> QED
  BY <1>1, <1>5, <1>6

-----------------------------------------------------------------------------
(* The inductive invariant.  A job handed to a parked worker overtakes     *)
(* nothing because workers park only on an empty queue; TakenInOrder is    *)
(* not inductive without that.                                             *)

ParkedOnEmpty == SomeParked => jobs = <<>> /\ ~closed

Once ==
    /\ NoRepeats(jobs)
    /\ \A v, w \in Workers : worker[v].job = worker[w].job
                                => v = w \/ worker[v].job = Nil
    /\ Elements(jobs) \cap InHand = {}
    /\ (Elements(jobs) \cup InHand) \cap ended = {}
    /\ {j \in Jobs : sent[j] = "true"} = Elements(jobs) \cup InHand \cup ended

IInv == TypeOK /\ TakenInOrder /\ ParkedOnEmpty /\ Once

States == {Looping, Parked, Signalling} \cup {Handling(j) : j \in Jobs}

(* What a state of a worker says of its hands. *)
LEMMA StateJobs ==
    /\ Looping.job = Nil /\ Parked.job = Nil /\ Signalling.job = Nil
    /\ \A j \in Jobs : Handling(j).job = j /\ Handling(j) # Parked
    /\ Looping # Parked /\ Signalling # Parked
    /\ \A s \in States : s.job \in Jobs \cup {Nil}
BY DEF Looping, Parked, Signalling, Handling, States

(* A worker whose hands were empty takes job j. *)
LEMMA HandsTake ==
    ASSUME TypeOK, NEW w \in Workers, worker[w].job = Nil, NEW j \in Jobs,
           Becomes(w, Handling(j))
    PROVE  InHand' = InHand \cup {j}
<1>1. worker' = [worker EXCEPT ![w] = Handling(j)] /\ w \in DOMAIN worker
  BY DEF Becomes, TypeOK
<1>2. worker'[w].job = j /\ \A v \in Workers \ {w} : worker'[v] = worker[v]
  BY <1>1, StateJobs DEF TypeOK
<1> QED
  BY <1>2 DEF InHand

(* A worker that keeps what it has in hand, or has nothing, changes nothing *)
(* there.                                                                   *)
LEMMA HandsKeep ==
    ASSUME TypeOK, worker' \in [Workers -> States],
           \A w \in Workers : worker'[w].job = worker[w].job
    PROVE  InHand' = InHand
BY DEF InHand

(* Jobs are where they were if the places of jobs and the answer "true"     *)
(* are what they were.                                                      *)
LEMMA OnceKept ==
    ASSUME Once, UNCHANGED <<jobs, worker, ended>>,
           {j \in Jobs : sent'[j] = "true"} = {j \in Jobs : sent[j] = "true"}
    PROVE  Once'
<1>1. InHand' = InHand
  BY DEF InHand
<1>2. Elements(jobs)' = Elements(jobs) /\ (NoRepeats(jobs) <=> NoRepeats(jobs)')
  BY DEF Elements, NoRepeats
<1> QED
  BY <1>1, <1>2 DEF Once

(* The pool starts with every job unsent. *)
LEMMA InitInv == Init => IInv
<1> SUFFICES ASSUME Init PROVE IInv
  OBVIOUS
<1>1. TypeOK
  <2>1. <<>> \in Seq(Jobs) /\ Len(<<>>) = 0 /\ queueSize \in Nat
    BY EmptySeq DEF Init
  <2>2. worker \in [Workers -> States]
    BY DEF Init, States
  <2>3. sent \in [Jobs -> {"unsent", "true", "false", "panic"}]
    BY DEF Init
  <2>4. jobs \in Seq(Jobs) /\ Len(jobs) <= queueSize
    BY <2>1 DEF Init
  <2> QED
    BY <2>1, <2>2, <2>3, <2>4 DEF Init, TypeOK, States
<1>2. TakenInOrder
  BY DEF Init, TakenInOrder
<1>3. ParkedOnEmpty
  BY StateJobs DEF Init, ParkedOnEmpty, SomeParked
<1>4. Once
  <2>1. InHand = {} /\ Elements(jobs) = {} /\ NoRepeats(jobs) /\ ended = {}
    BY StateJobs DEF Init, InHand, Elements, NoRepeats
  <2>2. \A v \in Workers : worker[v].job = Nil
    BY StateJobs DEF Init
  <2>3. {j \in Jobs : sent[j] = "true"} = {}
    BY DEF Init
  <2> QED
    BY <2>1, <2>2, <2>3 DEF Once
<1> QED
  BY <1>1, <1>2, <1>3, <1>4 DEF IInv

-----------------------------------------------------------------------------
(* Steps of Send *)

(* A job that Send takes on is nowhere in the pool yet. *)
LEMMA NewJob ==
    ASSUME IInv, NEW j \in Jobs, NEW a, Result(j, a)
    PROVE  j \notin Elements(jobs) \cup InHand \cup ended
BY DEF IInv, Once, Result

(* What Send answers to the other jobs is left alone. *)
LEMMA SentType ==
    ASSUME TypeOK, NEW j \in Jobs,
           NEW a \in {"true", "false", "panic"}, Result(j, a)
    PROVE  /\ sent' \in [Jobs -> {"unsent", "true", "false", "panic"}]
           /\ {i \in Jobs : sent'[i] = "true"} =
                {i \in Jobs : sent[i] = "true"} \cup (IF a = "true" THEN {j}
                                                                  ELSE {})
<1>1. sent' = [sent EXCEPT ![j] = a] /\ sent[j] # "true"
      /\ sent \in [Jobs -> {"unsent", "true", "false", "panic"}]
  BY DEF Result, TypeOK
<1> QED
  BY <1>1

(* Send hands the job to a parked worker. *)
LEMMA SendToWorkerStep ==
    ASSUME IInv, NEW j \in Jobs, SendToWorker(j)
    PROVE  IInv'
<1>1. PICK w \in Workers : worker[w] = Parked /\ Becomes(w, Handling(j))
  BY DEF SendToWorker
<1>2. TypeOK /\ jobs = <<>> /\ taken \in Seq(Jobs) /\ accepted = taken \o jobs
  BY <1>1 DEF IInv, TypeOK, ParkedOnEmpty, SomeParked, TakenInOrder
<1>3. /\ worker' = [worker EXCEPT ![w] = Handling(j)]
      /\ worker' \in [Workers -> States]
      /\ \A v \in Workers : worker'[v] = IF v = w THEN Handling(j) ELSE worker[v]
  BY <1>1 DEF Becomes, IInv, TypeOK, States
<1>4. TypeOK'
  <2>1. accepted' \in Seq(Jobs) /\ taken' \in Seq(Jobs)
    BY <1>2, AppendProperties DEF SendToWorker, TypeOK
  <2>2. sent' \in [Jobs -> {"unsent", "true", "false", "panic"}]
    BY <1>2, SentType DEF SendToWorker
  <2> QED
    BY <1>2, <1>3, <2>1, <2>2 DEF SendToWorker, TypeOK, States
<1>5. TakenInOrder'
  <2>1. accepted = taken
    BY <1>2, ConcatEmptySeq
  <2>2. taken' = Append(taken, j) /\ taken' \in Seq(Jobs)
        /\ accepted' = Append(accepted, j) /\ jobs' = <<>>
    BY <1>2, AppendProperties DEF SendToWorker
  <2>3. taken' \o <<>> = taken'
    BY <2>2, ConcatEmptySeq
  <2> QED
    BY <2>1, <2>2, <2>3 DEF TakenInOrder
<1>6. ParkedOnEmpty'
  BY <1>2 DEF SendToWorker, ParkedOnEmpty
<1>7. Once'
  <2>1. InHand' = InHand \cup {j}
    BY <1>1, <1>2, HandsTake, StateJobs
  <2>2. \A u, v \in Workers : worker'[u].job = worker'[v].job
                               => u = v \/ worker'[u].job = Nil
    <3>1. \A v \in Workers : worker[v].job # j
      BY NewJob DEF SendToWorker, InHand
    <3> QED
      BY <1>3, <3>1, StateJobs DEF IInv, Once
  <2>3. {i \in Jobs : sent'[i] = "true"} =
          {i \in Jobs : sent[i] = "true"} \cup {j}
    BY <1>2, SentType DEF SendToWorker
  <2>4. j \notin Elements(jobs) \cup InHand \cup ended
    BY NewJob DEF SendToWorker
  <2>5. jobs' = jobs /\ ended' = ended
    BY DEF SendToWorker
  <2>6. Elements(jobs)' = Elements(jobs) /\ NoRepeats(jobs)'
    BY <2>5 DEF Elements, NoRepeats, IInv, Once
  <2> QED
    BY <2>1, <2>2, <2>3, <2>4, <2>5, <2>6 DEF IInv, Once
<1> QED
  BY <1>4, <1>5, <1>6, <1>7 DEF IInv

(* Send puts the job at the end of the queue. *)
LEMMA SendToQueueStep ==
    ASSUME IInv, NEW j \in Jobs, SendToQueue(j)
    PROVE  IInv'
<1>1. TypeOK /\ jobs \in Seq(Jobs) /\ taken \in Seq(Jobs)
      /\ accepted = taken \o jobs
  BY DEF IInv, TypeOK, TakenInOrder
<1>2. /\ jobs' = Append(jobs, j) /\ jobs' \in Seq(Jobs)
      /\ Len(jobs') = Len(jobs) + 1 /\ Len(jobs) \in Nat
      /\ accepted' = Append(accepted, j) /\ accepted' \in Seq(Jobs)
  BY <1>1, AppendProperties, LenProperties DEF SendToQueue, TypeOK
<1>3. TypeOK'
  <2>1. sent' \in [Jobs -> {"unsent", "true", "false", "panic"}]
    BY <1>1, SentType DEF SendToQueue
  <2>2. Len(jobs') <= queueSize
    BY <1>2 DEF SendToQueue, Room, TypeOK, IInv
  <2> QED
    BY <1>1, <1>2, <2>1, <2>2 DEF SendToQueue, TypeOK
<1>4. TakenInOrder'
  <2>1. <<j>> \in Seq(Jobs)
    OBVIOUS
  <2>2. /\ Append(jobs, j) = jobs \o <<j>>
        /\ Append(accepted, j) = accepted \o <<j>>
    BY <1>1, AppendIsConcat DEF TypeOK
  <2>3. (taken \o jobs) \o <<j>> = taken \o (jobs \o <<j>>)
    BY <1>1, <2>1, ConcatAssociative
  <2> QED
    BY <1>1, <1>2, <2>2, <2>3 DEF TakenInOrder, SendToQueue
<1>5. ParkedOnEmpty'
  BY DEF SendToQueue, ParkedOnEmpty, SomeParked
<1>6. Once'
  <2>1. j \notin Elements(jobs) \cup InHand \cup ended
    BY NewJob DEF SendToQueue
  <2>2. Elements(jobs)' = Elements(jobs) \cup {j} /\ NoRepeats(jobs)'
    <3>1. /\ Elements(jobs') = Elements(jobs) \cup {j}
          /\ NoRepeats(jobs')
      BY <1>1, <1>2, <2>1, AppendElements DEF IInv, Once
    <3> QED
      BY <3>1 DEF Elements, NoRepeats
  <2>3. {i \in Jobs : sent'[i] = "true"} =
          {i \in Jobs : sent[i] = "true"} \cup {j}
    BY <1>1, SentType DEF SendToQueue
  <2>4. InHand' = InHand /\ ended' = ended /\ worker' = worker
    BY DEF SendToQueue, InHand
  <2> QED
    BY <2>1, <2>2, <2>3, <2>4 DEF IInv, Once
<1> QED
  BY <1>3, <1>4, <1>5, <1>6 DEF IInv

(* Send refuses the job, or panics: nothing in the pool changes. *)
LEMMA SendInVainStep ==
    ASSUME IInv, NEW j \in Jobs, SendRefused(j) \/ SendPanics(j)
    PROVE  IInv'
<1>1. PICK a \in {"false", "panic"} : Result(j, a)
  BY DEF SendRefused, SendPanics
<1>2. /\ sent' \in [Jobs -> {"unsent", "true", "false", "panic"}]
      /\ {i \in Jobs : sent'[i] = "true"} = {i \in Jobs : sent[i] = "true"}
  BY <1>1, SentType DEF IInv
<1>3. UNCHANGED <<queueSize, jobs, closed, returned, worker, ended, accepted,
                  taken>>
  BY DEF SendRefused, SendPanics
<1>4. TypeOK' /\ TakenInOrder' /\ ParkedOnEmpty'
  BY <1>2, <1>3 DEF IInv, TypeOK, TakenInOrder, ParkedOnEmpty, SomeParked
<1> QED
  BY <1>2, <1>3, <1>4, OnceKept DEF IInv

-----------------------------------------------------------------------------
(* Steps of run *)

(* A worker takes the oldest job of the queue. *)
LEMMA TakeStep ==
    ASSUME IInv, NEW w \in Workers, Take(w)
    PROVE  IInv'
<1> DEFINE j == Head(jobs)
<1>1. /\ TypeOK /\ jobs \in Seq(Jobs) /\ jobs # <<>> /\ taken \in Seq(Jobs)
      /\ accepted = taken \o jobs
  BY DEF IInv, TypeOK, TakenInOrder, Take
<1>2. /\ j \in Jobs /\ jobs' = Tail(jobs) /\ jobs' \in Seq(Jobs)
      /\ Len(jobs') = Len(jobs) - 1 /\ Len(jobs) \in Nat
      /\ taken' = Append(taken, j) /\ taken' \in Seq(Jobs)
  BY <1>1, HeadTailProperties, LenProperties, AppendProperties DEF Take
<1> HIDE DEF j
<1>3. worker[w] = Looping /\ Becomes(w, Handling(j))
  BY DEF Take, j
<1>4. /\ worker' \in [Workers -> States]
      /\ \A v \in Workers : worker'[v] = IF v = w THEN Handling(j) ELSE worker[v]
  BY <1>1, <1>2, <1>3 DEF Becomes, TypeOK, States
<1>5. TypeOK'
  <2>1. Len(jobs') <= queueSize
    BY <1>1, <1>2 DEF TypeOK, Take
  <2> QED
    BY <1>1, <1>2, <1>4, <2>1 DEF TypeOK, Take, States
<1>6. TakenInOrder'
  <2>1. <<j>> \in Seq(Jobs)
    BY <1>2
  <2>2. jobs = <<j>> \o Tail(jobs)
    BY <1>1, HeadTailProperties, <1>2 DEF j
  <2>3. Append(taken, j) = taken \o <<j>>
    BY <1>1, <1>2, AppendIsConcat
  <2>4. (taken \o <<j>>) \o Tail(jobs) = taken \o (<<j>> \o Tail(jobs))
    BY <1>1, <1>2, <2>1, ConcatAssociative
  <2> QED
    BY <1>1, <1>2, <2>2, <2>3, <2>4 DEF TakenInOrder, Take
<1>7. ParkedOnEmpty'
  BY <1>1, <1>2, <1>4, StateJobs DEF IInv, ParkedOnEmpty, SomeParked, Take
<1>8. Once'
  <2>1. InHand' = InHand \cup {j}
    BY <1>1, <1>2, <1>3, HandsTake, StateJobs
  <2>2. /\ Elements(jobs) = Elements(jobs)' \cup {j}
        /\ NoRepeats(jobs)' /\ j \notin Elements(jobs)'
    <3>1. /\ Elements(jobs) = Elements(jobs') \cup {j}
          /\ NoRepeats(jobs') /\ j \notin Elements(jobs')
      BY <1>1, <1>2, TailElements DEF IInv, Once, j
    <3> QED
      BY <3>1 DEF Elements, NoRepeats
  <2>3. \A u, v \in Workers : worker'[u].job = worker'[v].job
                               => u = v \/ worker'[u].job = Nil
    <3>1. \A v \in Workers : worker[v].job # j
      BY <1>2, <2>2 DEF IInv, Once, InHand
    <3> QED
      BY <1>2, <1>4, <3>1, StateJobs DEF IInv, Once
  <2>4. ended' = ended /\ sent' = sent
    BY DEF Take
  <2> QED
    BY <2>1, <2>2, <2>3, <2>4 DEF IInv, Once
<1> QED
  BY <1>5, <1>6, <1>7, <1>8 DEF IInv

(* A worker moves between states in which it holds nothing. *)
LEMMA EmptyHandedStep ==
    ASSUME IInv, worker' \in [Workers -> States],
           \A v \in Workers : worker'[v].job = worker[v].job,
           ParkedOnEmpty', closed' \in BOOLEAN, returned' \in BOOLEAN,
           UNCHANGED <<queueSize, jobs, sent, ended, accepted, taken>>
    PROVE  IInv'
<1>1. InHand' = InHand
  BY HandsKeep DEF IInv
<1>2. Elements(jobs)' = Elements(jobs) /\ (NoRepeats(jobs) <=> NoRepeats(jobs)')
  BY DEF Elements, NoRepeats
<1>3. Once'
  BY <1>1, <1>2 DEF IInv, Once
<1> QED
  BY <1>3 DEF IInv, TypeOK, TakenInOrder, States

(* A worker parks, or leaves the loop. *)
LEMMA ParkOrEndStep ==
    ASSUME IInv, NEW w \in Workers, Park(w) \/ End(w)
    PROVE  IInv'
<1>1. PICK s \in {Parked, Signalling} : Becomes(w, s)
  BY DEF Park, End
<1>2. worker[w] = Looping /\ jobs = <<>> /\ TypeOK
  BY DEF Park, End, IInv
<1>3. /\ worker' \in [Workers -> States]
      /\ \A v \in Workers : worker'[v] = IF v = w THEN s ELSE worker[v]
  BY <1>1, <1>2 DEF Becomes, TypeOK, States
<1>4. \A v \in Workers : worker'[v].job = worker[v].job
  BY <1>2, <1>3, StateJobs
<1>5. UNCHANGED <<queueSize, jobs, closed, returned, sent, ended, accepted,
                  taken>>
  BY DEF Park, End
<1>6. ParkedOnEmpty'
  <2>1. CASE Park(w)
    BY <2>1, <1>2, <1>5 DEF Park, ParkedOnEmpty
  <2>2. CASE End(w)
    <3>1. \A v \in Workers : worker'[v] = Parked => worker[v] = Parked
      BY <2>2, <1>2, <1>3, StateJobs DEF End, Becomes, TypeOK
    <3> QED
      BY <3>1, <1>5 DEF IInv, ParkedOnEmpty, SomeParked
  <2> QED
    BY <2>1, <2>2
<1> QED
  BY <1>2, <1>3, <1>4, <1>5, <1>6, EmptyHandedStep DEF TypeOK

(* A handler is over: its job is done with and the hands are empty. *)
LEMMA HandleStep ==
    ASSUME IInv, NEW w \in Workers, Handle(w)
    PROVE  IInv'
<1>1. PICK j \in Jobs : /\ worker[w] = Handling(j)
                        /\ ended' = ended \cup {j}
                        /\ Becomes(w, Looping)
                        /\ UNCHANGED <<queueSize, jobs, closed, returned, sent,
                                       accepted, taken>>
  BY DEF Handle
<1>2. TypeOK
  BY DEF IInv
<1>3. /\ worker' \in [Workers -> States]
      /\ \A v \in Workers : worker'[v] = IF v = w THEN Looping ELSE worker[v]
  BY <1>1, <1>2 DEF Becomes, TypeOK, States
<1>4. \A v \in Workers : worker[v].job = j => v = w
  BY <1>1, StateJobs DEF IInv, Once
<1>5. InHand' = InHand \ {j} /\ j \in InHand
  <2>1. j \in InHand /\ worker[w].job = j /\ worker'[w].job = Nil
    BY <1>1, <1>3, StateJobs DEF InHand
  <2> QED
    BY <1>3, <1>4, <2>1 DEF InHand
<1>6. TypeOK'
  BY <1>1, <1>2, <1>3 DEF TypeOK, States
<1>7. TakenInOrder' /\ ParkedOnEmpty'
  BY <1>1, <1>3, StateJobs DEF IInv, TakenInOrder, ParkedOnEmpty, SomeParked
<1>8. Once'
  <2>1. Elements(jobs)' = Elements(jobs) /\ (NoRepeats(jobs) <=> NoRepeats(jobs)')
    BY <1>1 DEF Elements, NoRepeats
  <2>2. \A u, v \in Workers : worker'[u].job = worker'[v].job
                               => u = v \/ worker'[u].job = Nil
    BY <1>3, StateJobs DEF IInv, Once
  <2> QED
    BY <1>1, <1>5, <2>1, <2>2 DEF IInv, Once
<1> QED
  BY <1>6, <1>7, <1>8 DEF IInv

-----------------------------------------------------------------------------
(* Shutdown wakes the parked workers; nobody parks on a closed channel. *)
LEMMA ShutdownStep ==
    ASSUME IInv, Shutdown
    PROVE  IInv'
<1>1. /\ worker' \in [Workers -> States]
      /\ \A v \in Workers :
           worker'[v] = IF worker[v] = Parked THEN Looping ELSE worker[v]
  BY DEF Shutdown, IInv, TypeOK, States
<1>2. \A v \in Workers : worker'[v].job = worker[v].job /\ worker'[v] # Parked
  BY <1>1, StateJobs
<1>3. ParkedOnEmpty'
  BY <1>2 DEF ParkedOnEmpty, SomeParked
<1>4. /\ closed' \in BOOLEAN /\ returned' \in BOOLEAN
      /\ UNCHANGED <<queueSize, jobs, sent, ended, accepted, taken>>
  BY DEF Shutdown
<1> QED
  BY <1>1, <1>2, <1>3, <1>4, EmptyHandedStep

(* Every step keeps the invariant. *)
LEMMA NextInv == IInv /\ [Next]_vars => IInv'
<1> SUFFICES ASSUME IInv, [Next]_vars PROVE IInv'
  OBVIOUS
<1>1. ASSUME NEW j \in Jobs, Send(j) PROVE IInv'
  BY <1>1, SendToWorkerStep, SendToQueueStep, SendInVainStep DEF Send
<1>2. ASSUME NEW w \in Workers, Run(w) PROVE IInv'
  BY <1>2, TakeStep, ParkOrEndStep, HandleStep DEF Run
<1>3. CASE UNCHANGED vars
  <2>1. TypeOK' /\ TakenInOrder' /\ ParkedOnEmpty'
    BY <1>3 DEF vars, IInv, TypeOK, TakenInOrder, ParkedOnEmpty, SomeParked
  <2> QED
    BY <1>3, <2>1, OnceKept DEF vars, IInv
<1> QED
  BY <1>1, <1>2, <1>3, ShutdownStep DEF Next

-----------------------------------------------------------------------------
(* Theorems *)

(* The inductive invariant of the pool holds throughout, whatever Send,    *)
(* the workers and Shutdown do in whatever order.                          *)
THEOREM PoolInvariance == Spec => []IInv
BY InitInv, NextInv, PTL DEF Spec

(* Every variable keeps its type; the queue never exceeds the capacity     *)
(* NewPool was given.                                                      *)
THEOREM PoolTypeCorrect == Spec => []TypeOK
<1>1. IInv => TypeOK
  BY DEF IInv
<1> QED
  BY <1>1, PoolInvariance, PTL

(* A job that Send accepted is in exactly one place: in the queue, in one  *)
(* worker's hands or done with.                                            *)
THEOREM NoJobLostOrDoubled == Spec => []EachJobOnce
<1>1. IInv => EachJobOnce
  BY DEF IInv, Once, EachJobOnce, NoRepeats, Elements, Queued
<1> QED
  BY <1>1, PoolInvariance, PTL

(* Workers receive the jobs in the order Send accepted them.               *)
THEOREM FirstComeFirstServed == Spec => []TakenInOrder
<1>1. IInv => TakenInOrder
  BY DEF IInv
<1> QED
  BY <1>1, PoolInvariance, PTL

-----------------------------------------------------------------------------
(* WorkerPool implements JobQueue *)

(* The queue knows the jobs that wait, are in hand or are over.            *)
LEMMA QueueKnows == Queue!Known = Elements(jobs) \cup InHand \cup ended
BY DEF Queue!Known, Elements

(* A job handed to a parked worker is passed on past an empty queue.       *)
LEMMA SendPassesOn ==
    ASSUME IInv, NEW j \in Jobs, SendToWorker(j)
    PROVE  Queue!PassOn(j)
<1>1. PICK w \in Workers : worker[w] = Parked /\ Becomes(w, Handling(j))
  BY DEF SendToWorker
<1>2. jobs = <<>>
  BY <1>1 DEF IInv, ParkedOnEmpty, SomeParked
<1>3. InHand' = InHand \cup {j}
  BY <1>1, HandsTake, StateJobs DEF IInv
<1>4. j \notin Queue!Known
  BY NewJob, QueueKnows DEF SendToWorker
<1> QED
  BY <1>2, <1>3, <1>4 DEF Queue!PassOn, SendToWorker

(* A job put into the channel's buffer waits there after the others.       *)
LEMMA SendEnqueues ==
    ASSUME IInv, NEW j \in Jobs, SendToQueue(j)
    PROVE  Queue!Enqueue(j)
<1>1. j \notin Queue!Known
  BY NewJob, QueueKnows DEF SendToQueue
<1>2. InHand' = InHand
  BY DEF SendToQueue, InHand
<1> QED
  BY <1>1, <1>2 DEF Queue!Enqueue, SendToQueue, Room

(* A worker that receives takes the oldest job.                            *)
LEMMA TakeDequeues ==
    ASSUME IInv, NEW w \in Workers, Take(w)
    PROVE  Queue!Dequeue
<1>1. Head(jobs) \in Jobs
  BY TailElements DEF Take, IInv, TypeOK
<1>2. InHand' = InHand \cup {Head(jobs)}
  <2>1. worker[w].job = Nil /\ Becomes(w, Handling(Head(jobs)))
    BY StateJobs DEF Take
  <2> QED
    BY <1>1, <2>1, HandsTake DEF IInv
<1> QED
  BY <1>2 DEF Queue!Dequeue, Take

(* A handler that is over finishes its job, which nobody else has in hand. *)
LEMMA HandleFinishes ==
    ASSUME IInv, NEW w \in Workers, Handle(w)
    PROVE  \E j \in Jobs : Queue!Finish(j)
<1>1. PICK j \in Jobs : /\ worker[w] = Handling(j)
                        /\ ended' = ended \cup {j}
                        /\ Becomes(w, Looping)
                        /\ UNCHANGED <<queueSize, jobs, closed>>
  BY DEF Handle
<1>2. \A v \in Workers : worker'[v] = IF v = w THEN Looping ELSE worker[v]
  BY <1>1 DEF Becomes, IInv, TypeOK
<1>3. \A v \in Workers : worker[v].job = j => v = w
  BY <1>1, StateJobs DEF IInv, Once
<1>4. j \in InHand /\ worker[w].job = j /\ worker'[w].job = Nil
  BY <1>1, <1>2, StateJobs DEF InHand
<1>5. InHand' = InHand \ {j}
  BY <1>2, <1>3, <1>4 DEF InHand
<1>6. Queue!Finish(j)
  BY <1>1, <1>4, <1>5 DEF Queue!Finish
<1> QED
  BY <1>6

(* The rest of run moves empty hands: the queue does not see it.           *)
LEMMA EmptyHandsUnseen ==
    ASSUME IInv, NEW w \in Workers, Park(w) \/ End(w)
    PROVE  UNCHANGED <<queueSize, jobs, InHand, ended, ~closed>>
<1>1. PICK s \in {Parked, Signalling} : Becomes(w, s)
  BY DEF Park, End
<1>2. worker[w] = Looping /\ UNCHANGED <<queueSize, jobs, closed, ended>>
  BY DEF Park, End
<1>3. /\ worker' \in [Workers -> States]
      /\ \A v \in Workers : worker'[v] = IF v = w THEN s ELSE worker[v]
  BY <1>1 DEF Becomes, IInv, TypeOK, States
<1>4. InHand' = InHand
  BY <1>2, <1>3, StateJobs, HandsKeep DEF IInv
<1> QED
  BY <1>2, <1>4

(* Shutdown closes the queue and leaves it as it is.                       *)
LEMMA ShutdownCloses ==
    ASSUME IInv, Shutdown
    PROVE  Queue!Close
<1>1. /\ worker' \in [Workers -> States]
      /\ \A v \in Workers :
           worker'[v] = IF worker[v] = Parked THEN Looping ELSE worker[v]
  BY DEF Shutdown, IInv, TypeOK, States
<1>2. InHand' = InHand
  BY <1>1, StateJobs, HandsKeep DEF IInv
<1> QED
  BY <1>2 DEF Queue!Close, Shutdown

(* Each step of the pool is one of the queue, or is not seen there.        *)
LEMMA QueueStep ==
    IInv /\ [Next]_vars =>
      [Queue!Next]_<<queueSize, jobs, InHand, ended, ~closed>>
<1> SUFFICES ASSUME IInv, [Next]_vars
             PROVE  \/ Queue!Next
                    \/ UNCHANGED <<queueSize, jobs, InHand, ended, ~closed>>
  OBVIOUS
<1>1. ASSUME NEW j \in Jobs, SendToWorker(j) \/ SendToQueue(j)
      PROVE  Queue!Next
  BY <1>1, SendPassesOn, SendEnqueues DEF Queue!Next
<1>2. ASSUME NEW j \in Jobs, SendRefused(j) \/ SendPanics(j)
      PROVE  UNCHANGED <<queueSize, jobs, InHand, ended, ~closed>>
  BY <1>2 DEF SendRefused, SendPanics, InHand
<1>3. ASSUME NEW w \in Workers, Take(w) \/ Handle(w)
      PROVE  Queue!Next
  BY <1>3, TakeDequeues, HandleFinishes DEF Queue!Next
<1>4. ASSUME NEW w \in Workers, Park(w) \/ End(w)
      PROVE  UNCHANGED <<queueSize, jobs, InHand, ended, ~closed>>
  BY <1>4, EmptyHandsUnseen
<1>5. CASE Shutdown
  BY <1>5, ShutdownCloses DEF Queue!Next
<1>6. CASE UNCHANGED vars
  BY <1>6 DEF vars, InHand
<1> QED
  BY <1>1, <1>2, <1>3, <1>4, <1>5, <1>6 DEF Next, Send, Run

(* The pool behaves as a bounded queue, first in first out, whatever the   *)
(* goroutines do: what Send and Shutdown promise their callers.            *)
THEOREM PoolRefinement == Spec => ImplementsQueue
<1>1. Init => Queue!Init
  BY StateJobs DEF Init, Queue!Init, InHand
<1> QED
  BY <1>1, InitInv, NextInv, QueueStep, PTL
     DEF Spec, ImplementsQueue, Queue!Spec, Queue!queue

(* A step of the queue, among jobs each of which is in one place, forgets  *)
(* none of them, takes none on once closed and starts none that is over.   *)
LEMMA QueueKeeps ==
    ASSUME IInv, Queue!Next
    PROVE  /\ Queue!Known \subseteq Queue!Known'
           /\ ended \subseteq ended' /\ ended \cap InHand' = {}
           /\ closed => Queue!Known' = Queue!Known
<1>1. /\ jobs \in Seq(Jobs)
      /\ Queue!Known = Elements(jobs) \cup InHand \cup ended
      /\ Queue!Known' = Elements(jobs') \cup InHand' \cup ended'
      /\ (Elements(jobs) \cup InHand) \cap ended = {}
  BY QueueKnows DEF IInv, TypeOK, Once, Queue!Known, Elements
<1>2. ASSUME NEW j \in Jobs, Queue!Enqueue(j)
      PROVE  /\ Elements(jobs') = Elements(jobs) \cup {j}
             /\ InHand' = InHand /\ ended' = ended /\ ~closed
  BY <1>1, <1>2, AppendElements DEF Queue!Enqueue
<1>3. ASSUME NEW j \in Jobs, Queue!PassOn(j)
      PROVE  /\ Elements(jobs') = Elements(jobs) /\ ended' = ended /\ ~closed
             /\ InHand' = InHand \cup {j} /\ j \notin Queue!Known
  BY <1>3 DEF Queue!PassOn
<1>4. ASSUME Queue!Dequeue
      PROVE  /\ Elements(jobs) = Elements(jobs') \cup {Head(jobs)}
             /\ InHand' = InHand \cup {Head(jobs)} /\ ended' = ended
  BY <1>1, <1>4, TailElements DEF Queue!Dequeue
<1>5. ASSUME NEW j \in Jobs, Queue!Finish(j)
      PROVE  /\ Elements(jobs') = Elements(jobs) /\ j \in InHand
             /\ InHand' = InHand \ {j} /\ ended' = ended \cup {j}
  BY <1>5 DEF Queue!Finish
<1>6. ASSUME Queue!Close
      PROVE  UNCHANGED <<jobs, InHand, ended>>
  BY <1>6 DEF Queue!Close
<1> QED
  BY <1>1, <1>2, <1>3, <1>4, <1>5, <1>6 DEF Queue!Next

(* Shutdown drops nothing that Send accepted, Send takes nothing on after  *)
(* it, and no handler runs for a job again.                                *)
THEOREM ShutdownKeepsJobs == Spec => NothingForgotten
<1>1. IInv /\ [Queue!Next]_<<queueSize, jobs, InHand, ended, ~closed>> =>
        [/\ Queue!Known \subseteq Queue!Known'
         /\ ended \subseteq ended' /\ ended \cap InHand' = {}
         /\ ~(~closed) => Queue!Known' = Queue!Known
        ]_<<queueSize, jobs, InHand, ended, ~closed>>
  BY QueueKeeps
<1> QED
  BY <1>1, InitInv, NextInv, QueueStep, PTL
     DEF Spec, NothingForgotten, Queue!KeepsWhatItHas, Queue!queue
=============================================================================
