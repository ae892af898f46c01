----------------------------- MODULE WorkerPool -----------------------------
(***************************************************************************)
(* internal/worker/worker.go: a pool of goroutines that range over one     *)
(* channel of jobs, the callers of Send and the one call of Shutdown.      *)
(*                                                                         *)
(* The channel follows the Go runtime: a send hands its job to a receiver  *)
(* that is parked on the channel, if there is one, and uses the buffer     *)
(* otherwise; close wakes the parked receivers, and a closed channel is    *)
(* emptied before range ends.                                              *)
(***************************************************************************)
EXTENDS Naturals, Sequences, FiniteSets

CONSTANTS
    Workers,
    Jobs,        \* each is sent once, or again after Send returned false
    QueueSizes,  \* the capacities NewPool may be given
    Nil

ASSUME PoolAssumption ==
    /\ Workers # {}
    /\ QueueSizes \subseteq Nat
    /\ Nil \notin Jobs

VARIABLES
    queueSize,  \* cap(p.jobs)
    jobs,       \* the buffer of p.jobs
    closed,     \* p.jobs is closed
    returned,   \* Shutdown has returned
    worker,     \* the goroutines of run
    sent,       \* what Send last said of each job
    ended,      \* the jobs whose handler has returned or panicked
    accepted,   \* history: the jobs in the order of the sends
    taken       \* history: the jobs in the order workers received them

vars == <<queueSize, jobs, closed, returned, worker, sent, ended, accepted,
          taken>>

Looping == [pc |-> "looping", job |-> Nil]  \* about to receive

Parked == [pc |-> "parked", job |-> Nil]    \* waiting in the receive

Handling(j) == [pc |-> "handling", job |-> j]

Signalling == [pc |-> "signalling", job |-> Nil]  \* at p.done <- struct{}{}

TypeOK ==
    /\ queueSize \in QueueSizes
    /\ jobs \in Seq(Jobs)
    /\ Len(jobs) <= queueSize
    /\ closed \in BOOLEAN
    /\ returned \in BOOLEAN
    /\ worker \in [Workers -> {Looping, Parked, Signalling}
                                  \cup {Handling(j) : j \in Jobs}]
    /\ sent \in [Jobs -> {"unsent", "true", "false", "panic"}]
    /\ ended \subseteq Jobs
    /\ accepted \in Seq(Jobs)
    /\ taken \in Seq(Jobs)

(* NewPool *)
Init ==
    /\ queueSize \in QueueSizes
    /\ jobs = <<>>
    /\ closed = FALSE
    /\ returned = FALSE
    /\ worker = [w \in Workers |-> Looping]
    /\ sent = [j \in Jobs |-> "unsent"]
    /\ ended = {}
    /\ accepted = <<>>
    /\ taken = <<>>

Becomes(w, state) == worker' = [worker EXCEPT ![w] = state]

SomeParked == \E w \in Workers : worker[w] = Parked

-----------------------------------------------------------------------------
(* Send *)

RoomForOneMore == Len(jobs) <= queueSize  \* mutant: off by one

Room == Len(jobs) < queueSize

Result(j, s) ==
    /\ sent[j] \in {"unsent", "false"}
    /\ sent' = [sent EXCEPT ![j] = s]

SendToWorker(j) ==
    /\ ~closed
    /\ Result(j, "true")
    /\ \E w \in Workers : worker[w] = Parked /\ Becomes(w, Handling(j))
    /\ accepted' = Append(accepted, j)
    /\ taken' = Append(taken, j)
    /\ UNCHANGED <<queueSize, jobs, closed, returned, ended>>

SendToQueue(j) ==
    /\ ~closed
    /\ ~SomeParked
    /\ Room
    /\ Result(j, "true")
    /\ jobs' = Append(jobs, j)
    /\ accepted' = Append(accepted, j)
    /\ UNCHANGED <<queueSize, closed, returned, worker, ended, taken>>

(* mutant: the default branch reports success *)
SendDropped(j) ==
    /\ ~closed
    /\ ~SomeParked
    /\ ~Room
    /\ Result(j, "true")
    /\ UNCHANGED <<queueSize, jobs, closed, returned, worker, ended, accepted,
                   taken>>

(* The default branch of the select. *)
SendRefused(j) ==
    /\ ~closed
    /\ ~SomeParked
    /\ ~Room
    /\ Result(j, "false")
    /\ UNCHANGED <<queueSize, jobs, closed, returned, worker, ended, accepted,
                   taken>>

(* A send on a closed channel panics in the caller, default or not. *)
SendPanics(j) ==
    /\ closed
    /\ Result(j, "panic")
    /\ UNCHANGED <<queueSize, jobs, closed, returned, worker, ended, accepted,
                   taken>>

Send(j) == SendToWorker(j) \/ SendToQueue(j) \/ SendRefused(j) \/ SendPanics(j)

-----------------------------------------------------------------------------
(* run *)

TakeNewest(w) ==  \* mutant: a stack
    /\ worker[w] = Looping
    /\ jobs # <<>>
    /\ Becomes(w, Handling(jobs[Len(jobs)]))
    /\ jobs' = SubSeq(jobs, 1, Len(jobs) - 1)
    /\ taken' = Append(taken, jobs[Len(jobs)])
    /\ UNCHANGED <<queueSize, closed, returned, sent, ended, accepted>>

Take(w) ==
    /\ worker[w] = Looping
    /\ jobs # <<>>
    /\ Becomes(w, Handling(Head(jobs)))
    /\ jobs' = Tail(jobs)
    /\ taken' = Append(taken, Head(jobs))
    /\ UNCHANGED <<queueSize, closed, returned, sent, ended, accepted>>

Park(w) ==
    /\ worker[w] = Looping
    /\ jobs = <<>>
    /\ ~closed
    /\ Becomes(w, Parked)
    /\ UNCHANGED <<queueSize, jobs, closed, returned, sent, ended, accepted,
                   taken>>

(* The handler returns, or panics into the recover: either way the loop     *)
(* goes on.                                                                 *)
Handle(w) ==
    \E j \in Jobs :
        /\ worker[w] = Handling(j)
        /\ ended' = ended \cup {j}
        /\ Becomes(w, Looping)
        /\ UNCHANGED <<queueSize, jobs, closed, returned, sent, accepted, taken>>

EndEarly(w) ==  \* mutant: leaves when the channel is closed, drained or not
    /\ worker[w] = Looping
    /\ closed
    /\ Becomes(w, Signalling)
    /\ UNCHANGED <<queueSize, jobs, closed, returned, sent, ended, accepted,
                   taken>>

(* range ends; the send on p.done then blocks until somebody receives. *)
End(w) ==
    /\ worker[w] = Looping
    /\ jobs = <<>>
    /\ closed
    /\ Becomes(w, Signalling)
    /\ UNCHANGED <<queueSize, jobs, closed, returned, sent, ended, accepted,
                   taken>>

Run(w) == Take(w) \/ Park(w) \/ Handle(w) \/ End(w)

-----------------------------------------------------------------------------
(* Shutdown closes p.jobs, which wakes the parked workers, and waits for    *)
(* cap(p.done) signals or ctx: p.done is unbuffered, so for none.  A second *)
(* call panics in close and changes nothing here.                           *)
Shutdown ==
    /\ ~closed
    /\ closed' = TRUE
    /\ worker' = [w \in Workers |-> IF worker[w] = Parked THEN Looping
                                                          ELSE worker[w]]
    /\ returned' = TRUE
    /\ UNCHANGED <<queueSize, jobs, sent, ended, accepted, taken>>

Next ==
    \/ \E j \in Jobs : Send(j)
    \/ \E w \in Workers : Run(w)
    \/ Shutdown

(* The Go scheduler runs every goroutine that can run, and a handler is     *)
(* assumed to return; nobody has to send or to shut down.                   *)
Fairness == \A w \in Workers : WF_vars(Run(w))

Spec == Init /\ [][Next]_vars /\ Fairness

-----------------------------------------------------------------------------
(* Properties *)

InHand == {worker[w].job : w \in Workers} \ {Nil}

Queued == {jobs[i] : i \in DOMAIN jobs}

(* Every job that Send reported as sent is in exactly one place, the queue, *)
(* one worker's hands or done with, and no other job is anywhere.           *)
EachJobOnce ==
    /\ \A i, k \in DOMAIN jobs : jobs[i] = jobs[k] => i = k
    /\ \A v, w \in Workers : worker[v].job = worker[w].job
                                => v = w \/ worker[v].job = Nil
    /\ Queued \cap InHand = {} /\ (Queued \cup InHand) \cap ended = {}
    /\ {j \in Jobs : sent[j] = "true"} = Queued \cup InHand \cup ended

(* Jobs reach the workers in the order they were sent, whether through the  *)
(* queue or from hand to hand: what was taken and what waits is what was    *)
(* accepted.                                                                *)
TakenInOrder == accepted = taken \o jobs

(* Whatever the channel, the workers and the senders do, the pool is the    *)
(* bounded queue of JobQueue: first in first out, each job once, nothing    *)
(* taken on after Shutdown and nothing dropped by it.                       *)
Queue == INSTANCE JobQueue
             WITH size <- queueSize, waiting <- jobs, held <- InHand,
                  done <- ended, open <- ~closed

ImplementsQueue == Queue!Spec

(* Shutdown drops nothing that Send accepted, Send takes nothing on after   *)
(* it, and no job is worked on again once its handler is over.              *)
NothingForgotten == Queue!KeepsWhatItHas

(* A job that was sent is handled, though handlers panic and the pool may   *)
(* be shut down meanwhile.                                                  *)
AcceptedHandled == \A j \in Jobs : sent[j] = "true" ~> j \in ended

(* worker.go:55: Shutdown "waits for all workers to complete" (nothing      *)
(* cancels its context here): no job is left when it returns.               *)
ShutdownWaits == returned => Queued \cup InHand = {}
=============================================================================
