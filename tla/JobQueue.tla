------------------------------ MODULE JobQueue ------------------------------
(***************************************************************************)
(* What the worker pool promises those who send it jobs, without workers,  *)
(* channels or goroutines: a bounded queue, first in first out, that takes *)
(* a job on at most once, may pass it straight on only while nothing       *)
(* waits, and finishes what it has when it is closed.  WorkerPool          *)
(* implements this specification.                                          *)
(***************************************************************************)
EXTENDS Naturals, Sequences

CONSTANTS Jobs, QueueSizes

VARIABLES
    size,     \* how many jobs may wait
    waiting,  \* the jobs that wait, oldest first
    held,     \* the jobs that are being worked on
    done,     \* the jobs that are over
    open      \* jobs are still taken on

queue == <<size, waiting, held, done, open>>

Init ==
    /\ size \in QueueSizes
    /\ waiting = <<>>
    /\ held = {}
    /\ done = {}
    /\ open = TRUE

Known == {waiting[i] : i \in DOMAIN waiting} \cup held \cup done

Enqueue(j) ==
    /\ open
    /\ j \notin Known
    /\ Len(waiting) < size
    /\ waiting' = Append(waiting, j)
    /\ UNCHANGED <<size, held, done, open>>

PassOn(j) ==
    /\ open
    /\ j \notin Known
    /\ waiting = <<>>
    /\ held' = held \cup {j}
    /\ UNCHANGED <<size, waiting, done, open>>

Dequeue ==
    /\ waiting # <<>>
    /\ held' = held \cup {Head(waiting)}
    /\ waiting' = Tail(waiting)
    /\ UNCHANGED <<size, done, open>>

Finish(j) ==
    /\ j \in held
    /\ held' = held \ {j}
    /\ done' = done \cup {j}
    /\ UNCHANGED <<size, waiting, open>>

Close ==
    /\ open
    /\ open' = FALSE
    /\ UNCHANGED <<size, waiting, held, done>>

Next == (\E j \in Jobs : Enqueue(j) \/ PassOn(j) \/ Finish(j)) \/ Dequeue \/ Close

Spec == Init /\ [][Next]_queue

-----------------------------------------------------------------------------
(* A closed queue takes nothing on, and what it knows it never forgets and  *)
(* never works on again once it is over: what a caller may rely on after    *)
(* Shutdown.                                                                *)
KeepsWhatItHas ==
    [][/\ Known \subseteq Known'
       /\ done \subseteq done' /\ done \cap held' = {}
       /\ ~open => Known' = Known]_queue
=============================================================================
