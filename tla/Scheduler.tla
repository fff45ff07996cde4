----------------------------- MODULE Scheduler -----------------------------
(***************************************************************************)
(* The scheduler of the kernel (rt-thread/src/scheduler.c) with the parts  *)
(* of thread.c that move a thread into and out of its ready lists.         *)
(*                                                                         *)
(* A ready queue is a record: one list per priority, the bitmap of the     *)
(* priorities whose list is not empty, and the priorities of the threads.  *)
(* The functions of the kernel that change it are operators from queue to  *)
(* queue, since callers chain several of them in one critical section.     *)
(* The running thread stays in its ready list.  Priority 0 is the highest. *)
(***************************************************************************)
EXTENDS Naturals, Sequences, FiniteSets, SequencesExt

CONSTANTS
    Thread,     \* the threads, with the idle thread
    Idle,       \* the idle thread, which never waits
    Lowest,     \* the lowest priority, RT_THREAD_PRIORITY_MAX - 1
    InitPrio,   \* the priority each thread is created with
    MaxNest     \* bound: the depth of rt_enter_critical

Prio == 0 .. Lowest

ASSUME IdleAssumption == Idle \in Thread /\ IsFiniteSet(Thread)
ASSUME PrioAssumption ==
    /\ Lowest \in Nat /\ InitPrio \in [Thread -> Prio]
    /\ \A t \in Thread \ {Idle} : InitPrio[t] < InitPrio[Idle]
ASSUME NestAssumption == MaxNest \in Nat

VARIABLES
    rq,         \* the ready queue
    current,    \* rt_current_thread
    nest,       \* rt_scheduler_lock_nest
    due         \* threads that have still to call rt_schedule() after a critical section

sched == <<rq, current, nest, due>>

-----------------------------------------------------------------------------
(* the ready queue *)

IsReady(q, t) == \E p \in Prio : Contains(q.list[p], t)

\* rt_schedule_insert_thread
Insert(q, t) ==
    [q EXCEPT !.list[q.prio[t]] = Append(@, t), !.group = @ \cup {q.prio[t]}]

\* after rt_insert_thread of one thread after the other
InsertAll(q, ts) ==
    LET f[i \in 0 .. Len(ts)] == IF i = 0 THEN q ELSE Insert(f[i - 1], ts[i])
    IN  f[Len(ts)]

\* rt_list_remove: from the link of x on, the list moves up
Unlink(l, x) ==
    IF Contains(l, x)
    THEN [i \in 1 .. Len(l) - 1 |-> IF \E k \in 1 .. i : l[k] = x THEN l[i + 1] ELSE l[i]]
    ELSE l

Unlinked(lists, t) == [p \in Prio |-> Unlink(lists[p], t)]

\* rt_schedule_remove_thread: the bit is that of the priority the thread has now
TakeOut(q, t) ==
    LET rest == Unlinked(q.list, t)
    IN  [q EXCEPT !.list = rest,
                  !.group = IF rest[q.prio[t]] = <<>> THEN @ \ {q.prio[t]} ELSE @]

\* RT_THREAD_CTRL_CHANGE_PRIORITY: a ready thread changes its list, to the end of the new one
ChangePriority(q, t, p) ==
    IF IsReady(q, t) THEN Insert([TakeOut(q, t) EXCEPT !.prio[t] = p], t)
    ELSE [q EXCEPT !.prio[t] = p]

\* the thread that the bitmap and the lists say is to run
Top(q) == Head(q.list[CHOOSE p \in q.group : \A o \in q.group : p <= o])

\* rt_schedule: nothing while the scheduler is locked
Scheduled(q) == IF nest = 0 THEN Top(q) ELSE current

-----------------------------------------------------------------------------
InitSched ==
    /\ rq = [list |-> [p \in Prio |-> SetToSeq({t \in Thread : InitPrio[t] = p})],
             group |-> {InitPrio[t] : t \in Thread}, prio |-> InitPrio]
    /\ current = Top(rq) /\ nest = 0 /\ due = {}

\* t runs and is not on its way into rt_schedule()
Runs(t) == t = current /\ t \notin due

\* the current thread reaches the rt_schedule() that follows its critical section
Reschedule(t) ==
    /\ t = current /\ t \in due
    /\ current' = Scheduled(rq)
    /\ due' = due \ {t}
    /\ UNCHANGED <<rq, nest>>

\* the time slice of the current thread ends in the tick interrupt: rt_thread_yield.  A
\* thread that has suspended itself, or is alone in its list, stays.
Yield ==
    LET p == rq.prio[current]
    IN  /\ Contains(rq.list[p], current) /\ Len(rq.list[p]) > 1
        /\ rq' = [rq EXCEPT !.list[p] = Append(Unlink(@, current), current)]
        /\ current' = Scheduled(rq')
        /\ UNCHANGED <<nest, due>>

EnterCritical(t) ==
    /\ Runs(t) /\ nest < MaxNest
    /\ nest' = nest + 1
    /\ UNCHANGED <<rq, current, due>>

\* rt_schedule() comes in a critical section of its own
ExitCritical(t) ==
    /\ Runs(t) /\ nest > 0
    /\ nest' = nest - 1
    /\ due' = IF nest = 1 THEN due \cup {t} ELSE due
    /\ UNCHANGED <<rq, current>>
=============================================================================
