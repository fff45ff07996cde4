-------------------------------- MODULE Sync --------------------------------
(***************************************************************************)
(* Semaphores, mutexes with priority inheritance, and events of the kernel *)
(* (rt-thread/src/ipc.c) over the scheduler, with the threads that wait    *)
(* for them, their time-outs and their sleep (thread.c).                   *)
(*                                                                         *)
(* An action is one critical section; the rt_schedule() that follows it is *)
(* an action of its own (Reschedule), so that interrupts come in between.  *)
(* Only the current thread acts.  Interrupt handlers may release a         *)
(* semaphore or send an event, which reschedules at once, and the tick may *)
(* end a time slice or a wait at any time.  Calls that would wait are not  *)
(* made while the scheduler is locked.                                     *)
(***************************************************************************)
EXTENDS Scheduler

CONSTANTS
    Sem, Mutex, Event,  \* the objects
    Fifo,               \* the objects created with RT_IPC_FLAG_FIFO
    Flag,               \* the bits of an event set
    Requests,           \* what is received: [set, all, clear]
    SemStart,           \* initial value of a semaphore
    SemMax, HoldMax,    \* RT_SEM_VALUE_MAX, RT_MUTEX_HOLD_MAX
    Mixes,              \* bound: the sets of objects that are used together
    Lifo,               \* TRUE: a thread releases its mutexes in the reverse order
    None, Isr           \* RT_NULL; the caller that is an interrupt handler

Object == Sem \cup Mutex \cup Event
Waits == {"limited", "forever"}
NoPrio == 255           \* mutex->original_priority without an owner

ASSUME LimitAssumption == SemMax \in Nat \ {0} /\ HoldMax \in Nat \ {0} /\ SemStart \in 0 .. SemMax
ASSUME MixAssumption == \A x \in Mixes : x \subseteq Object
ASSUME NameAssumption ==
    /\ None \notin Thread /\ Isr \notin Thread /\ {"no", "sleep"} \cap Object = {}
    /\ Sem \cap Mutex = {} /\ (Sem \cup Mutex) \cap Event = {}

VARIABLES
    waiting,    \* suspend_thread of each object
    timed,      \* threads whose thread timer is active
    on,         \* the object a thread waits for or has waited for in its call, "sleep" or "no"
    error,      \* thread->error
    want,       \* event_set and event_info of a thread that waits for an event
    value,      \* of each semaphore
    owner, hold, original,  \* of each mutex
    set,        \* of each event
    mix,        \* the objects of this system, one of Mixes
    granted,    \* history: units of a semaphore put in and not yet received by a taker
    held,       \* history: the mutexes of a thread in the order of their acquisition
    nested,     \* history: threads that have held two mutexes at once since they last held none
    demoted     \* history: the current thread has lost its priority without rt_schedule()

sems == <<value, granted>>
mutexes == <<owner, hold, original, held>>
calls == <<waiting, timed, on, error, want>>
vars == <<sched, calls, sems, mutexes, set, mix, nested, demoted>>

Busy(t) == on[t] # "no"
NoRequest == [set |-> {}, all |-> FALSE, clear |-> FALSE]

Init ==
    /\ InitSched
    /\ waiting = [o \in Object |-> <<>>] /\ timed = {}
    /\ on = [t \in Thread |-> "no"] /\ error = [t \in Thread |-> "ok"]
    /\ want = [t \in Thread |-> NoRequest]
    /\ value = [s \in Sem |-> SemStart] /\ granted = value
    /\ owner = [m \in Mutex |-> None] /\ hold = [m \in Mutex |-> 0]
    /\ original = [m \in Mutex |-> NoPrio] /\ held = [t \in Thread |-> <<>>]
    /\ set = [e \in Event |-> {}] /\ mix \in Mixes /\ nested = {} /\ demoted = FALSE

-----------------------------------------------------------------------------
(* suspending and resuming *)

\* t calls: it runs, and is not inside a call
Calls(t) == Runs(t) /\ t # Idle /\ ~Busy(t)
\* a thread or an interrupt handler that does not wait calls
CallsOrInterrupts(c) == c = Isr \/ Calls(c)

\* rt_schedule() has been called
Settled == demoted' = (demoted /\ nest # 0)

\* mutant: an interrupt leaves the change of threads to the next call
ThenSchedule_NotIsr(c) ==
    /\ due' = IF c = Isr THEN due ELSE due \cup {c}
    /\ UNCHANGED <<current, nest, demoted>>
\* the end of a call that resumes: rt_schedule(), later for a thread, at once for an interrupt
ThenSchedule(c) ==
    IF c = Isr THEN current' = Scheduled(rq') /\ Settled /\ UNCHANGED <<nest, due>>
    ELSE due' = due \cup {c} /\ UNCHANGED <<current, nest, demoted>>

\* where rt_ipc_list_suspend puts t in the list l: before the first thread of a lower priority
Turn(l, o, t, q) ==
    IF o \in Fifo THEN {Len(l) + 1}
    ELSE {i \in 1 .. Len(l) + 1 :
            /\ i <= Len(l) => q.prio[t] < q.prio[l[i]]
            /\ \A k \in 1 .. i - 1 : q.prio[l[k]] <= q.prio[t]}

\* rt_thread_suspend, the list of o and the thread timer, in the ready queue q
Suspended(t, o, wait, q) ==
    /\ nest = 0
    /\ rq' = TakeOut(q, t)
    /\ \E i \in Turn(waiting[o], o, t, q) : waiting' = [waiting EXCEPT ![o] = InsertAt(@, i, t)]
    /\ timed' = IF wait = "limited" THEN timed \cup {t} ELSE timed \ {t}
    /\ on' = [on EXCEPT ![t] = o]
    /\ error' = [error EXCEPT ![t] = "ok"]
    /\ ThenSchedule(t)

\* mutant: the timer of a resumed thread runs on
TimerStopped_Not(ts) == timed' = timed
TimerStopped(ts) == timed' = timed \ ts

\* rt_thread_resume for the threads ts, which wait for o, in the ready queue q; others are left
Resumed(ts, left, o, q) ==
    /\ rq' = InsertAll(q, ts)
    /\ waiting' = [waiting EXCEPT ![o] = left]
    /\ TimerStopped(ToSet(ts))

\* rt_thread_resume for the first of the threads that wait for o
ResumedFirst(o, q) == Resumed(<<Head(waiting[o])>>, Tail(waiting[o]), o, q)

\* rt_ipc_list_resume_all: the threads get an error
ResumedAll(o) ==
    /\ Resumed(waiting[o], <<>>, o, rq)
    /\ error' = [t \in Thread |-> IF t \in ToSet(waiting[o]) THEN "error" ELSE error[t]]

-----------------------------------------------------------------------------
(* sleep, time-out and the return from a wait *)

Sleep(t) ==
    /\ Calls(t) /\ nest = 0
    /\ rq' = TakeOut(rq, t) /\ timed' = timed \cup {t}
    /\ on' = [on EXCEPT ![t] = "sleep"]
    /\ ThenSchedule(t)
    /\ UNCHANGED <<waiting, error, want, sems, mutexes, set>>

\* mutant: the thread stays in the list of the object
OutOfList_Not(t) == UNCHANGED waiting
OutOfList(t) == waiting' = [o \in Object |-> Unlink(waiting[o], t)]

\* rt_thread_timeout, called by the tick
Expire(t) ==
    /\ t \in timed
    /\ timed' = timed \ {t}
    /\ error' = [error EXCEPT ![t] = "timeout"]
    /\ OutOfList(t)
    /\ rq' = Insert(rq, t)
    /\ ThenSchedule(Isr)
    /\ UNCHANGED <<on, want, sems, mutexes, set>>

\* the thread runs again and its call returns; without an error it has what it waited for
Return(t) ==
    /\ Runs(t) /\ Busy(t)
    /\ granted' = IF on[t] \in Sem /\ error[t] = "ok" THEN [granted EXCEPT ![on[t]] = @ - 1]
                  ELSE granted
    /\ on' = [on EXCEPT ![t] = "no"]
    /\ error' = [error EXCEPT ![t] = "ok"] /\ want' = [want EXCEPT ![t] = NoRequest]
    /\ UNCHANGED <<sched, waiting, timed, value, mutexes, set, demoted>>

-----------------------------------------------------------------------------
(* semaphores *)

SemTake(t, s, wait) ==
    /\ Calls(t)
    /\ \/ /\ value[s] > 0
          /\ value' = [value EXCEPT ![s] = @ - 1] /\ granted' = [granted EXCEPT ![s] = @ - 1]
          /\ UNCHANGED <<sched, calls, demoted>>
       \/ /\ value[s] = 0
          /\ Suspended(t, s, wait, rq)
          /\ UNCHANGED <<want, sems>>
    /\ UNCHANGED <<mutexes, set>>

SemRelease(c, s) ==
    /\ CallsOrInterrupts(c)
    /\ granted' = [granted EXCEPT ![s] = @ + 1]
    /\ \/ /\ waiting[s] # <<>>
          /\ ResumedFirst(s, rq)
          /\ ThenSchedule(c)
          /\ UNCHANGED value
       \/ /\ waiting[s] = <<>> /\ value[s] < SemMax
          /\ value' = [value EXCEPT ![s] = @ + 1]
          /\ UNCHANGED <<sched, waiting, timed, demoted>>
    /\ UNCHANGED <<on, error, want, mutexes, set>>

\* those who have been resumed for s, and have a unit when they return
Served(s) == {t \in Thread : on[t] = s /\ error[t] = "ok" /\ ~Contains(waiting[s], t)}

\* rt_sem_control with RT_IPC_CMD_RESET
SemReset(t, s, v) ==
    /\ Calls(t)
    /\ ResumedAll(s)
    /\ value' = [value EXCEPT ![s] = v]
    /\ granted' = [granted EXCEPT ![s] = v + Cardinality(Served(s))]
    /\ ThenSchedule(t)
    /\ UNCHANGED <<on, want, mutexes, set>>

-----------------------------------------------------------------------------
(* mutexes *)

\* mutant: the owner keeps its priority
Inheriting_Not(t, m) == rq
\* the owner gets the priority of a thread that is about to wait
Inheriting(t, m) ==
    IF rq.prio[t] < rq.prio[owner[m]] THEN ChangePriority(rq, owner[m], rq.prio[t]) ELSE rq

MutexTake(t, m, wait) ==
    /\ Calls(t)
    /\ \/ /\ owner[m] = t /\ hold[m] < HoldMax
          /\ hold' = [hold EXCEPT ![m] = @ + 1]
          /\ UNCHANGED <<sched, calls, owner, original, held, demoted>>
       \/ /\ owner[m] = None
          /\ owner' = [owner EXCEPT ![m] = t] /\ hold' = [hold EXCEPT ![m] = 1]
          /\ original' = [original EXCEPT ![m] = rq.prio[t]]
          /\ held' = [held EXCEPT ![t] = Append(@, m)]
          /\ UNCHANGED <<sched, calls, demoted>>
       \/ /\ owner[m] \notin {t, None}
          /\ Suspended(t, m, wait, Inheriting(t, m))
          /\ UNCHANGED <<want, mutexes>>
    /\ UNCHANGED <<sems, set>>

\* mutant: the priority is given back only if somebody waits
Restored_IfWaiting(t, m) == IF waiting[m] # <<>> THEN ChangePriority(rq, t, original[m]) ELSE rq
\* the priority the owner had when it got the mutex
Restored(t, m) ==
    IF original[m] # rq.prio[t] THEN ChangePriority(rq, t, original[m]) ELSE rq

\* n owns m and is ready again; its own priority counts from now on
HandedOver(t, m, n, q) ==
    /\ owner' = [owner EXCEPT ![m] = n] /\ UNCHANGED hold
    /\ original' = [original EXCEPT ![m] = q.prio[n]]
    /\ held' = [held EXCEPT ![t] = Unlink(@, m), ![n] = Append(@, m)]
    /\ ResumedFirst(m, q)
    /\ ThenSchedule(t)

\* nobody waits: no rt_schedule(), although the priority may have been lowered
Freed(t, m, q) ==
    /\ owner' = [owner EXCEPT ![m] = None] /\ hold' = [hold EXCEPT ![m] = 0]
    /\ original' = [original EXCEPT ![m] = NoPrio]
    /\ held' = [held EXCEPT ![t] = Unlink(@, m)]
    /\ rq' = q /\ demoted' = (demoted \/ q.prio[t] > rq.prio[t])
    /\ UNCHANGED <<current, nest, due, waiting, timed>>

MutexRelease(t, m) ==
    /\ Calls(t) /\ owner[m] = t /\ (Lifo => Last(held[t]) = m)
    /\ \/ /\ hold[m] > 1
          /\ hold' = [hold EXCEPT ![m] = @ - 1]
          /\ UNCHANGED <<sched, waiting, timed, owner, original, held, demoted>>
       \/ hold[m] = 1 /\ waiting[m] # <<>> /\ HandedOver(t, m, Head(waiting[m]), Restored(t, m))
       \/ hold[m] = 1 /\ waiting[m] = <<>> /\ Freed(t, m, Restored(t, m))
    /\ UNCHANGED <<on, error, want, sems, set>>

-----------------------------------------------------------------------------
(* events *)

Satisfied(w, flags) == IF w.all THEN w.set \subseteq flags ELSE w.set \cap flags # {}
Left(w, flags) == IF w.clear THEN flags \ w.set ELSE flags

\* mutant: the walk ends with the first thread that is resumed
Visit_First(w, t) ==
    IF Satisfied(want[t], w.flags) /\ w.woken = <<>>
    THEN [w EXCEPT !.flags = Left(want[t], @), !.woken = Append(@, t)]
    ELSE [w EXCEPT !.left = Append(@, t)]
\* the walk has come to t
Visit(w, t) ==
    IF Satisfied(want[t], w.flags)
    THEN [w EXCEPT !.flags = Left(want[t], @), !.woken = Append(@, t)]
    ELSE [w EXCEPT !.left = Append(@, t)]

\* the walk of rt_event_send along the list: the flags that are left, the threads to resume and
\* the others
Walk(e, flags) ==
    LET f[i \in 0 .. Len(waiting[e])] ==
            IF i = 0 THEN [flags |-> flags, woken |-> <<>>, left |-> <<>>]
            ELSE Visit(f[i - 1], waiting[e][i])
    IN  f[Len(waiting[e])]

EventSend(c, e, flags) ==
    LET walk == Walk(e, set[e] \cup flags) IN
    /\ CallsOrInterrupts(c)
    /\ set' = [set EXCEPT ![e] = walk.flags]
    /\ Resumed(walk.woken, walk.left, e, rq)
    /\ IF walk.woken # <<>> THEN ThenSchedule(c) ELSE UNCHANGED <<current, nest, due, demoted>>
    /\ UNCHANGED <<on, error, want, sems, mutexes>>

EventRecv(t, e, w, wait) ==
    /\ Calls(t)
    /\ \/ /\ Satisfied(w, set[e])
          /\ set' = [set EXCEPT ![e] = Left(w, @)]
          /\ UNCHANGED <<sched, calls, demoted>>
       \/ /\ ~Satisfied(w, set[e])
          /\ Suspended(t, e, wait, rq)
          /\ want' = [want EXCEPT ![t] = w]
          /\ UNCHANGED set
    /\ UNCHANGED <<sems, mutexes>>

\* rt_event_control with RT_IPC_CMD_RESET
EventReset(t, e) ==
    /\ Calls(t)
    /\ ResumedAll(e)
    /\ set' = [set EXCEPT ![e] = {}]
    /\ ThenSchedule(t)
    /\ UNCHANGED <<on, want, sems, mutexes>>

-----------------------------------------------------------------------------
Unsynced == UNCHANGED <<calls, sems, mutexes, set>>

Step ==
    \/ \E t \in Thread :
        \/ Reschedule(t) /\ Settled /\ Unsynced
        \/ EnterCritical(t) /\ UNCHANGED demoted /\ Unsynced
        \/ ExitCritical(t) /\ UNCHANGED demoted /\ Unsynced
        \/ Sleep(t) \/ Expire(t) \/ Return(t)
        \/ \E s \in Sem \cap mix : \/ \E wait \in Waits : SemTake(t, s, wait)
                          \/ \E v \in 0 .. SemMax : SemReset(t, s, v)
        \/ \E m \in Mutex \cap mix : MutexRelease(t, m) \/ \E wait \in Waits : MutexTake(t, m, wait)
        \/ \E e \in Event \cap mix : \/ \E w \in Requests, wait \in Waits : EventRecv(t, e, w, wait)
                            \/ EventReset(t, e)
    \/ Yield /\ Settled /\ Unsynced
    \/ \E c \in Thread \cup {Isr} :
        \/ \E s \in Sem \cap mix : SemRelease(c, s)
        \/ \E e \in Event \cap mix, flags \in SUBSET Flag \ {{}} : EventSend(c, e, flags)

Nested == {t \in Thread : held'[t] # <<>> /\ (Len(held'[t]) > 1 \/ t \in nested)}

Next == Step /\ UNCHANGED mix /\ nested' = Nested

Spec == Init /\ [][Next]_vars
-----------------------------------------------------------------------------
(* properties *)

TypeOK ==
    /\ rq.list \in [Prio -> Seq(Thread)] /\ rq.prio \in [Thread -> Prio]
    /\ current \in Thread /\ nest \in 0 .. MaxNest /\ due \subseteq Thread
    /\ waiting \in [Object -> Seq(Thread)] /\ timed \subseteq Thread
    /\ on \in [Thread -> Object \cup {"no", "sleep"}]
    /\ error \in [Thread -> {"ok", "timeout", "error"}]
    /\ want \in [Thread -> Requests \cup {NoRequest}]
    /\ value \in [Sem -> 0 .. SemMax] /\ set \in [Event -> SUBSET Flag]
    /\ owner \in [Mutex -> Thread \cup {None}] /\ hold \in [Mutex -> 0 .. HoldMax]
    /\ original \in [Mutex -> Prio \cup {NoPrio}] /\ held \in [Thread -> Seq(Mutex)]

Places(l, t) == Cardinality({i \in DOMAIN l : l[i] = t})

\* No thread is lost or in two lists: tlist is one link.  A ready thread is once in the list of
\* its priority, a waiting thread once in that of its object; one that is in no list sleeps
\* and its timer runs.  The bitmap names the lists that are not empty.
OnePlace ==
    /\ \A t \in Thread :
        \/ /\ Places(rq.list[rq.prio[t]], t) = 1 /\ t \notin timed
           /\ \A p \in Prio \ {rq.prio[t]} : Places(rq.list[p], t) = 0
           /\ \A o \in Object : Places(waiting[o], t) = 0
        \/ /\ ~IsReady(rq, t)
           /\ IF on[t] = "sleep" THEN t \in timed ELSE on[t] \in Object /\ Places(waiting[on[t]], t) = 1
           /\ \A o \in Object \ {on[t]} : Places(waiting[o], t) = 0
    /\ rq.group = {p \in Prio : rq.list[p] # <<>>}

\* Whenever the scheduler is not locked and the current thread is not on its way into
\* rt_schedule(), the current thread is the first one of the highest priority that is ready,
\* whatever inheritance, time-outs and interrupts have done to the lists (scheduler.c:169).
\* Exempt is the thread that has lost an inherited priority in rt_mutex_release with nobody
\* left waiting, which does not reschedule (ipc.c:905).
HighestRuns == nest = 0 /\ current \notin due /\ ~demoted => current = Top(rq)

\* No unit of a semaphore is lost or given twice when a release, a time-out and a reset race
\* for a waiting thread (ipc.c:451): what was put in and not received is in the value or with
\* a thread that has been resumed and has not returned yet.  Nobody waits at a positive value.
SemUnits ==
    \A s \in Sem : /\ granted[s] = value[s] + Cardinality(Served(s))
                   /\ value[s] > 0 => waiting[s] = <<>>

\* A thread never waits for flags that are set: rt_event_send misses none in its walk although
\* threads it resumes may clear flags for those behind them (ipc.c:1085).
NoneMissed == \A e \in Event : \A t \in ToSet(waiting[e]) : ~Satisfied(want[t], set[e])

\* A thread that owns no mutex has the priority it was created with: what it inherited for the
\* sake of others is gone, also when they timed out meanwhile (ipc.c:852).  It needs Lifo.
PriorityRestored == \A t \in Thread : held[t] = <<>> => rq.prio[t] = InitPrio[t]

\* Priority inheritance works where mutexes are not nested: the owner of a mutex runs at least
\* as high as every waiter of it that owns none itself, before and after the mutex is handed
\* on (ipc.c:733, ipc.c:876).  With two mutexes at once it does not: the release of the inner
\* one takes the priority away that a waiter of the outer one has given (ipc.c:852).
Inherits ==
    \A m \in Mutex \ Fifo : \A w \in ToSet(waiting[m]) :
        /\ owner[m] # None
        /\ owner[m] \notin nested /\ held[w] = <<>> => rq.prio[owner[m]] <= rq.prio[w]
=============================================================================
