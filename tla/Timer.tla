------------------------------- MODULE Timer -------------------------------
(***************************************************************************)
(* The timers of the kernel (rt-thread/src/timer.c) and its wrapping tick  *)
(* (clock.c): hard timers, whose functions run in the tick interrupt, and  *)
(* soft timers, whose functions run in the timer thread, which is above    *)
(* all threads of the firmware (RT_TIMER_THREAD_PRIO 4) and sleeps with a  *)
(* hard timer of its own.  RT_TIMER_SKIP_LIST_LEVEL is 1.                  *)
(*                                                                         *)
(* q holds what the functions of timer.c change in their critical sections, *)
(* so that a timeout function and the restart of its timer can be chained. *)
(* The tick interrupt keeps interrupts disabled in rt_timer_check; nothing *)
(* else runs until it is done (isr).                                       *)
(***************************************************************************)
EXTENDS Integers, Sequences, FiniteSets, SequencesExt

CONSTANTS
    AppTimer,       \* timers of the application
    Soft,           \* those with RT_TIMER_FLAG_SOFT_TIMER
    Periodic,       \* those with RT_TIMER_FLAG_PERIODIC
    ThreadTimer,    \* the timer of the timer thread, a hard one-shot timer
    W,              \* the tick counts modulo W, 2^32 in the code
    Durations,      \* bound: the times of the application's timers
    MaxLag,         \* bound: no timer function is delayed as many ticks
    MaxSlip,        \* bound: ticks between the timer thread's look at the tick and its sleep
    None            \* no timer

Timers == AppTimer \cup {ThreadTimer}
TickMax == W - 1            \* RT_TICK_MAX
Half == TickMax \div 2

\* the assertion of rt_timer_start, and no time of 0, with which a periodic timer would keep
\* the processor in rt_timer_check for ever
ASSUME TimeAssumption ==
    /\ W \in Nat /\ MaxLag \in 1 .. Half - 1 /\ MaxSlip \in Nat
    /\ \A d \in Durations : d \in Nat \ {0} /\ d + 2 * MaxLag <= Half
ASSUME TimerAssumption ==
    ThreadTimer \notin AppTimer /\ None \notin Timers /\ Soft \subseteq AppTimer /\ Periodic \subseteq AppTimer

VARIABLES
    tick,       \* rt_tick
    q,          \* the lists; the active timers; of each timer init_tick and deadline; history: age
    isr,        \* rt_timer_check is going on
    tpc,        \* where the timer thread is
    next,       \* next_timeout of the timer thread, and then the time it is going to sleep
    asleep,     \* the timer thread is suspended
    inhand,     \* the timer on the temporary list of rt_soft_timer_check
    apc,        \* where the application is inside rt_timer_start of a soft timer
    slip,       \* history: ticks since the timer thread has looked at the tick
    misled      \* history: the timer thread goes to sleep on a value that does not hold

thread == <<tpc, next, asleep, inhand, slip, misled>>
vars == <<tick, q, isr, thread, apc>>

\* what a caller does to a timer: RT_TIMER_CTRL_SET_TIME and start, stop, or nothing
Nothing == [op |-> "none", timer |-> None, time |-> 0]
Touch == [op : {"start"}, timer : AppTimer, time : Durations] \cup
         [op : {"stop"}, timer : AppTimer, time : {0}]

-----------------------------------------------------------------------------
(* time and the lists *)

Dist(a, b) == (a - b + W) % W
\* mutant: deadlines are compared as numbers
Reached_Plain(t) == q.deadline[t] <= tick
Reached(t) == Dist(tick, q.deadline[t]) < Half

ListOf(t) == IF t \in Soft THEN "soft" ELSE "hard"

\* mutant: the deadlines are compared as numbers
Later_Plain(a, b) == a > b
\* a timer that ends at a stays behind one that ends at b
Later(a, b) == a # b /\ Dist(a, b) < Half

\* where the walk of rt_timer_start ends: before the first timer of l that ends later than d
Place(l, deadline, d) ==
    CHOOSE i \in 1 .. Len(l) + 1 :
        /\ i <= Len(l) => Later(deadline[l[i]], d)
        /\ \A k \in 1 .. i - 1 : ~Later(deadline[l[k]], d)

\* rt_list_remove: from the link of x on, the list moves up
Unlink(l, x) ==
    IF Contains(l, x)
    THEN [i \in 1 .. Len(l) - 1 |-> IF \E k \in 1 .. i : l[k] = x THEN l[i + 1] ELSE l[i]]
    ELSE l

Unlinked(r, t) == [r EXCEPT !.list[ListOf(t)] = Unlink(@, t)]

\* rt_timer_stop, rt_timer_detach
Stopped(r, t) ==
    [Unlinked(r, t) EXCEPT !.active = @ \ {t}, !.init[t] = 0, !.deadline[t] = 0, !.age[t] = 0]

Deadline(r, t, d) == (tick + d) % W

\* rt_timer_start
Started(r, t, d) ==
    LET out == Unlinked(r, t)
        end == Deadline(r, t, d)
    IN  [out EXCEPT !.list[ListOf(t)] = InsertAt(@, Place(@, r.deadline, end), t),
                    !.deadline[t] = end, !.active = @ \cup {t}, !.init[t] = d, !.age[t] = 0]

\* t is taken for its timeout function, and is active only if it is periodic
Taken(r, t) == IF t \in Periodic THEN [Unlinked(r, t) EXCEPT !.age[t] = 0] ELSE Stopped(r, t)

\* rt_timer_stop fails for a timer that is not active and leaves it where it is
Effective(r, o) == o.op = "start" \/ (o.op = "stop" /\ o.timer \in r.active)
Touched(r, o) ==
    CASE o.op = "none" -> r
      [] o.op = "start" -> Started(r, o.timer, o.time)
      [] o.op = "stop" -> IF Effective(r, o) THEN Stopped(r, o.timer) ELSE r

\* after the timeout function: kept says that t is still on the temporary list
Restarted(r, t, kept) ==
    IF kept /\ t \in Periodic \cap r.active THEN Started(r, t, r.init[t]) ELSE r

-----------------------------------------------------------------------------
Init ==
    /\ tick \in 0 .. TickMax /\ isr = FALSE
    /\ q = [list |-> [k \in {"hard", "soft"} |-> <<>>], deadline |-> [t \in Timers |-> 0],
            active |-> {}, init |-> [t \in Timers |-> 0], age |-> [t \in Timers |-> 0]]
    /\ tpc = "next" /\ next = 0 /\ asleep = FALSE /\ inhand = None
    /\ apc = "idle" /\ slip = 0 /\ misled = FALSE

\* soft_timer_status = RT_SOFT_TIMER_BUSY
Busy == tpc = "call"

\* mutant: soft_timer_status is not looked at
ThreadWaits_Busy == asleep
\* mutant: the timer thread is resumed only if it sleeps without a time
ThreadWaits_ForEver == ~Busy /\ asleep /\ ThreadTimer \notin q.active
\* the condition at the end of rt_timer_start under which the timer thread is resumed
ThreadWaits == ~Busy /\ asleep

\* rt_thread_resume of the timer thread, which stops its timer
Woken(r) == asleep' = FALSE /\ q' = Stopped(r, ThreadTimer)

-----------------------------------------------------------------------------
(* the tick interrupt *)

\* rt_tick_increase
Tick ==
    /\ ~isr /\ isr' = TRUE
    /\ \A t \in q.active : q.age[t] < q.init[t] + MaxLag
    /\ tpc = "delay" => slip < MaxSlip
    /\ tick' = (tick + 1) % W
    /\ q' = [q EXCEPT !.age = [t \in Timers |-> IF t \in q.active THEN @[t] + 1 ELSE 0]]
    /\ slip' = IF tpc = "delay" THEN slip + 1 ELSE slip
    /\ UNCHANGED <<tpc, next, asleep, inhand, misled, apc>>

Due(k) == q.list[k] # <<>> /\ Reached(Head(q.list[k]))

\* rt_thread_timeout of the timer thread
TimeOut ==
    /\ isr /\ Due("hard") /\ Head(q.list["hard"]) = ThreadTimer
    /\ q' = Taken(q, ThreadTimer) /\ asleep' = FALSE
    /\ UNCHANGED <<tick, isr, tpc, next, inhand, slip, misled, apc>>

\* a timeout function of the application, which starts or stops a timer.  A soft timer that is
\* started while the timer thread is between its look at the list and its sleep is missed.
FireHard(o) ==
    LET t == Head(q.list["hard"])
        r == Touched(Taken(q, t), o)
        kept == ~(o.timer = t /\ Effective(Taken(q, t), o))
    IN  /\ isr /\ Due("hard") /\ t # ThreadTimer
        /\ IF o.op = "start" /\ o.timer \in Soft /\ ThreadWaits THEN Woken(Restarted(r, t, kept))
           ELSE q' = Restarted(r, t, kept) /\ UNCHANGED asleep
        /\ misled' = (misled \/ (o.op = "start" /\ o.timer \in Soft /\ tpc \in {"look", "delay"}))
        /\ inhand' = IF o.timer = inhand /\ Effective(Taken(q, t), o) THEN None ELSE inhand
        /\ UNCHANGED <<tick, isr, tpc, next, slip, apc>>

CheckDone ==
    /\ isr /\ ~Due("hard")
    /\ isr' = FALSE
    /\ UNCHANGED <<tick, q, thread, apc>>

-----------------------------------------------------------------------------
(* the timer thread *)

Threading(pc) == ~isr /\ ~asleep /\ tpc = pc

\* rt_timer_list_next_timeout
ReadNext ==
    /\ Threading("next") /\ tpc' = "look"
    /\ next' = IF q.list["soft"] = <<>> THEN TickMax ELSE q.deadline[Head(q.list["soft"])]
    /\ misled' = (q.list["soft"] # <<>> /\ next' = TickMax)
    /\ UNCHANGED <<tick, q, isr, asleep, inhand, slip, apc>>

Look ==
    /\ Threading("look")
    /\ \/ /\ next = TickMax     \* suspends itself
          /\ tpc' = "check" /\ asleep' = TRUE
          /\ next' = 0
       \/ /\ next # TickMax
          /\ IF Dist(next, tick) < Half THEN tpc' = "delay" /\ next' = Dist(next, tick)
             ELSE tpc' = "check" /\ next' = 0
          /\ UNCHANGED asleep
    /\ slip' = 0
    /\ UNCHANGED <<tick, q, isr, inhand, misled, apc>>

\* rt_thread_delay
Sleeps(d) == asleep' = TRUE /\ q' = Started(q, ThreadTimer, d)

Delay ==
    /\ Threading("delay") /\ tpc' = "check" /\ next' = 0
    /\ Sleeps(next)
    /\ UNCHANGED <<tick, isr, inhand, slip, misled, apc>>

\* rt_soft_timer_check: one timer, or the end
Check ==
    /\ Threading("check")
    /\ IF Due("soft")
       THEN /\ tpc' = "call" /\ inhand' = Head(q.list["soft"])
            /\ q' = Taken(q, inhand')
       ELSE tpc' = "next" /\ UNCHANGED <<inhand, q>>
    /\ UNCHANGED <<tick, isr, next, asleep, slip, misled, apc>>

\* the timeout function starts or stops a timer, or sleeps
CallTouch(o) ==
    /\ Threading("call")
    /\ q' = Touched(q, o)
    /\ inhand' = IF o.timer = inhand /\ Effective(q, o) THEN None ELSE inhand
    /\ UNCHANGED <<tick, isr, tpc, next, asleep, slip, misled, apc>>

CallSleep(d) ==
    /\ Threading("call")
    /\ Sleeps(d)
    /\ UNCHANGED <<tick, isr, tpc, next, inhand, slip, misled, apc>>

CallEnd ==
    /\ Threading("call") /\ tpc' = "check" /\ inhand' = None
    /\ q' = Restarted(q, inhand, inhand # None)
    /\ UNCHANGED <<tick, isr, next, asleep, slip, misled, apc>>

-----------------------------------------------------------------------------
(* a thread of the application: it runs only while the timer thread sleeps *)

Running == ~isr /\ asleep

AppTouch(o) ==
    /\ Running /\ apc = "idle"
    /\ q' = Touched(q, o)
    /\ inhand' = IF o.timer = inhand /\ Effective(q, o) THEN None ELSE inhand
    /\ apc' = IF o.op = "start" /\ o.timer \in Soft THEN "look" ELSE "idle"
    /\ UNCHANGED <<tick, isr, tpc, next, asleep, slip, misled>>

\* rt_timer_start looks at the timer thread after its critical section
AppLook ==
    /\ Running /\ apc = "look"
    /\ apc' = IF ThreadWaits THEN "resume" ELSE "idle"
    /\ UNCHANGED <<tick, q, isr, thread>>

\* and resumes it in another one, whatever it does by now
AppResume ==
    /\ Running /\ apc = "resume" /\ apc' = "idle"
    /\ Woken(q)
    /\ UNCHANGED <<tick, isr, tpc, next, inhand, slip, misled>>

-----------------------------------------------------------------------------
Next ==
    \/ Tick \/ TimeOut \/ CheckDone \/ \E o \in Touch \cup {Nothing} : FireHard(o)
    \/ ReadNext \/ Look \/ Delay \/ Check \/ CallEnd
    \/ \E o \in Touch : CallTouch(o) \/ AppTouch(o)
    \/ \E d \in Durations : CallSleep(d)
    \/ AppLook \/ AppResume

Spec == Init /\ [][Next]_vars

-----------------------------------------------------------------------------
(* properties: age is the real time since the start of a timer, which does not wrap *)

Left(t) == q.init[t] - q.age[t]

\* No hard timer is late: after rt_timer_check none is due, at whatever tick and in whatever
\* order timers were started, also by timeout functions (timer.c:528).  One of 0 ticks, which is
\* how the timer thread waits for a timer that is due, ends with the next tick.
HardInTime ==
    ~isr => \A t \in q.active \ Soft : q.age[t] < q.init[t] \/ q.age[t] = 0

\* Timers end in the order of their deadlines, and of two with the same deadline the one that was
\* started first ("the timer inserted early get called early", timer.c:366), in all orders of
\* starts and restarts and across the wrap of the tick.
CalledInOrder ==
    \A k \in {"hard", "soft"} : \A i, j \in DOMAIN q.list[k] :
        LET t == q.list[k][i]
            u == q.list[k][j]
        IN  i < j => \/ Left(t) < Left(u)
                     \/ Left(t) = Left(u) /\ q.age[t] >= q.age[u]

\* Timers end in time and in the order of their deadlines (timer.c:366, timer.c:528).
InTime == HardInTime /\ CalledInOrder

\* No timeout function is called early (timer.c:539, timer.c:632).
NeverEarly ==
    [][/\ (TimeOut \/ \E o \in Touch \cup {Nothing} : FireHard(o)) =>
             LET t == Head(q.list["hard"]) IN t \in q.active /\ q.age[t] >= q.init[t]
       /\ (Check /\ tpc' = "call" => inhand' \in q.active /\ q.age[inhand'] >= q.init[inhand'])]_vars

\* No soft timer is forgotten: whenever the timer thread sleeps outside of timeout functions it
\* wakes up for the first of the soft timers, whoever started or stopped them (timer.c:681).
\* Exempt are a deadline of RT_TICK_MAX, which the thread takes for "no timer", and a start by
\* an interrupt after the thread has read the list.
SoftServed ==
    asleep /\ tpc = "check" /\ apc = "idle" /\ ~isr /\ ~misled =>
        \A t \in Soft \cap q.active :
            /\ ThreadTimer \in q.active
            /\ Left(ThreadTimer) <= Left(t) + slip

\* A timeout function that sleeps is not woken by the start of another timer (timer.c:418), unless
\* the caller had looked before the function was called.
SleepKept ==
    [][asleep /\ tpc = "call" /\ ~asleep' => TimeOut \/ apc = "resume"]_vars
=============================================================================
