----------------------------- MODULE ThreadLife -----------------------------
(***************************************************************************)
(* The life of a dynamic thread of the kernel (rt-thread/src/thread.c,     *)
(* idle.c, object.c, timer.c, scheduler.c) and of the handles by which the *)
(* firmware deletes it: shine of shine_init, l_off1 and l_off2 of LightON1 *)
(* and LightON2 (drivers/shine.c).                                         *)
(*                                                                         *)
(* The thread "app" works on the handles; the threads it starts sleep and  *)
(* exit.  All are preempted anywhere outside the critical sections of the  *)
(* kernel, so an action is one such section.  A control block is the       *)
(* memory of one thread; after it has been freed it is given to the next   *)
(* thread.  rt_malloc may return any free block.                           *)
(*                                                                         *)
(* Names common to all modules begin with Life here: KernelProofs extends  *)
(* this module together with Timer.                                        *)
(***************************************************************************)
EXTENDS Naturals, FiniteSets

CONSTANTS
    Block,      \* places in the heap for a control block and its stack
    Handle,     \* the global variables of type rt_thread_t
    NoThread,       \* RT_NULL
    Fresh       \* TRUE: no handle of a freed thread is used

ASSUME NoThreadAssumption == NoThread \notin Block /\ NoThread \notin Handle
ASSUME FreshAssumption == Fresh \in BOOLEAN

VARIABLES
    allocated,  \* blocks in use
    type,       \* blocks whose object type is RT_Object_Class_Thread
    stat,       \* thread->stat, which outlives the thread
    ready,      \* the blocks linked into the ready list
    defunct,    \* the blocks linked into rt_thread_defunct
    timer,      \* the blocks whose thread timer is active
    handle,     \* the value of each handle
    step, on,   \* where app is, and the handle it works on
    body,       \* history: the handle for which the thread in a block was created
    raced       \* history: a timer has expired for a thread that was being deleted

lists == <<ready, defunct, timer>>
memory == <<allocated, type, stat>>
app == <<handle, step, on>>
lifeVars == <<lists, memory, app, body, raced>>

Steps == {"rest", "check", "remove", "detach", "close", "create", "startup"}
Stats == {"init", "ready", "suspend", "close"}

LifeTypeOK ==
    /\ allocated \subseteq Block /\ type \subseteq allocated /\ stat \in [Block -> Stats]
    /\ ready \subseteq Block /\ defunct \subseteq Block /\ timer \subseteq Block
    /\ handle \in [Handle -> Block \cup {NoThread}]
    /\ step \in Steps /\ on \in Handle
    /\ body \in [Block -> Handle \cup {NoThread}] /\ raced \in BOOLEAN

LifeInit ==
    /\ allocated = {} /\ type = {} /\ stat = [b \in Block |-> "init"]
    /\ ready = {} /\ defunct = {} /\ timer = {}
    /\ handle = [h \in Handle |-> NoThread]
    /\ step = "rest" /\ on \in Handle
    /\ body = [b \in Block |-> NoThread] /\ raced = FALSE

target == handle[on]

-----------------------------------------------------------------------------
(* rt_thread_delete *)

\* the handles that app passes to rt_thread_delete
Usable(h) == handle[h] # NoThread /\ (Fresh => handle[h] \in allocated /\ body[handle[h]] = h)

\* shine_init, or LightON with or without the LightOFF that follows it.  The heap is large
\* enough: rt_malloc never fails.
Begin(h) ==
    /\ step = "rest" /\ allocated # Block
    /\ on' = h
    /\ step' = IF Usable(h) THEN "check" ELSE "create"
    /\ UNCHANGED <<lists, memory, handle, body, raced>>

\* after the deletion app goes on, or creates the next thread
Deleted == step' \in {"rest", "create"}

DeleteCheck ==
    /\ step = "check"
    /\ IF stat[target] = "close" THEN Deleted
       ELSE IF stat[target] = "init" THEN step' = "detach" ELSE step' = "remove"
    /\ UNCHANGED <<lists, memory, handle, on, body, raced>>

\* rt_list_remove takes a thread out of whatever list it is in
TakenOut(b) == ready' = ready \ {b} /\ defunct' = defunct \ {b}

DeleteRemove ==
    /\ step = "remove"
    /\ TakenOut(target)
    /\ step' = "detach"
    /\ UNCHANGED <<timer, memory, handle, on, body, raced>>

\* mutant: the timer is forgotten
Detached_Not(b) == UNCHANGED timer
Detached(b) == timer' = timer \ {b}

DeleteDetach ==
    /\ step = "detach"
    /\ Detached(target)
    /\ step' = "close"
    /\ UNCHANGED <<ready, defunct, memory, handle, on, body, raced>>

DeleteClose ==
    /\ step = "close"
    /\ stat' = [stat EXCEPT ![target] = "close"]
    /\ defunct' = defunct \cup {target}
    /\ Deleted
    /\ UNCHANGED <<ready, timer, allocated, type, handle, on, body, raced>>

-----------------------------------------------------------------------------
(* rt_thread_create and rt_thread_startup *)

Create ==
    /\ step = "create"
    /\ \E b \in Block \ allocated :
         /\ allocated' = allocated \cup {b}
         /\ type' = type \cup {b}
         /\ stat' = [stat EXCEPT ![b] = "init"]
         /\ handle' = [handle EXCEPT ![on] = b]
         /\ body' = [body EXCEPT ![b] = on]
    /\ step' = "startup"
    /\ UNCHANGED <<lists, on, raced>>

Startup ==
    /\ step = "startup"
    /\ stat' = [stat EXCEPT ![target] = "ready"]
    /\ ready' = ready \cup {target}
    /\ step' = "rest"
    /\ UNCHANGED <<defunct, timer, allocated, type, handle, on, body, raced>>

-----------------------------------------------------------------------------
(* The threads, the timer interrupt and the idle thread *)

\* rt_thread_sleep
Sleep(b) ==
    /\ b \in ready
    /\ ready' = ready \ {b}
    /\ stat' = [stat EXCEPT ![b] = "suspend"]
    /\ timer' = timer \cup {b}
    /\ UNCHANGED <<defunct, allocated, type, app, body, raced>>

\* rt_thread_timeout, called by rt_timer_check in the interrupt
Expire(b) ==
    /\ b \in timer
    /\ timer' = timer \ {b}
    /\ ready' = ready \cup {b}
    /\ defunct' = defunct \ {b}
    /\ stat' = [stat EXCEPT ![b] = "ready"]
    /\ raced' = (raced \/ (step \in {"detach", "close"} /\ b = target))
    /\ UNCHANGED <<allocated, type, app, body>>

\* mutant: the thread is not handed to the idle thread
Buried_Not(b) == UNCHANGED defunct
Buried(b) == defunct' = defunct \cup {b}

\* rt_thread_exit
Exit(b) ==
    /\ b \in ready
    /\ ready' = ready \ {b}
    /\ stat' = [stat EXCEPT ![b] = "close"]
    /\ timer' = timer \ {b}
    /\ Buried(b)
    /\ UNCHANGED <<allocated, type, app, body, raced>>

\* rt_object_delete resets the type
Forgotten(b) == type' = type \ {b}

\* rt_thread_idle_excute: the idle thread runs when no other thread is ready
Reclaim ==
    /\ step = "rest" /\ ready = {}
    /\ \E b \in defunct :
         /\ defunct' = defunct \ {b}
         /\ allocated' = allocated \ {b}
         /\ Forgotten(b)
    /\ UNCHANGED <<ready, timer, stat, app, body, raced>>

App == DeleteCheck \/ DeleteRemove \/ DeleteDetach \/ DeleteClose \/ Create \/ Startup

LifeNext ==
    \/ \E h \in Handle : Begin(h)
    \/ App
    \/ \E b \in Block : Sleep(b) \/ Expire(b) \/ Exit(b)
    \/ Reclaim

LifeSpec == LifeInit /\ [][LifeNext]_lifeVars

\* The application goes on, a thread that is ready sleeps or exits, a sleep ends,
\* and the idle thread runs when no other thread is ready.
LifeFairSpec ==
    /\ LifeSpec
    /\ WF_lifeVars(App)
    /\ \A b \in Block : WF_lifeVars(Sleep(b) \/ Exit(b)) /\ WF_lifeVars(Expire(b))
    /\ WF_lifeVars(Reclaim)

-----------------------------------------------------------------------------
(* Properties *)

\* app is in the middle of deleting the thread in b
Deleting(b) == step \in {"remove", "detach", "close"} /\ b = target

\* The lists of the kernel name only threads that exist, each at most one of them, and as
\* its stat says: a closed thread waits for the idle thread, will not run and will not be
\* woken by its timer.
ListsMatchStat ==
    ~raced =>
        /\ ready \cup defunct \cup timer \subseteq allocated
        /\ ready \cap defunct = {} /\ ready \cap timer = {} /\ defunct \cap timer = {}
        /\ \A b \in allocated :
             /\ b \in ready => stat[b] = "ready"
             /\ b \in timer => stat[b] = "suspend"
             /\ b \in defunct => stat[b] = "close"

\* A thread that exists is in one of the lists, or app has it in hand: none is lost.
NoneLost ==
    ~raced =>
        \A b \in allocated :
            b \in ready \cup defunct \cup timer \/ Deleting(b) \/ (step = "startup" /\ b = target)

\* The lists of the kernel, stat and the heap agree about every thread (thread.c:424, idle.c:141).
ThreadsSound == ListsMatchStat /\ NoneLost

Idle == step = "rest" /\ ready = {}
\* Once the others leave the processor to it, the idle thread frees the memory of every
\* thread that was deleted or has returned.
Reclaimed == <>[]Idle => <>[](\A b \in allocated : raced \/ stat[b] # "close")

\* rt_thread_delete removes a thread from the thread queue.
RemovedFromQueue == \A b \in Block : b \in defunct => b \notin ready

\* What rt_thread_delete is given is a thread: the assertion at its beginning, which the
\* build leaves out.
DeletesThread == step = "check" => target \in type
=============================================================================
