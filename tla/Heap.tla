-------------------------------- MODULE Heap --------------------------------
(***************************************************************************)
(* The heap of the kernel (rt-thread/src/mem.c), from which threads, their *)
(* stacks and message queues are allocated: a list of blocks in address    *)
(* order, first fit from the lowest free block, with heap_sem around each  *)
(* operation.  Addresses and sizes are counted in units of RT_ALIGN_SIZE.  *)
(*                                                                         *)
(* mem holds the block headers that are in the list.  A caller waits for   *)
(* heap_sem in the order of the calls and works while it is the first; a   *)
(* thread may be deleted anywhere, which does not give the semaphore back. *)
(***************************************************************************)
EXTENDS Naturals, Sequences, FiniteSets, FiniteSetsExt, Functions, SequencesExt

CONSTANTS
    Caller,         \* threads that use the heap
    Victim,         \* those of them that rt_thread_delete may hit
    Safe,           \* TRUE: not while they hold heap_sem
    Header,         \* SIZEOF_STRUCT_MEM
    MinSize,        \* MIN_SIZE
    Size,           \* mem_size_aligned
    Asked,          \* bound: the sizes asked for
    MaxOwned        \* bound: pieces of memory a caller has

End == Size + Header        \* heap_end

ASSUME SizeAssumption == {Header, MinSize, Size} \subseteq Nat \ {0} /\ Asked \subseteq Nat \ {0} /\ MinSize <= Size
ASSUME CallerAssumption == Victim \subseteq Caller /\ IsFiniteSet(Caller)

VARIABLES
    mem,        \* the headers in the list: used, next and prev at each address
    lfree,      \* the lowest free block
    queue,      \* the callers at heap_sem; the first one has it
    call,       \* what a caller has asked for: [op, size, block, old]
    owned       \* history: of each caller, the blocks it has and the size asked for
vars == <<mem, lfree, queue, call, owned>>

NoCall == [op |-> "none", size |-> 0, block |-> 0, old |-> {}]
Dead == [NoCall EXCEPT !.op = "dead"]

Init ==
    /\ mem = [a \in {0, End} |-> [used |-> a = End, next |-> End, prev |-> a]]
    /\ lfree = 0
    /\ queue = <<>> /\ call = [t \in Caller |-> NoCall] /\ owned = [t \in Caller |-> {}]

-----------------------------------------------------------------------------
(* the list of blocks *)

\* mutant: the header counts as room
Room_Gross(m, a) == m[a].next - a
\* the user data size of a block
Room(m, a) == m[a].next - (a + Header)
Without(m, a) == [b \in DOMAIN m \ {a} |-> m[b]]

\* mutant: the block behind keeps pointing to the block that is gone
Bypass_OneWay(m, a) == [Without(m, a) EXCEPT ![m[a].prev].next = m[a].next]
\* the block at a becomes part of the one before it
Bypass(m, a) == [Without(m, a) EXCEPT ![m[a].prev].next = m[a].next, ![m[a].next].prev = m[a].prev]

\* plug_holes: the free block at a is joined with the free ones behind and before it
PlugHoles(m, low, a) ==
    LET n == m[a].next
        joins == ~m[n].used
        fm == IF joins THEN Bypass(m, n) ELSE m
        fl == IF joins /\ low = n THEN a ELSE low
        p == fm[a].prev
    IN  IF p # a /\ ~fm[p].used
        THEN [mem |-> Bypass(fm, a), lfree |-> IF fl = a THEN p ELSE fl]
        ELSE [mem |-> fm, lfree |-> fl]

\* the block at a keeps n units, the rest becomes a free block
Split(m, a, n) ==
    LET b == a + Header + n
        end == m[a].next
    IN  [c \in DOMAIN m \cup {b} |->
            CASE c = b -> [used |-> FALSE, next |-> end, prev |-> a]
              [] c = a -> [m[a] EXCEPT !.next = b]
              [] c = end /\ end # End -> [m[end] EXCEPT !.prev = b]
              [] OTHER -> m[c]]

Aligned(n) == IF n < MinSize THEN MinSize ELSE n

\* the blocks the loop of rt_malloc takes: a block that ends with the heap does not fit exactly
Fitting(n) == {a \in DOMAIN mem : a >= lfree /\ a < Size - n /\ ~mem[a].used /\ Room(mem, a) >= n}

Splits(a, n) == Room(mem, a) >= n + Header + MinSize

\* lfree after the block at low has been taken from the heap m
LowestFrom(m, low) == Min({b \in DOMAIN m : b >= low /\ (~m[b].used \/ b = End)})

-----------------------------------------------------------------------------
(* the callers *)

\* rt_sem_take(&heap_sem, RT_WAITING_FOREVER)
Asks(t, c) ==
    /\ call[t] = NoCall
    /\ call' = [call EXCEPT ![t] = c]
    /\ queue' = Append(queue, t)
    /\ UNCHANGED <<mem, lfree, owned>>

Malloc(t, n) ==
    /\ n <= Size /\ Cardinality(owned[t]) < MaxOwned
    /\ Asks(t, [NoCall EXCEPT !.op = "malloc", !.size = n])

Free(t) == \E x \in owned[t] : Asks(t, [NoCall EXCEPT !.op = "free", !.block = x.block])

Realloc(t, n) ==
    /\ n <= Size
    /\ \E x \in owned[t] : Asks(t, [NoCall EXCEPT !.op = "realloc", !.size = n, !.block = x.block])

Works(t, op) == queue # <<>> /\ t = Head(queue) /\ call[t].op = op

\* rt_sem_release, and the call returns
Returns(t) == queue' = Tail(queue) /\ call' = [call EXCEPT ![t] = NoCall]
\* rt_sem_release; the caller will take the semaphore again for c
GoesOn(t, c) == queue' = Tail(queue) /\ call' = [call EXCEPT ![t] = c]

\* the second rt_sem_take of rt_realloc, in its rt_malloc, or the third, in its rt_free
AsksAgain(t) ==
    /\ call[t] \notin {NoCall, Dead} /\ t \notin Range(queue)
    /\ queue' = Append(queue, t)
    /\ UNCHANGED <<mem, lfree, call, owned>>

\* the loop finds a block; a realloc frees its former block then
Found(t) ==
    LET n == Aligned(call[t].size)
        a == Min(Fitting(n))
        m == [(IF Splits(a, n) THEN Split(mem, a, n) ELSE mem) EXCEPT ![a].used = TRUE]
    IN  /\ Works(t, "malloc") /\ Fitting(n) # {}
        /\ mem' = m
        /\ lfree' = IF a = lfree THEN LowestFrom(m, lfree) ELSE lfree
        /\ owned' = [owned EXCEPT ![t] = @ \cup {[block |-> a, need |-> call[t].size]}]
        /\ IF call[t].old = {} THEN Returns(t)
           ELSE \E old \in call[t].old : GoesOn(t, [NoCall EXCEPT !.op = "free", !.block = old])

\* mutant: a realloc tries again until there is room
GivesUp_Never(t) == IF call[t].old = {} THEN Returns(t) ELSE GoesOn(t, call[t])
\* RT_NULL, also from a realloc, whose former block stays
GivesUp(t) == Returns(t)

NotFound(t) ==
    /\ Works(t, "malloc") /\ Fitting(Aligned(call[t].size)) = {}
    /\ GivesUp(t)
    /\ UNCHANGED <<mem, lfree, owned>>

\* mutant: lfree stays
Lowest_Kept(a) == lfree
Lowest(a) == IF a < lfree THEN a ELSE lfree

Freed(t) ==
    LET a == call[t].block
        r == PlugHoles([mem EXCEPT ![a].used = FALSE], Lowest(a), a)
    IN  /\ Works(t, "free")
        /\ mem' = r.mem /\ lfree' = r.lfree
        /\ owned' = [owned EXCEPT ![t] = {x \in @ : x.block # a}]
        /\ Returns(t)

\* the first critical section of rt_realloc: nothing to do, split, or a new block
Resized(t) ==
    LET a == call[t].block
        n == call[t].size
        b == a + Header + n
        r == PlugHoles(Split(mem, a, n), Lowest(b), b)
        resized == [owned EXCEPT ![t] = {x \in @ : x.block # a} \cup {[block |-> a, need |-> n]}]
    IN  /\ Works(t, "realloc")
        /\ \/ /\ Room(mem, a) = n
              /\ owned' = resized
              /\ Returns(t) /\ UNCHANGED <<mem, lfree>>
           \/ /\ n + Header + MinSize < Room(mem, a)
              /\ mem' = r.mem /\ lfree' = r.lfree /\ owned' = resized
              /\ Returns(t)
           \/ /\ n + Header + MinSize >= Room(mem, a) /\ Room(mem, a) # n
              /\ GoesOn(t, [NoCall EXCEPT !.op = "malloc", !.size = n, !.old = {a}])
              /\ UNCHANGED <<mem, lfree, owned>>

\* a thread that waits leaves the list of the semaphore; one that has it keeps it
Queue(t) == IF queue # <<>> /\ t = Head(queue) THEN queue ELSE SelectSeq(queue, LAMBDA u : u # t)

\* rt_thread_delete.  What the thread had is lost.
Deleted(t) ==
    /\ t \in Victim /\ call[t] # Dead
    /\ Safe => ~(queue # <<>> /\ t = Head(queue))
    /\ call' = [call EXCEPT ![t] = Dead]
    /\ queue' = Queue(t)
    /\ UNCHANGED <<mem, lfree, owned>>

Work(t) == AsksAgain(t) \/ Found(t) \/ NotFound(t) \/ Freed(t) \/ Resized(t)

Next == \E t \in Caller :
            \/ \E n \in Asked : Malloc(t, n) \/ Realloc(t, n)
            \/ Free(t) \/ Work(t) \/ Deleted(t)

Spec == Init /\ [][Next]_vars

\* threads that are ready run in the end
FairSpec == Spec /\ \A t \in Caller : WF_vars(Work(t))

-----------------------------------------------------------------------------
(* properties *)

Inner == DOMAIN mem \ {End}

\* The headers are one list that tiles the heap, each pointing back to the one before it, no two
\* free blocks are neighbours and lfree is the lowest of them, after any history of splits and
\* joins (mem.c:156).
HeapSound ==
    /\ 0 \in Inner /\ mem[0].prev = 0 /\ End \in DOMAIN mem /\ mem[End].used
    /\ \A a \in Inner :
        LET n == mem[a].next
        IN  /\ n \in DOMAIN mem /\ a + Header < n
            /\ \A b \in DOMAIN mem : b <= a \/ b >= n
            /\ n # End => mem[n].prev = a
            /\ ~mem[a].used /\ n # End => mem[n].used
    /\ lfree = Min({a \in Inner : ~mem[a].used} \cup {End})

Pieces == UNION {{[at |-> x.block + Header, to |-> mem[x.block].next - 1, need |-> x.need] : x \in owned[t]} : t \in Caller}

Memory == INSTANCE Allocator WITH Space <- 0 .. End - 1, live <- Pieces

\* Every piece of memory that callers have is theirs alone and large enough, until they free it,
\* through all splits, joins and moves (mem.c:272, mem.c:420).
Allocates == Memory!Spec

\* rt_malloc returns RT_NULL only if no free block is large enough; exempt is the block at the end
\* of the heap when it fits exactly, since the loop stops one short of it (mem.c:306).
NullOnlyIfFull ==
    [][\A t \in Caller : NotFound(t) =>
          LET n == Aligned(call[t].size)
          IN  \A a \in Inner : mem[a].used \/ Room(mem, a) < n \/ (mem[a].next = End /\ Room(mem, a) = n)]_vars

\* Every call of a caller that lives returns (mem.c:303), while no thread is deleted that has heap_sem.
CallsReturn == \A t \in Caller : call[t] \notin {NoCall, Dead} ~> call[t] \in {NoCall, Dead}
=============================================================================
