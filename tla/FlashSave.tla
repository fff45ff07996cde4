----------------------------- MODULE FlashSave -----------------------------
(***************************************************************************)
(* The settings and running times in the last page of the flash: save() of *)
(* drivers/flash.c, channel_init() of drivers/channel.c, and the part of   *)
(* the HAL flash driver between them.                                      *)
(*                                                                         *)
(* Three threads call save(): rs485_receive, of priority 15, and           *)
(* lcd_command and shine, both of priority 20.  Nothing serialises them    *)
(* but pFlash.Lock of the HAL, which rejects a call (HAL_BUSY, ignored by  *)
(* save) instead of delaying it.  One action is the code between two       *)
(* accesses to what the threads share.                                     *)
(*                                                                         *)
(* A half-word of the page is erased or holds a value.  Power fails        *)
(* between two operations of the flash, not in the middle of one.          *)
(***************************************************************************)
EXTENDS Naturals, Sequences

CONSTANTS
    Names,      \* the settings that are looked at
    Stages,     \* elements of the multistage arrays (10 in the code)
    Savers,     \* the threads that save
    MaxValue,   \* bound on the values of the settings
    MaxChange,  \* bound on the changes of the settings in memory
    Kills       \* TRUE: shine_init may delete the shine thread while it saves

Threads == {"rs485", "lcd", "shine"}
Priority == [rs485 |-> 15, lcd |-> 20, shine |-> 20]

Erased == 65535
\* what the least significant byte of an erased half-word is
Ones == 255

\* Where save() leaves the settings.  "one" is the constant 1 that it programs to the place
\* of control_mode.
SaveAt ==
    [control |-> 0, one |-> 0, power1 |-> 4, power2 |-> 6, time1 |-> 8, time2 |-> 10,
     delay1 |-> 42, delay2 |-> 44, alarm1 |-> 24, alarm2 |-> 26, hour1 |-> 32, hour2 |-> 34,
     minutes1 |-> 36, minutes2 |-> 38, light |-> 134, cycle |-> 136, seconds1 |-> 20,
     seconds2 |-> 22, mtime1 |-> 54, mtime2 |-> 74, mpower1 |-> 94, mpower2 |-> 114]

\* where channel_init() looks for them
LoadAt ==
    [control |-> 0, power1 |-> 4, power2 |-> 6, time1 |-> 8, time2 |-> 10,
     delay1 |-> 42, delay2 |-> 44, alarm1 |-> 24, alarm2 |-> 26, hour1 |-> 32, hour2 |-> 34,
     minutes1 |-> 36, minutes2 |-> 38, light |-> 134, cycle |-> 136, seconds1 |-> 20,
     seconds2 |-> 22, mtime1 |-> 54, mtime2 |-> 74, mpower1 |-> 94, mpower2 |-> 114]

Arrays == {"mtime1", "mtime2", "mpower1", "mpower2"}
\* rt_uint16_t; the other settings are bytes
Wide == {"time1", "time2", "delay1", "delay2", "hour1", "hour2", "mtime1", "mtime2"}

ASSUME NamesAssumption == Names \subseteq DOMAIN SaveAt
ASSUME SaversAssumption == Savers \subseteq Threads
ASSUME SizesAssumption == Stages \in 1 .. 10 /\ MaxValue \in 1 .. Ones - 1
ASSUME BoundsAssumption == MaxChange \in Nat /\ Kills \in BOOLEAN

Elements(name) == IF name \in Arrays THEN Stages ELSE 1
\* the elements of the settings; "one" is none
Settings == {f \in (Names \ {"one"}) \X (0 .. Stages - 1) : f[2] < Elements(f[1])}
Place(at, f) == at[f[1]] + 2 * f[2]
Cells == {Place(SaveAt, f) : f \in Settings}

\* the HAL calls of save(), the erasure first
CallsOf(name) ==
    IF name \notin Names THEN <<>>
    ELSE [i \in 1 .. Elements(name) |-> <<name, i - 1>>]

Calls ==
    <<<<"erase", 0>>>> \o CallsOf("control") \o CallsOf("one")
    \o CallsOf("power1") \o CallsOf("power2") \o CallsOf("time1") \o CallsOf("time2")
    \o CallsOf("delay1") \o CallsOf("delay2") \o CallsOf("alarm1") \o CallsOf("alarm2")
    \o CallsOf("hour1") \o CallsOf("hour2") \o CallsOf("minutes1") \o CallsOf("minutes2")
    \o CallsOf("light") \o CallsOf("cycle") \o CallsOf("seconds1") \o CallsOf("seconds2")
    \o CallsOf("mtime1") \o CallsOf("mtime2") \o CallsOf("mpower1") \o CallsOf("mpower2")

Value == 0 .. Ones \cup {Erased}

VARIABLES
    ram,        \* the settings in memory
    flash,      \* the page
    locked,     \* LOCK of FLASH->CR
    busy,       \* pFlash.Lock
    step,       \* where each thread is in save() and its HAL calls
    call,       \* the HAL call it makes
    arg,        \* the value it programs
    \* history
    ever,       \* all values a setting has had
    stored,     \* the values a setting has had during the last save
    mixed,      \* two saves have overlapped
    killed,     \* a thread was deleted while it saved
    changes

hal == <<flash, locked, busy>>
callers == <<step, call, arg>>
history == <<ever, stored, mixed, killed, changes>>
vars == <<ram, hal, callers, history>>

Steps == {"idle", "unlock", "test", "take", "operate", "lock"}

TypeOK ==
    /\ ram \in [Settings -> Value] /\ flash \in [Cells -> Value]
    /\ locked \in BOOLEAN /\ busy \in BOOLEAN
    /\ step \in [Savers -> Steps] /\ call \in [Savers -> 1 .. Len(Calls)]
    /\ arg \in [Savers -> Value]
    /\ ever \in [Settings -> SUBSET Value] /\ stored \in [Settings -> SUBSET Value]
    /\ mixed \in BOOLEAN /\ killed \in BOOLEAN
    /\ changes \in 0 .. MaxChange

\* mutant: the settings of the two channels are loaded from each other's place
Loaded_Swapped(f) ==
    IF f[1] = "alarm1" THEN flash[SaveAt["alarm2"]] ELSE flash[Place(LoadAt, f)]
\* the assignments of channel_init(): a byte takes the lower half of the half-word
Loaded(f) ==
    LET word == flash[Place(LoadAt, f)] IN IF f[1] \in Wide THEN word ELSE word % 256

\* The page is blank, or a save has left in it manual control and a different value at
\* every other place; and channel_init() has run.
Init ==
    /\ flash \in {[c \in Cells |-> Erased], [c \in Cells |-> c]}
    /\ ram = [f \in Settings |-> Loaded(f)]
    /\ locked = TRUE /\ busy = FALSE
    /\ step = [t \in Savers |-> "idle"] /\ call = [t \in Savers |-> 1]
    /\ arg = [t \in Savers |-> 0]
    /\ ever = [f \in Settings |-> {ram[f]}] /\ stored = ever
    /\ mixed = FALSE /\ killed = FALSE /\ changes = 0

-----------------------------------------------------------------------------
(* save() *)

Saving == {t \in Savers : step[t] # "idle"}

\* save() never blocks, so a thread of a lower priority waits for its end
Runs(t) == \A u \in Saving : Priority[t] <= Priority[u]

CallSave(t) ==
    /\ step[t] = "idle"
    /\ step' = [step EXCEPT ![t] = "unlock"]
    /\ stored' = [f \in Settings |-> {ram[f]}]
    /\ mixed' = (mixed \/ Saving # {})
    /\ UNCHANGED <<ram, hal, call, arg, ever, killed, changes>>

Unlock(t) ==
    /\ step[t] = "unlock"
    /\ locked' = FALSE
    /\ step' = [step EXCEPT ![t] = "test"]
    /\ UNCHANGED <<ram, flash, busy, call, arg, history>>

\* the call returns, the next one follows
Proceed(t) ==
    IF call[t] < Len(Calls)
      THEN step' = [step EXCEPT ![t] = "test"] /\ call' = [call EXCEPT ![t] = @ + 1]
      ELSE step' = [step EXCEPT ![t] = "lock"] /\ call' = [call EXCEPT ![t] = 1]

Erases(t) == Calls[call[t]][1] = "erase"

Argument(t) ==
    IF Erases(t) THEN 0
    ELSE IF Calls[call[t]][1] = "one" THEN 1
    ELSE ram[Calls[call[t]]]

\* __HAL_LOCK: a test ...
TestLock(t) ==
    /\ step[t] = "test"
    /\ IF busy THEN Proceed(t) /\ UNCHANGED arg
               ELSE /\ step' = [step EXCEPT ![t] = "take"]
                    /\ arg' = [arg EXCEPT ![t] = Argument(t)]
                    /\ UNCHANGED call
    /\ UNCHANGED <<ram, hal, history>>

\* ... and an assignment
TakeLock(t) ==
    /\ step[t] = "take"
    /\ busy' = TRUE
    /\ step' = [step EXCEPT ![t] = "operate"]
    /\ UNCHANGED <<ram, flash, locked, call, arg, history>>

\* A half-word can be programmed when it is erased, and to 0 at any time; a locked flash
\* does nothing.
Programmed(t) ==
    LET c == Place(SaveAt, Calls[call[t]]) IN
    IF ~locked /\ (flash[c] = Erased \/ arg[t] = 0)
      THEN [flash EXCEPT ![c] = arg[t]] ELSE flash

\* mutant: the page is not erased
ErasedPage_Not == flash
ErasedPage == IF locked THEN flash ELSE [c \in Cells |-> Erased]

\* mutant: the HAL forgets __HAL_UNLOCK
Free_Not == UNCHANGED busy
Free == busy' = FALSE

Operate(t) ==
    /\ step[t] = "operate"
    /\ flash' = IF Erases(t) THEN ErasedPage ELSE Programmed(t)
    /\ Free
    /\ arg' = [arg EXCEPT ![t] = 0]
    /\ Proceed(t)
    /\ UNCHANGED <<ram, locked, history>>

Lock(t) ==
    /\ step[t] = "lock"
    /\ locked' = TRUE
    /\ step' = [step EXCEPT ![t] = "idle"]
    /\ UNCHANGED <<ram, flash, busy, call, arg, history>>

Save(t) == Runs(t) /\ (Unlock(t) \/ TestLock(t) \/ TakeLock(t) \/ Operate(t) \/ Lock(t))

-----------------------------------------------------------------------------
(* Surroundings *)

\* a command of the panel, a register of RS485 or the end of an irradiation
Change(f, v) ==
    /\ changes < MaxChange /\ changes' = changes + 1
    /\ ram' = [ram EXCEPT ![f] = v]
    /\ ever' = [ever EXCEPT ![f] = @ \cup {v}]
    /\ stored' = IF Saving = {} THEN stored ELSE [stored EXCEPT ![f] = @ \cup {v}]
    /\ UNCHANGED <<hal, callers, mixed, killed>>

\* rt_thread_delete of the shine thread by lcd_command, in shine_init
Kill ==
    /\ Kills /\ "shine" \in Saving /\ Saving \subseteq {"shine"}
    /\ step' = [step EXCEPT !["shine"] = "idle"]
    /\ call' = [call EXCEPT !["shine"] = 1]
    /\ arg' = [arg EXCEPT !["shine"] = 0]
    /\ killed' = TRUE
    /\ UNCHANGED <<ram, hal, ever, stored, mixed, changes>>

\* power fails and comes back; channel_init() loads the settings
PowerLoss ==
    /\ ram' = [f \in Settings |-> Loaded(f)]
    /\ locked' = TRUE /\ busy' = FALSE
    /\ step' = [t \in Savers |-> "idle"] /\ call' = [t \in Savers |-> 1]
    /\ arg' = [t \in Savers |-> 0]
    /\ ever' = [f \in Settings |-> ever[f] \cup {Loaded(f)}]
    /\ stored' = [f \in Settings |-> {Loaded(f)}]
    /\ killed' = FALSE
    /\ UNCHANGED <<flash, mixed, changes>>

Next ==
    \/ \E t \in Savers : CallSave(t) \/ Save(t)
    \/ \E f \in Settings, v \in 0 .. MaxValue : Change(f, v)
    \/ Kill
    \/ PowerLoss

Spec == Init /\ [][Next]_vars

-----------------------------------------------------------------------------
(* Properties *)

\* When no save is under way, power may fail: every setting comes back with a value it had
\* during the last save, if the saves did not overlap and none was killed.
Stored ==
    Saving = {} /\ ~mixed /\ ~killed => \A f \in Settings : Loaded(f) \in stored[f]

\* Whenever power fails, even in the middle of a save or after a save was killed, a
\* setting comes back with a value it once had or with all bits set, never with the value
\* of another setting.
NoGarbage ==
    ~mixed => \A f \in Settings : Loaded(f) \in ever[f] \cup {Ones, Erased}

\* The lock of the HAL is held by a thread that will give it back: no later save is
\* rejected because of an earlier one.
LockHeld == busy /\ ~killed => \E t \in Savers : step[t] = "operate"

\* save() saves the settings: when no save is under way, all of them would come back.
Saved == Saving = {} => \A f \in Settings : Loaded(f) \in stored[f]
=============================================================================
