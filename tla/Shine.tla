------------------------------- MODULE Shine -------------------------------
(***************************************************************************)
(* The irradiation controller of drivers/shine.c with the thread that      *)
(* starts and stops it (lcd_command_entry of drivers/lcd.c), the delayed   *)
(* relay threads lightoff1/lightoff2, the operator panel and the digital   *)
(* inputs.                                                                 *)
(*                                                                         *)
(* The shine, lcd_command and lightoff threads all have priority 20 and a  *)
(* time slice of 10 ticks, so any of them can be preempted by another      *)
(* anywhere.  One action is the code between two points where what another *)
(* thread does can matter: a delay, a save(), a test of shared state.      *)
(*                                                                         *)
(* Time: one Sleep is one rt_thread_mdelay(100), LoopsPerSec of them make  *)
(* a counted second.  Every other delay (debounce, the relay's delay_time, *)
(* the 200 ticks of rt_mq_recv) has no length here, only an end.           *)
(*                                                                         *)
(* A flag that exists once per channel is the set of the channels for      *)
(* which it is set.                                                        *)
(***************************************************************************)
EXTENDS Naturals, Sequences

CONSTANTS
    NCh,          \* number of channels (2 in the code)
    ModeSet,      \* the control modes the settings can select
    Buttons,      \* the panel buttons the operator uses
    LoopsPerSec,  \* loops of the shine thread per counted second (10 in the code)
    CheckDelay,   \* seconds before the lamp feedback is looked at (3 in the code)
    Time,         \* channelN.time, the length of an automatic irradiation
    NStages,      \* stages of a multistage irradiation (10 in the code)
    StageTime,    \* channelN.multistage_time
    Cycle,        \* control_mode.cycle
    Patient,      \* TRUE: the operator enters only when no irradiation thread is left
    QueueLen,     \* bound on the panel's unread messages
    MaxNow,       \* bound on now_time_s
    MaxPress,     \* bound on the presses of the operator
    MaxEdge,      \* bound on the changes of the LedOn inputs
    MaxFault      \* bound on the changes of temperature and lamp feedback

AllModes == {"manual", "auto", "multistage"}
AllButtons == {"enter", "on", "off", "back"}

ASSUME ChannelsAssumption == NCh \in Nat \ {0}
ASSUME ModesAssumption == ModeSet # {} /\ ModeSet \subseteq AllModes
ASSUME ButtonsAssumption == Buttons \subseteq AllButtons
ASSUME TimesAssumption ==
    /\ LoopsPerSec \in Nat \ {0} /\ CheckDelay \in Nat /\ Time \in Nat
    /\ NStages \in Nat \ {0} /\ StageTime \in [0 .. NStages - 1 -> Nat]
    /\ Cycle \in Nat
ASSUME PatientAssumption == Patient \in BOOLEAN
ASSUME BoundsAssumption ==
    /\ QueueLen \in Nat /\ MaxNow \in Nat /\ MaxPress \in Nat
    /\ MaxEdge \in Nat /\ MaxFault \in Nat

Chan == 1 .. NCh

VARIABLES
    \* output pins
    en,         \* channels with EN on and the PWM output started
    duty,       \* PWM compare value: 0, or 1 + the stage whose power is set
    light,      \* channels with the relay (Light) closed
    alarm,      \* channels with Alarm on
    complete,   \* channels with Complete on
    beep,
    \* shared variables of the firmware
    status,     \* channels with status 1
    now,        \* now_time_s
    total,      \* time_hour, time_minutes and time_seconds, in seconds
    onpage,     \* on_shine_page
    running,    \* read_temp_running
    ledio,      \* channels with led_on_io 1
    control,    \* control_mode.control_mode and light_mode
    \* the shine thread ("none": there is none) and its locals
    pc, ch, mode,
    old,        \* channels with channel_old_status 1
    last,       \* channels with last_state 0
    time,
    stage,      \* cycle
    large,      \* large_cycle
    pending,    \* channels with a lightoff thread waiting to open the relay
    \* the lcd_command thread, its locals and its message queue
    lpc, lch,
    llast,      \* channels with last_state 0
    queue,
    \* inputs
    low,        \* channels with LedOn low: irradiation is asked for
    dark,       \* channels with CheckLed low: the lamp gives no light
    hot,        \* channels with Temp >= alarm_temperature or Temp = 0
    page,       \* page the panel shows
    \* history and bounds
    ran,        \* seconds counted while the lamp was on
    presses, edges, faults

pins    == <<en, duty, light, alarm, complete, beep>>
shared  == <<status, now, total, onpage, running, ledio, control>>
thread  == <<pc, ch, mode, old, last, time, stage, large>>
lcd     == <<lpc, lch, llast, queue>>
inputs  == <<low, dark, hot, page>>
bounds  == <<presses, edges, faults>>
vars    == <<pins, shared, thread, pending, lcd, inputs, ran, bounds>>

Zero == [c \in Chan |-> 0]

Pcs == {"none", "start", "flags", "poll", "debounce", "switch", "guard", "save",
        "exit", "exitsave", "leave", "sleep"}
Lpcs == {"edge", "init", "create", "run", "recv"}
Message == [btn : {"enter", "back"}, ch : {0}] \cup [btn : {"on", "off"}, ch : Chan]

PinsOK ==
    /\ en \subseteq Chan /\ duty \in [Chan -> 0 .. NStages] /\ light \subseteq Chan
    /\ alarm \subseteq Chan /\ complete \subseteq Chan /\ beep \in BOOLEAN
    /\ pending \subseteq Chan

SharedOK ==
    /\ status \subseteq Chan /\ now \in [Chan -> Nat] /\ total \in [Chan -> Nat]
    /\ onpage \in BOOLEAN /\ running \in BOOLEAN /\ ledio \subseteq Chan
    /\ control \in ModeSet

ThreadOK ==
    /\ pc \in Pcs /\ ch \in Chan /\ mode \in ModeSet
    /\ old \subseteq Chan /\ last \subseteq Chan /\ time \in 0 .. LoopsPerSec - 1
    /\ stage \in [Chan -> 0 .. NStages - 1] /\ large \in [Chan -> Nat]

LcdOK ==
    /\ lpc \in Lpcs /\ lch \in 0 .. NCh /\ (lpc \in {"edge", "run"} => lch \in Chan)
    /\ llast \subseteq Chan /\ queue \in Seq(Message)

InputsOK ==
    /\ low \subseteq Chan /\ dark \subseteq Chan /\ hot \subseteq Chan
    /\ page \in {"home", "shine"}
    /\ ran \in [Chan -> Nat]
    /\ presses \in Nat /\ edges \in Nat /\ faults \in Nat

TypeOK == PinsOK /\ SharedOK /\ ThreadOK /\ LcdOK /\ InputsOK

\* The temperatures are 0 until they are first read, and 0 counts as a fault.
Init ==
    /\ en = {} /\ duty = Zero /\ light = {} /\ alarm = {} /\ complete = {} /\ beep = FALSE
    /\ status = {} /\ now = Zero /\ total = Zero
    /\ onpage = FALSE /\ running = FALSE /\ ledio = {} /\ control \in ModeSet
    /\ pc = "none" /\ ch = 1 /\ mode = control /\ old = {} /\ last = {} /\ time = 0
    /\ stage = Zero /\ large = Zero /\ pending = {}
    /\ low \in SUBSET Chan /\ dark = {} /\ hot \in SUBSET Chan /\ page = "home"
    /\ lpc = "edge" /\ lch = 1 /\ llast = low /\ queue = <<>>
    /\ ran = Zero /\ presses = 0 /\ edges = 0 /\ faults = 0

-----------------------------------------------------------------------------
(* The shine thread *)

Manual == mode = "manual"
Automatic == mode = "auto"
Multistage == mode = "multistage"

\* the thread goes on with the next channel, or with the part after the channels
NextChannel(loop, done) ==
    IF ch < NCh THEN pc' = loop /\ ch' = ch + 1
                ELSE pc' = done /\ ch' = 1

\* the level of c's input, now and when it was last acted on
Changed(c) == ~(c \in low <=> c \in last)

Capped(n) == IF n < MaxNow THEN n + 1 ELSE n

\* mutant: the temperature is not looked at
Faulty_NoTemp(c) == now[c] >= CheckDelay /\ c \in dark
\* what switches an irradiation off: over-temperature, no temperature, or no light
Faulty(c) == c \in hot \/ (now[c] >= CheckDelay /\ c \in dark)

\* the duty of a channel that is switched on
OnDuty(c) == IF Multistage THEN stage[c] + 1 ELSE 1

Start ==
    /\ pc = "start"
    /\ pc' = "flags"
    /\ beep' = (Automatic /\ beep)
    /\ alarm' = {} /\ light' = {} /\ complete' = {}
    /\ last' = low /\ time' = 0
    /\ UNCHANGED <<en, duty, shared, ch, mode, old, stage, large, pending, lcd, inputs, ran, bounds>>

Flags ==
    /\ pc = "flags"
    /\ status' = status \cup ledio
    /\ last' = IF Manual THEN last \cup ledio ELSE last
    /\ ledio' = {}
    /\ pc' = "poll" /\ ch' = 1
    /\ UNCHANGED <<pins, now, total, onpage, running, control, mode, old, time, stage, large,
                   pending, lcd, inputs, ran, bounds>>

Poll ==
    /\ pc = "poll"
    /\ IF Changed(ch) THEN pc' = "debounce" /\ UNCHANGED ch
                      ELSE NextChannel("poll", "switch")
    /\ UNCHANGED <<pins, shared, mode, old, last, time, stage, large, pending, lcd, inputs,
                   ran, bounds>>

\* the input has gone low while the channel is on: an automatic irradiation begins again
Restart ==
    /\ ch \in low /\ ch \in status
    /\ now' = IF Manual THEN now ELSE [now EXCEPT ![ch] = 0]
    /\ stage' = IF Multistage THEN [stage EXCEPT ![ch] = 0] ELSE stage
    /\ large' = IF Multistage THEN [large EXCEPT ![ch] = 0] ELSE large
    /\ duty' = IF Multistage THEN [duty EXCEPT ![ch] = 1] ELSE duty
    /\ UNCHANGED status

\* the input has gone low while the channel is off, or high
SwitchByInput ==
    /\ ~(ch \in low /\ ch \in status)
    /\ status' = IF ch \in low THEN status \cup {ch}
                 ELSE IF Manual THEN status \ {ch} ELSE status
    /\ UNCHANGED <<now, stage, large, duty>>

Debounce ==
    /\ pc = "debounce"
    /\ IF Changed(ch)
         THEN /\ Restart \/ SwitchByInput
              /\ last' = IF ch \in low THEN last \cup {ch} ELSE last \ {ch}
         ELSE UNCHANGED <<status, now, stage, large, duty, last>>
    /\ NextChannel("poll", "switch")
    /\ UNCHANGED <<en, light, alarm, complete, beep, total, onpage, running, ledio, control,
                   mode, old, time, pending, lcd, inputs, ran, bounds>>

\* LightON: the waiting lightoff thread is deleted and the relay closed
LightON == light' = light \cup {ch} /\ pending' = pending \ {ch}
\* mutant: LightOFF, then LightON, which deletes the thread again
LightONthenOFF_Swapped == light' = light \cup {ch} /\ pending' = pending \ {ch}
\* LightON, then LightOFF: a new lightoff thread will open the relay
LightONthenOFF == light' = light \cup {ch} /\ pending' = pending \cup {ch}

\* mutant: now_time_s is not reset
NowAtStart_Kept == UNCHANGED now
NowAtStart == now' = [now EXCEPT ![ch] = 0]

SwitchOn ==
    /\ pc = "switch" /\ ch \in status /\ ch \notin old
    /\ NowAtStart
    /\ en' = en \cup {ch}
    /\ duty' = [duty EXCEPT ![ch] = OnDuty(ch)]
    /\ old' = old \cup {ch}
    /\ LightON
    /\ complete' = IF Automatic THEN complete \ {ch} ELSE complete
    /\ stage' = IF Multistage THEN [stage EXCEPT ![ch] = 0] ELSE stage
    /\ large' = IF Multistage THEN [large EXCEPT ![ch] = 0] ELSE large
    /\ beep' = (beep /\ ch \in hot)
    /\ pc' = "guard"
    /\ UNCHANGED <<alarm, status, total, onpage, running, ledio, control, ch, mode, last, time,
                   lcd, inputs, ran, bounds>>

StayOn ==
    /\ pc = "switch" /\ ch \in status /\ ch \in old
    /\ pc' = "guard"
    /\ UNCHANGED <<pins, shared, ch, mode, old, last, time, stage, large, pending, lcd, inputs,
                   ran, bounds>>

SwitchOff ==
    /\ pc = "switch" /\ ch \notin status /\ ch \in old
    /\ en' = en \ {ch}
    /\ duty' = [duty EXCEPT ![ch] = 0]
    /\ LightONthenOFF
    /\ old' = old \ {ch}
    /\ total' = [total EXCEPT ![ch] = @ + now[ch]]
    /\ pc' = "save"
    /\ UNCHANGED <<alarm, complete, beep, status, now, onpage, running, ledio, control, ch, mode,
                   last, time, stage, large, lcd, inputs, ran, bounds>>

\* nothing to do for the channel, or save() is over
StayOff ==
    /\ \/ pc = "switch" /\ ch \notin status /\ ch \notin old
       \/ pc = "save"
    /\ NextChannel("switch", "exit")
    /\ UNCHANGED <<pins, shared, mode, old, last, time, stage, large, pending, lcd, inputs,
                   ran, bounds>>

\* mutant: the wrong mode ends by itself
TimeOver_Manual(c) == Manual /\ now[c] >= Time
\* the time of an automatic irradiation is over
TimeOver(c) == Automatic /\ now[c] >= Time
\* the stage is over, and with it perhaps the round and the whole irradiation
StageOver(c) == Multistage /\ now[c] >= StageTime[stage[c]]
RoundOver(c) == StageOver(c) /\ stage[c] = NStages - 1
\* mutant: one round too many
RecipeOver_Late(c) == RoundOver(c) /\ large[c] >= Cycle
RecipeOver(c) == RoundOver(c) /\ large[c] + 1 >= Cycle
NextStage(c) == IF stage[c] = NStages - 1 THEN 0 ELSE stage[c] + 1

Guard ==
    /\ pc = "guard"
    /\ beep' = (beep \/ Faulty(ch))
    /\ alarm' = IF Faulty(ch) THEN alarm \cup {ch} ELSE alarm
    /\ status' = IF Faulty(ch) \/ TimeOver(ch) \/ RecipeOver(ch) THEN status \ {ch} ELSE status
    /\ complete' = IF TimeOver(ch) THEN complete \cup {ch} ELSE complete
    /\ IF StageOver(ch)
         THEN /\ total' = [total EXCEPT ![ch] = @ + now[ch]]
              /\ now' = [now EXCEPT ![ch] = 0]
              /\ stage' = [stage EXCEPT ![ch] = NextStage(ch)]
              /\ large' = IF RoundOver(ch) THEN [large EXCEPT ![ch] = @ + 1] ELSE large
              /\ duty' = [duty EXCEPT ![ch] = NextStage(ch) + 1]
         ELSE UNCHANGED <<total, now, stage, large, duty>>
    /\ NextChannel("switch", "exit")
    /\ UNCHANGED <<en, light, onpage, running, ledio, control, mode, old, last, time, pending,
                   lcd, inputs, ran, bounds>>

\* mutant: the thread does not leave while a channel is on
MayExit_Off == ~running /\ status = {}
MayExit == ~running

\* mutant: only the channels that are on are switched off
OutputsOff_IfOn == en' = en \ status /\ duty' = Zero
OutputsOff == en' = {} /\ duty' = Zero

Exit ==
    /\ pc = "exit" /\ MayExit
    /\ OutputsOff /\ old' = {}
    /\ total' = [c \in Chan |-> IF c \in status THEN total[c] + now[c] ELSE total[c]]
    /\ pc' = IF status # {} THEN "exitsave" ELSE "leave"
    /\ UNCHANGED <<light, alarm, complete, beep, status, now, onpage, running, ledio, control, ch,
                   mode, last, time, stage, large, pending, lcd, inputs, ran, bounds>>

StayOnPage ==
    /\ pc = "exit" /\ ~MayExit
    /\ pc' = "sleep"
    /\ UNCHANGED <<pins, shared, ch, mode, old, last, time, stage, large, pending, lcd, inputs,
                   ran, bounds>>

ExitSave ==
    /\ pc = "exitsave"
    /\ pc' = "leave"
    /\ UNCHANGED <<pins, shared, ch, mode, old, last, time, stage, large, pending, lcd, inputs,
                   ran, bounds>>

\* the channels whose relay the leaving thread closes and schedules to open: in the
\* automatic modes the status is cleared before it is tested
RelayOnLeave == IF Manual THEN status ELSE {}

\* mutant: the status survives
StatusOff_Kept == UNCHANGED status
StatusOff == status' = {}

Leave ==
    /\ pc = "leave"
    /\ alarm' = {} /\ beep' = FALSE
    /\ light' = light \cup RelayOnLeave
    /\ pending' = pending \cup RelayOnLeave
    /\ StatusOff
    /\ onpage' = FALSE
    /\ pc' = "none"
    /\ UNCHANGED <<en, duty, complete, now, total, running, ledio, control, ch, mode, old, last,
                   time, stage, large, lcd, inputs, ran, bounds>>

\* rt_thread_mdelay(100) and, once per second, the seconds of the channels that are on
Sleep ==
    /\ pc = "sleep"
    /\ IF time + 1 >= LoopsPerSec
         THEN /\ time' = 0
              /\ now' = [c \in Chan |-> IF c \in status THEN Capped(now[c]) ELSE now[c]]
              /\ ran' = [c \in Chan |-> IF c \in status \cap en /\ now[c] < MaxNow
                                          THEN ran[c] + 1 ELSE ran[c]]
         ELSE time' = time + 1 /\ UNCHANGED <<now, ran>>
    /\ pc' = "flags"
    /\ UNCHANGED <<pins, status, total, onpage, running, ledio, control, ch, mode, old, last,
                   stage, large, pending, lcd, inputs, bounds>>

ShineThread ==
    \/ Start \/ Flags \/ Poll \/ Debounce \/ SwitchOn \/ StayOn \/ SwitchOff \/ StayOff
    \/ Guard \/ Exit \/ StayOnPage \/ ExitSave \/ Leave \/ Sleep

\* lightoff1/lightoff2: delay_time is over
LightOff(c) ==
    /\ c \in pending
    /\ light' = light \ {c}
    /\ pending' = pending \ {c}
    /\ UNCHANGED <<en, duty, alarm, complete, beep, shared, thread, lcd, inputs, ran, bounds>>

-----------------------------------------------------------------------------
(* The lcd_command thread *)

LcdNext ==
    IF lch < NCh THEN lpc' = "edge" /\ lch' = lch + 1
                 ELSE lpc' = "recv" /\ lch' = 0

\* last_state = Read_LedOn
SeeInput == llast' = IF lch \in low THEN llast \cup {lch} ELSE llast \ {lch}

LcdEdge ==
    /\ lpc = "edge"
    /\ IF lch \in low \ llast /\ ~onpage
         THEN /\ ledio' = ledio \cup {lch}
              /\ lpc' = "init"
              /\ UNCHANGED <<lch, llast>>
         ELSE SeeInput /\ LcdNext /\ UNCHANGED ledio
    /\ UNCHANGED <<pins, status, now, total, onpage, running, control, thread, pending, queue,
                   inputs, ran, bounds>>

\* shine_init up to the deletion of the former thread ...
ShineInit ==
    /\ lpc = "init"
    /\ onpage' = TRUE
    /\ lpc' = "create"
    /\ UNCHANGED <<pins, status, now, total, running, ledio, control, thread, pending, lch, llast,
                   queue, inputs, ran, bounds>>

\* ... and the deletion, the creation and the start of the new one
ShineCreate ==
    /\ lpc = "create"
    /\ pc' = "start" /\ mode' = control /\ ch' = 1
    /\ old' = {} /\ stage' = Zero /\ large' = Zero
    /\ IF lch = 0 THEN lpc' = "edge" /\ lch' = 1
                  ELSE lpc' = "run" /\ UNCHANGED lch
    /\ UNCHANGED <<pins, shared, last, time, pending, llast, queue, inputs, ran, bounds>>

\* after a start by an input
LcdRun ==
    /\ lpc = "run"
    /\ running' = TRUE
    /\ page' = "shine"
    /\ SeeInput /\ LcdNext
    /\ UNCHANGED <<pins, status, now, total, onpage, ledio, control, thread, pending, queue,
                   low, dark, hot, ran, bounds>>

Enter ==
    /\ onpage' = TRUE /\ running' = TRUE
    /\ lpc' = "init" /\ lch' = 0
    /\ UNCHANGED status

Back == running' = FALSE /\ lpc' = "edge" /\ lch' = 1 /\ UNCHANGED <<onpage, status>>

OnOff(m) ==
    /\ status' = IF m.btn = "on" THEN status \cup {m.ch} ELSE status \ {m.ch}
    /\ lpc' = "edge" /\ lch' = 1
    /\ UNCHANGED <<onpage, running>>

LcdCommand ==
    /\ lpc = "recv" /\ queue # <<>>
    /\ queue' = Tail(queue)
    /\ LET m == Head(queue) IN
         \/ m.btn = "enter" /\ Enter
         \/ m.btn = "back" /\ Back
         \/ m.btn \in {"on", "off"} /\ OnOff(m)
    /\ UNCHANGED <<pins, now, total, ledio, control, thread, pending, llast, inputs, ran, bounds>>

\* rt_mq_recv gives up after 200 ticks and the inputs are looked at again
LcdTimeout ==
    /\ lpc = "recv" /\ queue = <<>>
    /\ lpc' = "edge" /\ lch' = 1
    /\ UNCHANGED <<pins, shared, thread, pending, llast, queue, inputs, ran, bounds>>

LcdThread == LcdEdge \/ ShineInit \/ ShineCreate \/ LcdRun \/ LcdCommand \/ LcdTimeout

\* a save of the settings page, or register 2 of the RS485 slave
SetMode(m) ==
    /\ control # m
    /\ control' = m
    /\ UNCHANGED <<pins, status, now, total, onpage, running, ledio, thread, pending, lcd, inputs,
                   ran, bounds>>

-----------------------------------------------------------------------------
(* The surroundings *)

\* The panel shows the page it was left on or told to show; a press sends a frame.
Press(b, c) ==
    /\ presses < MaxPress /\ Len(queue) < QueueLen
    /\ page = IF b = "enter" THEN "home" ELSE "shine"
    /\ [btn |-> b, ch |-> c] \in Message
    /\ Patient /\ b = "enter" => pc = "none" /\ queue = <<>> /\ lpc = "recv"
    /\ queue' = Append(queue, [btn |-> b, ch |-> c])
    /\ page' = IF b = "back" THEN "home" ELSE "shine"
    /\ presses' = presses + 1
    /\ UNCHANGED <<pins, shared, thread, pending, lpc, lch, llast, low, dark, hot, ran,
                   edges, faults>>

Flip(set, c) == IF c \in set THEN set \ {c} ELSE set \cup {c}

InputEdge(c) ==
    /\ edges < MaxEdge
    /\ low' = Flip(low, c)
    /\ edges' = edges + 1
    /\ UNCHANGED <<pins, shared, thread, pending, lcd, dark, hot, page, ran, presses, faults>>

TempChange(c) ==
    /\ faults < MaxFault
    /\ hot' = Flip(hot, c)
    /\ faults' = faults + 1
    /\ UNCHANGED <<pins, shared, thread, pending, lcd, low, dark, page, ran, presses, edges>>

FeedbackChange(c) ==
    /\ faults < MaxFault
    /\ dark' = Flip(dark, c)
    /\ faults' = faults + 1
    /\ UNCHANGED <<pins, shared, thread, pending, lcd, low, hot, page, ran, presses, edges>>

Surroundings ==
    \/ \E b \in Buttons, c \in 0 .. NCh : Press(b, c)
    \/ \E c \in Chan : InputEdge(c) \/ TempChange(c) \/ FeedbackChange(c)
    \/ \E m \in ModeSet : SetMode(m)

Next ==
    \/ ShineThread
    \/ \E c \in Chan : LightOff(c)
    \/ LcdThread
    \/ Surroundings

Spec == Init /\ [][Next]_vars

\* Round robin among the threads of priority 20 and delays that end: each thread
\* goes on.  The operator, the inputs and the faults need not come.
FairSpec ==
    /\ Spec
    /\ WF_vars(ShineThread)
    /\ WF_vars(LcdThread)
    /\ \A c \in Chan : WF_vars(LightOff(c))

-----------------------------------------------------------------------------
(* Properties *)

\* A lamp that is on belongs to a live shine thread that knows it switched the lamp
\* on (channelN_old_status): nothing else in the firmware would ever switch it off.
LampOwned == en # {} => pc \notin {"none", "start", "exitsave", "leave"} /\ en \subseteq old

\* A burning lamp has its relay closed and no lightoff thread waits to open it: the
\* delayed opening of an earlier irradiation never hits a later one.
RelayWithLamp == en \subseteq light \ pending

\* A burning lamp has a live owner and a closed relay (shine.c:945, shine.c:43).
LampKept == LampOwned /\ RelayWithLamp

\* When no irradiation thread is left, no channel is marked as on: entering the page
\* again lights nothing by itself.
IdleMeansOff == pc = "none" => status = {}

\* The running time kept for the lamp (hours, minutes, seconds), with the seconds of
\* the irradiation under way, is the time the lamp was on.
TimeBooked == \A c \in Chan : total[c] + (IF c \in old THEN now[c] ELSE 0) = ran[c]

\* the seconds of the stages before s
Before[s \in 0 .. NStages] == IF s = 0 THEN 0 ELSE Before[s - 1] + StageTime[s - 1]

\* An automatic or multistage irradiation that nothing interrupts, after "enter" and "on",
\* lasts exactly its time: channelN.time, or Cycle rounds of all the stages.
UninterruptedLength ==
    ~Manual /\ presses = 2 /\ edges = 0 /\ faults = 0 =>
        \A c \in Chan : c \notin en /\ ran[c] > 0 =>
            ran[c] = IF Automatic THEN Time ELSE Cycle * Before[NStages]

\* channelN.status 0 means off: a lamp whose channel is off goes out, unless the
\* channel is switched on again.
StatusObeyed == \A c \in Chan : c \in en \ status ~> (c \in status \/ c \notin en)

\* A fault that stays (temperature too high or not readable) puts the lamp out,
\* however the operator and the inputs behave.
FaultEndsLamp == \A c \in Chan : <>[](c \in hot) => <>[](c \notin en)

\* The relay of a lamp that is out is opened after the delay.
RelayOpens == \A c \in Chan : c \in light \ en ~> (c \notin light \/ c \in en)

\* An automatic or multistage irradiation comes to its end by itself.
IrradiationEnds == \A c \in Chan : ~Manual /\ c \in en ~> c \notin en

\* "Back" ends the irradiation thread.
BackEnds == (~running /\ pc # "none") ~> (running \/ pc = "none")
=============================================================================
