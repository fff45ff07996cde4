---------------------------- MODULE ShineProofs ----------------------------
(* What holds of the irradiation controller for any number of channels, any *)
(* times and any recipe.                                                    *)
EXTENDS Shine, WellFoundedInduction, TLAPS

\* every declared variable keeps its type
THEOREM TypeCorrect == Spec => []TypeOK
<1>0. NCh \in Nat \ {0} /\ NStages \in Nat \ {0} /\ LoopsPerSec \in Nat \ {0}
  BY ChannelsAssumption, TimesAssumption
<1>1. Init => TypeOK
  <2> SUFFICES ASSUME Init PROVE TypeOK
    OBVIOUS
  <2>1. PinsOK
    <3>1. duty \in [Chan -> 0 .. NStages]
      BY <1>0 DEF Init, Zero
    <3> QED
      BY <3>1 DEF Init, PinsOK
  <2>2. SharedOK
    BY DEF Init, SharedOK, Zero
  <2>3. ThreadOK
    BY <1>0 DEF Init, ThreadOK, Zero, Chan, Pcs
  <2>4. LcdOK
    BY <1>0 DEF Init, LcdOK, Chan, Lpcs
  <2>5. InputsOK
    BY DEF Init, InputsOK, Zero
  <2> QED
    BY <2>1, <2>2, <2>3, <2>4, <2>5 DEF TypeOK
<1>2. TypeOK /\ [Next]_vars => TypeOK'
  <2> SUFFICES ASSUME TypeOK, [Next]_vars PROVE TypeOK'
    OBVIOUS
  <2> PinsOK /\ SharedOK /\ ThreadOK /\ LcdOK /\ InputsOK
    BY DEF TypeOK
  <2>1. CASE Start
    <3>1. PinsOK'
      BY <2>1, <1>0 DEF Start, Automatic, PinsOK, pins, Chan
    <3>2. ThreadOK'
      BY <2>1, <1>0 DEF Start, ThreadOK, InputsOK, Pcs, thread, Chan
    <3>3. SharedOK' /\ LcdOK' /\ InputsOK'
      BY <2>1 DEF Start, SharedOK, LcdOK, InputsOK, shared, lcd, inputs, bounds
    <3> QED
      BY <3>1, <3>2, <3>3 DEF TypeOK
  <2>2. CASE Flags
    <3>1. SharedOK'
      BY <2>2 DEF Flags, SharedOK, shared, Chan
    <3>2. ThreadOK'
      BY <2>2, <1>0 DEF Flags, Manual, ThreadOK, SharedOK, Pcs, thread, Chan
    <3>3. PinsOK' /\ LcdOK' /\ InputsOK'
      BY <2>2 DEF Flags, PinsOK, LcdOK, InputsOK, pins, lcd, inputs, bounds
    <3> QED
      BY <3>1, <3>2, <3>3 DEF TypeOK
  <2>3. CASE Poll
    <3>1. ThreadOK'
      BY <2>3, <1>0 DEF Poll, NextChannel, ThreadOK, Pcs, thread, Chan
    <3>2. PinsOK' /\ SharedOK' /\ LcdOK' /\ InputsOK'
      BY <2>3 DEF Poll, PinsOK, SharedOK, LcdOK, InputsOK, pins, shared, lcd, inputs, bounds
    <3> QED
      BY <3>1, <3>2 DEF TypeOK
  <2>4. CASE Debounce
    <3>1. PinsOK'
      <4>1. duty' \in [Chan -> 0 .. NStages]
        BY <2>4, <1>0 DEF Debounce, Restart, SwitchByInput, PinsOK, ThreadOK
      <4> QED
        BY <2>4, <4>1 DEF Debounce, PinsOK
    <3>2. SharedOK'
      <4>1. status' \subseteq Chan /\ now' \in [Chan -> Nat]
        BY <2>4 DEF Debounce, Restart, SwitchByInput, SharedOK, ThreadOK
      <4> QED
        BY <2>4, <4>1 DEF Debounce, SharedOK
    <3>3. ThreadOK'
      <4>1. stage' \in [Chan -> 0 .. NStages - 1] /\ large' \in [Chan -> Nat]
        BY <2>4, <1>0 DEF Debounce, Restart, SwitchByInput, ThreadOK
      <4>2. last' \subseteq Chan
        BY <2>4 DEF Debounce, ThreadOK
      <4>3. pc' \in Pcs /\ ch' \in Chan
        BY <2>4, <1>0 DEF Debounce, NextChannel, ThreadOK, Pcs, Chan
      <4> QED
        BY <2>4, <4>1, <4>2, <4>3 DEF Debounce, ThreadOK
    <3>4. LcdOK' /\ InputsOK'
      BY <2>4 DEF Debounce, LcdOK, InputsOK, lcd, inputs, bounds
    <3> QED
      BY <3>1, <3>2, <3>3, <3>4 DEF TypeOK
  <2>5. CASE SwitchOn
    <3>1. PinsOK'
      <4>1. stage[ch] + 1 \in 0 .. NStages /\ 1 \in 0 .. NStages
        BY <1>0 DEF ThreadOK
      <4>2. duty' \in [Chan -> 0 .. NStages]
        BY <2>5, <4>1 DEF SwitchOn, OnDuty, PinsOK
      <4> QED
        BY <2>5, <4>2 DEF SwitchOn, LightON, PinsOK, ThreadOK
    <3>2. SharedOK'
      BY <2>5 DEF SwitchOn, NowAtStart, SharedOK, ThreadOK, shared, Chan
    <3>3. ThreadOK'
      BY <2>5, <1>0 DEF SwitchOn, ThreadOK, Pcs, thread, Chan
    <3>4. LcdOK' /\ InputsOK'
      BY <2>5 DEF SwitchOn, LcdOK, InputsOK, lcd, inputs, bounds
    <3> QED
      BY <3>1, <3>2, <3>3, <3>4 DEF TypeOK
  <2>6. CASE StayOn
    <3>1. ThreadOK'
      BY <2>6, <1>0 DEF StayOn, ThreadOK, Pcs, thread, Chan
    <3>2. PinsOK' /\ SharedOK' /\ LcdOK' /\ InputsOK'
      BY <2>6 DEF StayOn, PinsOK, SharedOK, LcdOK, InputsOK, pins, shared, lcd, inputs, bounds
    <3> QED
      BY <3>1, <3>2 DEF TypeOK
  <2>7. CASE SwitchOff
    <3>1. PinsOK'
      <4>1. 0 \in 0 .. NStages
        BY <1>0
      <4>2. duty' \in [Chan -> 0 .. NStages]
        BY <2>7, <4>1 DEF SwitchOff, PinsOK
      <4>3. en' \subseteq Chan /\ alarm' \subseteq Chan /\ complete' \subseteq Chan /\ beep' \in BOOLEAN
        BY <2>7 DEF SwitchOff, PinsOK
      <4>4. light' \subseteq Chan /\ pending' \subseteq Chan
        BY <2>7 DEF SwitchOff, LightONthenOFF, PinsOK, ThreadOK
      <4> QED
        BY <4>2, <4>3, <4>4 DEF PinsOK
    <3>2. SharedOK'
      BY <2>7 DEF SwitchOff, SharedOK, ThreadOK, shared, Chan
    <3>3. ThreadOK'
      BY <2>7, <1>0 DEF SwitchOff, ThreadOK, Pcs, thread, Chan
    <3>4. LcdOK' /\ InputsOK'
      BY <2>7 DEF SwitchOff, LcdOK, InputsOK, lcd, inputs, bounds
    <3> QED
      BY <3>1, <3>2, <3>3, <3>4 DEF TypeOK
  <2>8. CASE StayOff
    <3>1. ThreadOK'
      BY <2>8, <1>0 DEF StayOff, NextChannel, ThreadOK, Pcs, thread, Chan
    <3>2. PinsOK' /\ SharedOK' /\ LcdOK' /\ InputsOK'
      BY <2>8 DEF StayOff, PinsOK, SharedOK, LcdOK, InputsOK, pins, shared, lcd, inputs, bounds
    <3> QED
      BY <3>1, <3>2 DEF TypeOK
  <2>9. CASE Guard
    <3>0. NextStage(ch) \in 0 .. NStages - 1 /\ NextStage(ch) + 1 \in 0 .. NStages
      BY <1>0 DEF NextStage, ThreadOK
    <3>1. PinsOK'
      <4>1. duty' \in [Chan -> 0 .. NStages]
        BY <2>9, <3>0 DEF Guard, PinsOK
      <4> QED
        BY <2>9, <4>1 DEF Guard, PinsOK, ThreadOK
    <3>2. SharedOK'
      BY <2>9 DEF Guard, SharedOK, ThreadOK, shared, Chan
    <3>3. ThreadOK'
      <4>1. stage' \in [Chan -> 0 .. NStages - 1]
        BY <2>9, <3>0 DEF Guard, ThreadOK
      <4>2. large' \in [Chan -> Nat]
        BY <2>9 DEF Guard, ThreadOK
      <4>3. pc' \in Pcs /\ ch' \in Chan
        BY <2>9, <1>0 DEF Guard, NextChannel, ThreadOK, Pcs, Chan
      <4> QED
        BY <2>9, <4>1, <4>2, <4>3 DEF Guard, ThreadOK
    <3>4. LcdOK' /\ InputsOK'
      BY <2>9 DEF Guard, LcdOK, InputsOK, lcd, inputs, bounds
    <3> QED
      BY <3>1, <3>2, <3>3, <3>4 DEF TypeOK
  <2>10. CASE Exit
    <3>1. PinsOK'
      BY <2>10, <1>0 DEF Exit, OutputsOff, Zero, PinsOK, pins, Chan
    <3>2. SharedOK'
      BY <2>10 DEF Exit, SharedOK, shared, Chan
    <3>3. ThreadOK'
      BY <2>10, <1>0 DEF Exit, ThreadOK, Pcs, thread, Chan
    <3>4. LcdOK' /\ InputsOK'
      BY <2>10 DEF Exit, LcdOK, InputsOK, lcd, inputs, bounds
    <3> QED
      BY <3>1, <3>2, <3>3, <3>4 DEF TypeOK
  <2>11. CASE StayOnPage
    <3>1. ThreadOK'
      BY <2>11, <1>0 DEF StayOnPage, ThreadOK, Pcs, thread, Chan
    <3>2. PinsOK' /\ SharedOK' /\ LcdOK' /\ InputsOK'
      BY <2>11 DEF StayOnPage, PinsOK, SharedOK, LcdOK, InputsOK, pins, shared, lcd, inputs, bounds
    <3> QED
      BY <3>1, <3>2 DEF TypeOK
  <2>12. CASE ExitSave
    <3>1. ThreadOK'
      BY <2>12, <1>0 DEF ExitSave, ThreadOK, Pcs, thread, Chan
    <3>2. PinsOK' /\ SharedOK' /\ LcdOK' /\ InputsOK'
      BY <2>12 DEF ExitSave, PinsOK, SharedOK, LcdOK, InputsOK, pins, shared, lcd, inputs, bounds
    <3> QED
      BY <3>1, <3>2 DEF TypeOK
  <2>13. CASE Leave
    <3>1. PinsOK'
      BY <2>13, <1>0 DEF Leave, RelayOnLeave, PinsOK, SharedOK, pins, Chan
    <3>2. SharedOK'
      BY <2>13 DEF Leave, StatusOff, SharedOK, shared, Chan
    <3>3. ThreadOK'
      BY <2>13, <1>0 DEF Leave, ThreadOK, Pcs, thread, Chan
    <3>4. LcdOK' /\ InputsOK'
      BY <2>13 DEF Leave, LcdOK, InputsOK, lcd, inputs, bounds
    <3> QED
      BY <3>1, <3>2, <3>3, <3>4 DEF TypeOK
  <2>14. CASE Sleep
    <3>1. SharedOK'
      BY <2>14 DEF Sleep, Capped, SharedOK, shared, Chan
    <3>2. ThreadOK'
      BY <2>14, <1>0 DEF Sleep, ThreadOK, Pcs, thread, Chan
    <3>3. InputsOK'
      BY <2>14 DEF Sleep, InputsOK, SharedOK, inputs, bounds, Chan
    <3>4. PinsOK' /\ LcdOK'
      BY <2>14 DEF Sleep, PinsOK, LcdOK, pins, lcd
    <3> QED
      BY <3>1, <3>2, <3>3, <3>4 DEF TypeOK
  <2>15. CASE \E c \in Chan : LightOff(c)
    <3>1. PinsOK'
      BY <2>15, <1>0 DEF LightOff, PinsOK, pins, Chan
    <3>2. SharedOK' /\ ThreadOK' /\ LcdOK' /\ InputsOK'
      BY <2>15 DEF LightOff, SharedOK, ThreadOK, LcdOK, InputsOK, shared, thread, lcd, inputs, bounds
    <3> QED
      BY <3>1, <3>2 DEF TypeOK
  <2>16. CASE LcdThread
    <3>1. CASE LcdEdge
      <4>1. SharedOK'
        BY <3>1 DEF LcdEdge, SharedOK, LcdOK, shared, Chan
      <4>2. LcdOK'
        <5>1. lpc' \in Lpcs /\ lch' \in 0 .. NCh /\ (lpc' \in {"edge", "run"} => lch' \in Chan)
          BY <3>1, <1>0 DEF LcdEdge, LcdNext, LcdOK, Lpcs, Chan
        <5>2. llast' \subseteq Chan
          BY <3>1 DEF LcdEdge, SeeInput, LcdOK
        <5> QED
          BY <3>1, <5>1, <5>2 DEF LcdEdge, LcdOK
      <4>3. PinsOK' /\ ThreadOK' /\ InputsOK'
        BY <3>1 DEF LcdEdge, PinsOK, ThreadOK, InputsOK, pins, thread, inputs, bounds
      <4> QED
        BY <4>1, <4>2, <4>3 DEF TypeOK
    <3>2. CASE ShineInit
      <4>1. SharedOK'
        BY <3>2 DEF ShineInit, SharedOK, shared, Chan
      <4>2. LcdOK'
        BY <3>2, <1>0 DEF ShineInit, LcdOK, Lpcs, lcd, Chan
      <4>3. PinsOK' /\ ThreadOK' /\ InputsOK'
        BY <3>2 DEF ShineInit, PinsOK, ThreadOK, InputsOK, pins, thread, inputs, bounds
      <4> QED
        BY <4>1, <4>2, <4>3 DEF TypeOK
    <3>3. CASE ShineCreate
      <4>1. ThreadOK'
        BY <3>3, <1>0 DEF ShineCreate, Zero, ThreadOK, SharedOK, Pcs, thread, Chan
      <4>2. LcdOK'
        BY <3>3, <1>0 DEF ShineCreate, LcdOK, Lpcs, lcd, Chan
      <4>3. PinsOK' /\ SharedOK' /\ InputsOK'
        BY <3>3 DEF ShineCreate, PinsOK, SharedOK, InputsOK, pins, shared, inputs, bounds
      <4> QED
        BY <4>1, <4>2, <4>3 DEF TypeOK
    <3>4. CASE LcdRun
      <4>1. SharedOK'
        BY <3>4 DEF LcdRun, SharedOK, shared, Chan
      <4>2. LcdOK'
        BY <3>4, <1>0 DEF LcdRun, LcdNext, SeeInput, LcdOK, Lpcs, lcd, Chan
      <4>3. InputsOK'
        BY <3>4 DEF LcdRun, InputsOK, inputs, bounds, Chan
      <4>4. PinsOK' /\ ThreadOK'
        BY <3>4 DEF LcdRun, PinsOK, ThreadOK, pins, thread
      <4> QED
        BY <4>1, <4>2, <4>3, <4>4 DEF TypeOK
    <3>5. CASE LcdCommand
      <4>1. SharedOK'
        <5>1. status' \subseteq Chan
          <6>1. Head(queue) \in Message
            BY <3>5 DEF LcdCommand, LcdOK
          <6> QED
            BY <3>5, <6>1 DEF LcdCommand, Enter, Back, OnOff, SharedOK, Message
        <5>2. onpage' \in BOOLEAN /\ running' \in BOOLEAN
          BY <3>5 DEF LcdCommand, Enter, Back, OnOff, SharedOK
        <5> QED
          BY <3>5, <5>1, <5>2 DEF LcdCommand, SharedOK
      <4>2. LcdOK'
        BY <3>5, <1>0 DEF LcdCommand, Enter, Back, OnOff, LcdOK, Lpcs, lcd, Chan
      <4>3. PinsOK' /\ ThreadOK' /\ InputsOK'
        BY <3>5 DEF LcdCommand, PinsOK, ThreadOK, InputsOK, pins, thread, inputs, bounds
      <4> QED
        BY <4>1, <4>2, <4>3 DEF TypeOK
    <3>6. CASE LcdTimeout
      <4>1. LcdOK'
        BY <3>6, <1>0 DEF LcdTimeout, LcdOK, Lpcs, lcd, Chan
      <4>2. PinsOK' /\ SharedOK' /\ ThreadOK' /\ InputsOK'
        BY <3>6 DEF LcdTimeout, PinsOK, SharedOK, ThreadOK, InputsOK, pins, shared, thread, inputs, bounds
      <4> QED
        BY <4>1, <4>2 DEF TypeOK
    <3> QED
      BY <2>16, <3>1, <3>2, <3>3, <3>4, <3>5, <3>6 DEF LcdThread
  <2>17. CASE Surroundings
    <3>1. CASE \E b \in Buttons, c \in 0 .. NCh : Press(b, c)
      <4>1. LcdOK'
        <5>1. PICK b \in Buttons, c \in 0 .. NCh : Press(b, c)
          BY <3>1
        <5>2. [btn |-> b, ch |-> c] \in Message
          BY <5>1 DEF Press
        <5> QED
          BY <5>1, <5>2 DEF Press, LcdOK
      <4>2. InputsOK'
        BY <3>1 DEF Press, InputsOK, inputs, bounds, Chan
      <4>3. PinsOK' /\ SharedOK' /\ ThreadOK'
        BY <3>1 DEF Press, PinsOK, SharedOK, ThreadOK, pins, shared, thread
      <4> QED
        BY <4>1, <4>2, <4>3 DEF TypeOK
    <3>2. CASE \E c \in Chan : InputEdge(c) \/ TempChange(c) \/ FeedbackChange(c)
      <4>1. InputsOK'
        <5>1. PICK c \in Chan : InputEdge(c) \/ TempChange(c) \/ FeedbackChange(c)
          BY <3>2
        <5>2. \A set \in SUBSET Chan : Flip(set, c) \subseteq Chan
          BY DEF Flip
        <5>3. CASE InputEdge(c)
          BY <5>2, <5>3 DEF InputEdge, InputsOK
        <5>4. CASE TempChange(c)
          BY <5>2, <5>4 DEF TempChange, InputsOK
        <5>5. CASE FeedbackChange(c)
          BY <5>2, <5>5 DEF FeedbackChange, InputsOK
        <5> QED
          BY <5>1, <5>3, <5>4, <5>5
      <4>2. PinsOK' /\ SharedOK' /\ ThreadOK' /\ LcdOK'
        BY <3>2 DEF InputEdge, TempChange, FeedbackChange, PinsOK, SharedOK, ThreadOK, LcdOK, pins, shared, thread, lcd
      <4> QED
        BY <4>1, <4>2 DEF TypeOK
    <3>3. CASE \E m \in ModeSet : SetMode(m)
      <4>1. SharedOK'
        BY <3>3 DEF SetMode, SharedOK, shared, Chan
      <4>2. PinsOK' /\ ThreadOK' /\ LcdOK' /\ InputsOK'
        BY <3>3 DEF SetMode, PinsOK, ThreadOK, LcdOK, InputsOK, pins, thread, lcd, inputs, bounds
      <4> QED
        BY <4>1, <4>2 DEF TypeOK
    <3> QED
      BY <2>17, <3>1, <3>2, <3>3 DEF Surroundings
  <2>18. CASE UNCHANGED vars
    BY <2>18 DEF vars, pins, shared, thread, lcd, inputs, bounds, TypeOK, PinsOK, SharedOK,
       ThreadOK, LcdOK, InputsOK
  <2> QED
    BY <2>1, <2>2, <2>3, <2>4, <2>5, <2>6, <2>7, <2>8, <2>9, <2>10, <2>11, <2>12, <2>13, <2>14,
       <2>15, <2>16, <2>17, <2>18 DEF Next, ShineThread
<1> QED
  BY <1>1, <1>2, PTL DEF Spec

-----------------------------------------------------------------------------
(* The lamp and its thread.  LampOwned and RelayWithLamp are not inductive: a new *)
(* thread starts with no channel in old, so no thread that is still alive may be   *)
(* replaced.  An input starts one only when on_shine_page is false, and a patient  *)
(* operator enters only when none is left.                                         *)

\* on_shine_page is set while there is a thread, and before one is created
PageWithThread ==
    /\ pc # "none" => onpage
    /\ lpc = "create" => onpage

\* shine_init finds no thread to delete
NoneReplaced == lpc \in {"init", "create"} => pc = "none"

\* an unread "enter" is the next message, and lcd_command is about to read it
EnterNext ==
    \A i \in 1 .. Len(queue) :
        queue[i].btn = "enter" => i = 1 /\ lpc = "recv" /\ pc = "none"

LampInv == LampOwned /\ RelayWithLamp /\ PageWithThread /\ NoneReplaced /\ EnterNext

\* With a patient operator every step of a thread, the operator or the inputs keeps LampInv.
LEMMA LampInvariant == ASSUME Patient PROVE Spec => []LampInv
<1>1. Init => LampInv
  BY DEF Init, LampInv, LampOwned, RelayWithLamp, PageWithThread, NoneReplaced, EnterNext
<1>2. TypeOK /\ LampInv /\ [Next]_vars => LampInv'
  <2> SUFFICES ASSUME TypeOK, LampInv, [Next]_vars PROVE LampInv'
    OBVIOUS
  <2> LampOwned /\ RelayWithLamp /\ PageWithThread /\ NoneReplaced /\ EnterNext
    BY DEF LampInv
  <2> queue \in Seq(Message)
    BY DEF TypeOK, LcdOK

  <2>1. CASE Start
    <3>1. LampOwned' /\ RelayWithLamp'
      BY <2>1 DEF Start, LampOwned, RelayWithLamp, NoneReplaced, pins, shared, thread, lcd
    <3>2. PageWithThread' /\ NoneReplaced' /\ EnterNext'
      BY <2>1 DEF Start, PageWithThread, NoneReplaced, EnterNext, pins, shared, thread, lcd
    <3> QED
      BY <3>1, <3>2 DEF LampInv
  <2>2. CASE Flags
    <3>1. LampOwned' /\ RelayWithLamp'
      BY <2>2 DEF Flags, LampOwned, RelayWithLamp, NoneReplaced, pins, shared, thread, lcd
    <3>2. PageWithThread' /\ NoneReplaced' /\ EnterNext'
      BY <2>2 DEF Flags, PageWithThread, NoneReplaced, EnterNext, pins, shared, thread, lcd
    <3> QED
      BY <3>1, <3>2 DEF LampInv
  <2>3. CASE Poll
    <3>1. LampOwned' /\ RelayWithLamp'
      BY <2>3 DEF Poll, NextChannel, LampOwned, RelayWithLamp, NoneReplaced, pins, shared, thread, lcd
    <3>2. PageWithThread' /\ NoneReplaced' /\ EnterNext'
      BY <2>3 DEF Poll, NextChannel, PageWithThread, NoneReplaced, EnterNext, pins, shared, thread, lcd
    <3> QED
      BY <3>1, <3>2 DEF LampInv
  <2>4. CASE Debounce
    <3>1. LampOwned' /\ RelayWithLamp'
      BY <2>4 DEF Debounce, NextChannel, LampOwned, RelayWithLamp, NoneReplaced, pins, shared, thread, lcd
    <3>2. PageWithThread' /\ NoneReplaced' /\ EnterNext'
      BY <2>4 DEF Debounce, NextChannel, PageWithThread, NoneReplaced, EnterNext, pins, shared, thread, lcd
    <3> QED
      BY <3>1, <3>2 DEF LampInv
  <2>5. CASE SwitchOn
    <3>1. LampOwned' /\ RelayWithLamp'
      BY <2>5 DEF SwitchOn, LightON, LampOwned, RelayWithLamp, NoneReplaced, pins, shared, thread, lcd
    <3>2. PageWithThread' /\ NoneReplaced' /\ EnterNext'
      BY <2>5 DEF SwitchOn, LightON, PageWithThread, NoneReplaced, EnterNext, pins, shared, thread, lcd
    <3> QED
      BY <3>1, <3>2 DEF LampInv
  <2>6. CASE StayOn
    <3>1. LampOwned' /\ RelayWithLamp'
      BY <2>6 DEF StayOn, LampOwned, RelayWithLamp, NoneReplaced, pins, shared, thread, lcd
    <3>2. PageWithThread' /\ NoneReplaced' /\ EnterNext'
      BY <2>6 DEF StayOn, PageWithThread, NoneReplaced, EnterNext, pins, shared, thread, lcd
    <3> QED
      BY <3>1, <3>2 DEF LampInv
  <2>7. CASE SwitchOff
    <3>1. LampOwned' /\ RelayWithLamp'
      BY <2>7 DEF SwitchOff, LightONthenOFF, LampOwned, RelayWithLamp, NoneReplaced, pins, shared, thread, lcd
    <3>2. PageWithThread' /\ NoneReplaced' /\ EnterNext'
      BY <2>7 DEF SwitchOff, LightONthenOFF, PageWithThread, NoneReplaced, EnterNext, pins, shared, thread, lcd
    <3> QED
      BY <3>1, <3>2 DEF LampInv
  <2>8. CASE StayOff
    <3>1. LampOwned' /\ RelayWithLamp'
      BY <2>8 DEF StayOff, NextChannel, LampOwned, RelayWithLamp, NoneReplaced, pins, shared, thread, lcd
    <3>2. PageWithThread' /\ NoneReplaced' /\ EnterNext'
      BY <2>8 DEF StayOff, NextChannel, PageWithThread, NoneReplaced, EnterNext, pins, shared, thread, lcd
    <3> QED
      BY <3>1, <3>2 DEF LampInv
  <2>9. CASE Guard
    <3>1. LampOwned' /\ RelayWithLamp'
      BY <2>9 DEF Guard, NextChannel, LampOwned, RelayWithLamp, NoneReplaced, pins, shared, thread, lcd
    <3>2. PageWithThread' /\ NoneReplaced' /\ EnterNext'
      BY <2>9 DEF Guard, NextChannel, PageWithThread, NoneReplaced, EnterNext, pins, shared, thread, lcd
    <3> QED
      BY <3>1, <3>2 DEF LampInv
  <2>10. CASE Exit
    <3>1. LampOwned' /\ RelayWithLamp'
      BY <2>10 DEF Exit, OutputsOff, LampOwned, RelayWithLamp, NoneReplaced, pins, shared, thread, lcd
    <3>2. PageWithThread' /\ NoneReplaced' /\ EnterNext'
      BY <2>10 DEF Exit, OutputsOff, PageWithThread, NoneReplaced, EnterNext, pins, shared, thread, lcd
    <3> QED
      BY <3>1, <3>2 DEF LampInv
  <2>11. CASE StayOnPage
    <3>1. LampOwned' /\ RelayWithLamp'
      BY <2>11 DEF StayOnPage, LampOwned, RelayWithLamp, NoneReplaced, pins, shared, thread, lcd
    <3>2. PageWithThread' /\ NoneReplaced' /\ EnterNext'
      BY <2>11 DEF StayOnPage, PageWithThread, NoneReplaced, EnterNext, pins, shared, thread, lcd
    <3> QED
      BY <3>1, <3>2 DEF LampInv
  <2>12. CASE ExitSave
    <3>1. LampOwned' /\ RelayWithLamp'
      BY <2>12 DEF ExitSave, LampOwned, RelayWithLamp, NoneReplaced, pins, shared, thread, lcd
    <3>2. PageWithThread' /\ NoneReplaced' /\ EnterNext'
      BY <2>12 DEF ExitSave, PageWithThread, NoneReplaced, EnterNext, pins, shared, thread, lcd
    <3> QED
      BY <3>1, <3>2 DEF LampInv
  <2>13. CASE Leave
    <3>1. LampOwned' /\ RelayWithLamp'
      BY <2>13 DEF Leave, LampOwned, RelayWithLamp, NoneReplaced, pins, shared, thread, lcd
    <3>2. PageWithThread' /\ NoneReplaced' /\ EnterNext'
      BY <2>13 DEF Leave, PageWithThread, NoneReplaced, EnterNext, pins, shared, thread, lcd
    <3> QED
      BY <3>1, <3>2 DEF LampInv
  <2>14. CASE Sleep
    <3>1. LampOwned' /\ RelayWithLamp'
      BY <2>14 DEF Sleep, LampOwned, RelayWithLamp, NoneReplaced, pins, shared, thread, lcd
    <3>2. PageWithThread' /\ NoneReplaced' /\ EnterNext'
      BY <2>14 DEF Sleep, PageWithThread, NoneReplaced, EnterNext, pins, shared, thread, lcd
    <3> QED
      BY <3>1, <3>2 DEF LampInv
  <2>15. CASE \E c \in Chan : LightOff(c)
    <3>1. LampOwned' /\ RelayWithLamp'
      BY <2>15 DEF LightOff, LampOwned, RelayWithLamp, NoneReplaced, shared, thread, lcd
    <3>2. PageWithThread' /\ NoneReplaced' /\ EnterNext'
      BY <2>15 DEF LightOff, PageWithThread, NoneReplaced, EnterNext, shared, thread, lcd
    <3> QED
      BY <3>1, <3>2 DEF LampInv
  <2>16. CASE LcdThread
    <3>1. CASE LcdEdge
      <4>1. LampOwned' /\ RelayWithLamp'
        BY <3>1 DEF LcdEdge, LcdNext, SeeInput, LampOwned, RelayWithLamp, NoneReplaced, pins, shared, thread
      <4>2. PageWithThread' /\ NoneReplaced' /\ EnterNext'
        BY <3>1 DEF LcdEdge, LcdNext, SeeInput, PageWithThread, NoneReplaced, EnterNext, pins, shared, thread
      <4> QED
        BY <4>1, <4>2 DEF LampInv
    <3>2. CASE ShineInit
      <4>1. LampOwned' /\ RelayWithLamp'
        BY <3>2 DEF ShineInit, LampOwned, RelayWithLamp, NoneReplaced, pins, shared, thread
      <4>2. PageWithThread' /\ NoneReplaced' /\ EnterNext'
        BY <3>2 DEF ShineInit, PageWithThread, NoneReplaced, EnterNext, pins, shared, thread
      <4> QED
        BY <4>1, <4>2 DEF LampInv
    <3>3. CASE ShineCreate
      <4>1. LampOwned' /\ RelayWithLamp'
        BY <3>3 DEF ShineCreate, LampOwned, RelayWithLamp, NoneReplaced, pins, shared, thread
      <4>2. PageWithThread' /\ NoneReplaced' /\ EnterNext'
        BY <3>3 DEF ShineCreate, PageWithThread, NoneReplaced, EnterNext, pins, shared, thread
      <4> QED
        BY <4>1, <4>2 DEF LampInv
    <3>4. CASE LcdRun
      <4>1. LampOwned' /\ RelayWithLamp'
        BY <3>4 DEF LcdRun, LcdNext, SeeInput, LampOwned, RelayWithLamp, NoneReplaced, pins, shared, thread
      <4>2. PageWithThread' /\ NoneReplaced' /\ EnterNext'
        BY <3>4 DEF LcdRun, LcdNext, SeeInput, PageWithThread, NoneReplaced, EnterNext, pins, shared, thread
      <4> QED
        BY <4>1, <4>2 DEF LampInv
    <3>5. CASE LcdCommand
      <4>1. LampOwned' /\ RelayWithLamp'
        BY <3>5 DEF LcdCommand, Enter, Back, OnOff, LampOwned, RelayWithLamp, NoneReplaced, pins, shared, thread
      <4>2. PageWithThread' /\ NoneReplaced' /\ EnterNext'
        BY <3>5 DEF LcdCommand, Enter, Back, OnOff, PageWithThread, NoneReplaced, EnterNext, pins, shared, thread
      <4> QED
        BY <4>1, <4>2 DEF LampInv
    <3>6. CASE LcdTimeout
      <4>1. LampOwned' /\ RelayWithLamp'
        BY <3>6 DEF LcdTimeout, LampOwned, RelayWithLamp, NoneReplaced, pins, shared, thread
      <4>2. PageWithThread' /\ NoneReplaced' /\ EnterNext'
        BY <3>6 DEF LcdTimeout, PageWithThread, NoneReplaced, EnterNext, pins, shared, thread
      <4> QED
        BY <4>1, <4>2 DEF LampInv
    <3> QED
      BY <2>16, <3>1, <3>2, <3>3, <3>4, <3>5, <3>6 DEF LcdThread
  <2>17. CASE Surroundings
    <3>1. CASE \E b \in Buttons, c \in 0 .. NCh : Press(b, c)
      <4>1. LampOwned' /\ RelayWithLamp'
        BY <3>1 DEF Press, LampOwned, RelayWithLamp, NoneReplaced, pins, shared, thread
      <4>2. PageWithThread' /\ NoneReplaced' /\ EnterNext'
        BY <3>1 DEF Press, PageWithThread, NoneReplaced, EnterNext, pins, shared, thread
      <4> QED
        BY <4>1, <4>2 DEF LampInv
    <3>2. CASE \E c \in Chan : InputEdge(c) \/ TempChange(c) \/ FeedbackChange(c)
      <4>1. LampOwned' /\ RelayWithLamp'
        BY <3>2 DEF InputEdge, TempChange, FeedbackChange, LampOwned, RelayWithLamp, NoneReplaced, pins, shared, thread, lcd
      <4>2. PageWithThread' /\ NoneReplaced' /\ EnterNext'
        BY <3>2 DEF InputEdge, TempChange, FeedbackChange, PageWithThread, NoneReplaced, EnterNext, pins, shared, thread, lcd
      <4> QED
        BY <4>1, <4>2 DEF LampInv
    <3>3. CASE \E m \in ModeSet : SetMode(m)
      <4>1. LampOwned' /\ RelayWithLamp'
        BY <3>3 DEF SetMode, LampOwned, RelayWithLamp, NoneReplaced, pins, thread, lcd
      <4>2. PageWithThread' /\ NoneReplaced' /\ EnterNext'
        BY <3>3 DEF SetMode, PageWithThread, NoneReplaced, EnterNext, pins, thread, lcd
      <4> QED
        BY <4>1, <4>2 DEF LampInv
    <3> QED
      BY <2>17, <3>1, <3>2, <3>3 DEF Surroundings
  <2>18. CASE UNCHANGED vars
    BY <2>18 DEF vars, pins, shared, thread, lcd, LampInv, LampOwned, RelayWithLamp,
       PageWithThread, NoneReplaced, EnterNext
  <2> QED
    BY <2>1, <2>2, <2>3, <2>4, <2>5, <2>6, <2>7, <2>8, <2>9, <2>10, <2>11, <2>12, <2>13, <2>14,
       <2>15, <2>16, <2>17, <2>18 DEF Next, ShineThread
<1> QED
  BY <1>1, <1>2, TypeCorrect, PTL DEF Spec

\* With an operator who enters the irradiation page only when the last irradiation
\* thread is gone, a lamp that is on always belongs to a thread that will switch it off
\* and keeps its relay, whatever the inputs, the faults and the settings do.
THEOREM LampSafe == ASSUME Patient PROVE Spec => []LampKept
<1>1. LampInv => LampKept
  BY DEF LampInv, LampKept
<1> QED
  BY <1>1, LampInvariant, PTL

-----------------------------------------------------------------------------
(* From "enter" to "back".  What follows needs more than a patient operator: the   *)
(* inputs keep their level (MaxEdge = 0), since after a start by an input          *)
(* read_temp_running is set behind the back of a thread that may be gone already.  *)

\* no input starts or restarts an irradiation
Quiet ==
    /\ edges = 0 /\ llast = low /\ ledio = {}
    /\ lpc # "run" /\ (lpc \in {"init", "create"} => lch = 0)
    /\ pc \notin {"none", "start"} => last = low

EnterUnread == queue # <<>> /\ queue[1].btn = "enter"

\* What the panel sends between "enter" and "back" is for a thread that is there, and
\* nothing follows "back".
Session ==
    /\ page = "shine" \/ queue # <<>> => running \/ EnterUnread
    /\ \A i \in 1 .. Len(queue) : queue[i].btn = "back" => i = Len(queue) /\ page = "home"
    /\ running => pc \notin {"exitsave", "leave"} /\ (pc = "none" => lpc \in {"init", "create"})

SessionInv == Quiet /\ Session /\ IdleMeansOff

\* Without "back" the thread never ends, and old tells which lamps are on.
Endless ==
    /\ pc \notin {"exitsave", "leave"} /\ (pc # "none" => running)
    /\ lpc \in {"init", "create"} => running
    /\ \A i \in 1 .. Len(queue) : queue[i].btn # "back"
    /\ old \subseteq en /\ (pc = "none" => old = {}) /\ (pc = "guard" => ch \in old)

BookInv == Quiet /\ Endless /\ TimeBooked

\* What the irradiation thread leaves alone.
LEMMA ShineFrame ==
    ShineThread => /\ UNCHANGED <<running, control, lcd, inputs, bounds>>
                   /\ pc # "none"
                   /\ pc' = "none" => pc = "leave" /\ status' = {}
                   /\ pc' \in {"exitsave", "leave"} => pc = "exitsave" \/ ~running
                   /\ pc' # "start"
<1>1. CASE Start
  BY <1>1 DEF Start, shared
<1>2. CASE Flags
  BY <1>2 DEF Flags
<1>3. CASE Poll
  BY <1>3 DEF Poll, NextChannel, shared
<1>4. CASE Debounce
  BY <1>4 DEF Debounce, NextChannel
<1>5. CASE SwitchOn
  BY <1>5 DEF SwitchOn
<1>6. CASE StayOn
  BY <1>6 DEF StayOn, shared
<1>7. CASE SwitchOff
  BY <1>7 DEF SwitchOff
<1>8. CASE StayOff
  BY <1>8 DEF StayOff, NextChannel, shared
<1>9. CASE Guard
  BY <1>9 DEF Guard, NextChannel
<1>10. CASE Exit
  BY <1>10 DEF Exit, MayExit
<1>11. CASE StayOnPage
  BY <1>11 DEF StayOnPage, shared
<1>12. CASE ExitSave
  BY <1>12 DEF ExitSave, shared
<1>13. CASE Leave
  BY <1>13 DEF Leave, StatusOff
<1>14. CASE Sleep
  BY <1>14 DEF Sleep
<1>15. QED
  BY <1>1, <1>2, <1>3, <1>4, <1>5, <1>6, <1>7, <1>8, <1>9, <1>10, <1>11, <1>12, <1>13, <1>14
     DEF ShineThread

\* Inputs that keep their level are never seen to have changed.
LEMMA QuietStep == TypeOK /\ Quiet /\ [Next]_vars /\ edges' = 0 => Quiet'
<1> SUFFICES ASSUME TypeOK, Quiet, [Next]_vars, edges' = 0 PROVE Quiet'
  OBVIOUS
<1>1. CASE ShineThread
  <2>1. UNCHANGED <<edges, llast, low, lpc, lch>> /\ pc # "none"
    BY <1>1, ShineFrame DEF lcd, inputs, bounds
  <2>2. ledio' = {}
    BY <1>1 DEF ShineThread, Start, Flags, Poll, Debounce, SwitchOn, StayOn, SwitchOff, StayOff, Guard,
       Exit, StayOnPage, ExitSave, Leave, Sleep, Quiet, shared
  <2>3. last' = low
    BY <1>1, <2>1 DEF ShineThread, Start, Flags, Poll, Debounce, SwitchOn, StayOn, SwitchOff, StayOff,
       Guard, Exit, StayOnPage, ExitSave, Leave, Sleep, Quiet, Changed
  <2>4. QED
    BY <2>1, <2>2, <2>3 DEF Quiet
<1>2. ASSUME NEW c \in Chan, LightOff(c) PROVE Quiet'
  BY <1>2 DEF LightOff, Quiet, shared, thread, lcd, inputs, bounds
<1>3. CASE LcdThread
  <2>1. UNCHANGED <<edges, low, last>>
    BY <1>3 DEF LcdThread, LcdEdge, ShineInit, ShineCreate, LcdRun, LcdCommand, LcdTimeout, thread,
       inputs, bounds
  <2>2. CASE LcdEdge
    BY <2>1, <2>2 DEF LcdEdge, LcdNext, SeeInput, Quiet, thread, TypeOK, InputsOK
  <2>3. CASE ShineInit
    BY <2>1, <2>3 DEF ShineInit, Quiet, thread
  <2>4. CASE ShineCreate
    BY <2>1, <2>4 DEF ShineCreate, Quiet, shared
  <2>5. CASE LcdRun
    BY <2>5 DEF LcdRun, Quiet
  <2>6. CASE LcdCommand
    BY <2>1, <2>6 DEF LcdCommand, Enter, Back, OnOff, Quiet, thread
  <2>7. CASE LcdTimeout
    BY <2>1, <2>7 DEF LcdTimeout, Quiet, shared, thread
  <2>8. QED
    BY <1>3, <2>2, <2>3, <2>4, <2>5, <2>6, <2>7 DEF LcdThread
<1>4. CASE Surroundings
  <2>1. UNCHANGED <<pc, last, ledio, lpc, lch, llast>>
    BY <1>4 DEF Surroundings, Press, InputEdge, TempChange, FeedbackChange, SetMode, shared, thread, lcd
  <2>2. UNCHANGED <<edges, low>>
    <3>1. ASSUME NEW c \in Chan, InputEdge(c) PROVE FALSE
      BY <3>1 DEF InputEdge, Quiet
    <3>2. QED
      BY <1>4, <3>1 DEF Surroundings, Press, TempChange, FeedbackChange, SetMode, inputs, bounds
  <2>3. QED
    BY <2>1, <2>2 DEF Quiet
<1>5. CASE UNCHANGED vars
  BY <1>5 DEF vars, Quiet, shared, thread, lcd, inputs, bounds
<1>6. QED
  BY <1>1, <1>2, <1>3, <1>4, <1>5 DEF Next

LEMMA NoEdge == ASSUME MaxEdge = 0 PROVE Quiet /\ [Next]_vars => edges' = 0
<1> SUFFICES ASSUME Quiet, [Next]_vars PROVE edges' = 0
  OBVIOUS
<1>1. edges = 0
  BY DEF Quiet
<1>2. CASE ShineThread
  BY <1>1, <1>2, ShineFrame DEF bounds
<1>3. ASSUME NEW c \in Chan, LightOff(c) PROVE edges' = 0
  BY <1>1, <1>3 DEF LightOff, bounds
<1>4. CASE LcdThread
  BY <1>1, <1>4 DEF LcdThread, LcdEdge, ShineInit, ShineCreate, LcdRun, LcdCommand, LcdTimeout, bounds
<1>5. CASE Surroundings
  <2>1. ASSUME NEW c \in Chan PROVE ~InputEdge(c)
    BY <1>1 DEF InputEdge
  <2>2. edges' = edges
    BY <1>5, <2>1 DEF Surroundings, Press, TempChange, FeedbackChange, SetMode, bounds
  <2> QED
    BY <1>1, <2>2
<1>6. CASE UNCHANGED vars
  BY <1>1, <1>6 DEF vars, bounds
<1> QED
  BY <1>2, <1>3, <1>4, <1>5, <1>6 DEF Next

\* The messages of the panel keep to the irradiations they were meant for.
LEMMA SessionStep ==
    ASSUME Patient
    PROVE  TypeOK /\ LampInv /\ SessionInv /\ [Next]_vars => (Session /\ IdleMeansOff)'
<1> SUFFICES ASSUME TypeOK, LampInv, SessionInv, [Next]_vars PROVE (Session /\ IdleMeansOff)'
  OBVIOUS
<1> Quiet /\ Session /\ IdleMeansOff /\ NoneReplaced /\ EnterNext /\ queue \in Seq(Message)
  BY DEF SessionInv, LampInv, TypeOK, LcdOK
<1>1. CASE ShineThread
  <2>1. UNCHANGED <<running, page, queue, lpc>>
    BY <1>1, ShineFrame DEF lcd, inputs
  <2>2. QED
    BY <1>1, <2>1, ShineFrame DEF Session, IdleMeansOff, EnterUnread
<1>2. ASSUME NEW c \in Chan, LightOff(c) PROVE (Session /\ IdleMeansOff)'
  BY <1>2 DEF LightOff, Session, IdleMeansOff, EnterUnread, shared, thread, lcd, inputs
<1>3. CASE LcdThread
  <2>1. CASE LcdEdge
    <3>1. lpc' # "init" /\ UNCHANGED <<running, page, queue, pc, status>> /\ lpc \notin {"init", "create"}
      BY <2>1 DEF LcdEdge, LcdNext, Quiet, inputs, thread
    <3>2. QED
      BY <3>1 DEF Session, IdleMeansOff, EnterUnread
  <2>2. CASE ShineInit
    BY <2>2 DEF ShineInit, Session, IdleMeansOff, EnterUnread, inputs, thread
  <2>3. CASE ShineCreate
    BY <2>3 DEF ShineCreate, Session, IdleMeansOff, EnterUnread, inputs, shared
  <2>4. CASE LcdRun
    BY <2>4 DEF LcdRun, Quiet
  <2>5. CASE LcdCommand
    <3> DEFINE m == Head(queue)
    <3>1. /\ queue # <<>> /\ queue' = Tail(queue) /\ lpc = "recv" /\ UNCHANGED <<pc, page>>
          /\ m = queue[1] /\ m \in Message
      BY <2>5 DEF LcdCommand, inputs, thread
    <3>2. /\ Len(queue') = Len(queue) - 1 /\ Len(queue) \in Nat \ {0}
          /\ \A i \in 1 .. Len(queue') : queue'[i] = queue[i + 1] /\ i + 1 \in 1 .. Len(queue)
      BY <3>1
    <3> HIDE DEF m
    <3>3. \A i \in 1 .. Len(queue') : queue'[i].btn = "back" => i = Len(queue') /\ page' = "home"
      <4> SUFFICES ASSUME NEW i \in 1 .. Len(queue'), queue'[i].btn = "back"
                   PROVE  i = Len(queue') /\ page' = "home"
        OBVIOUS
      <4>1. queue[i + 1].btn = "back" /\ i + 1 \in 1 .. Len(queue)
        BY <3>2
      <4>2. i + 1 = Len(queue) /\ page = "home"
        BY <4>1 DEF Session
      <4>3. page' = "home"
        BY <3>1, <4>2
      <4>4. i \in Nat /\ i = Len(queue) - 1
        BY <4>2, <3>2
      <4>5. QED
        BY <3>2, <4>3, <4>4
    <3>4. CASE m.btn = "enter"
      <4>1. running' /\ lpc' = "init" /\ UNCHANGED status /\ pc = "none"
        BY <2>5, <3>1, <3>2, <3>4 DEF LcdCommand, Enter, m, EnterNext
      <4>2. QED
        BY <3>1, <3>3, <4>1 DEF Session, IdleMeansOff
    <3>5. CASE m.btn = "back"
      <4>1. ~running' /\ UNCHANGED status
        BY <2>5, <3>1, <3>5 DEF LcdCommand, Back, m
      <4>2. queue' = <<>> /\ page = "home"
        <5>1. 1 \in 1 .. Len(queue)
          BY <3>2
        <5>2. Len(queue) = 1 /\ page = "home"
          BY <3>1, <3>5, <5>1 DEF Session
        <5>3. QED
          BY <3>1, <5>2
      <4>3. QED
        BY <3>1, <4>1, <4>2 DEF Session, IdleMeansOff
    <3>6. CASE m.btn \in {"on", "off"}
      <4>1. running
        BY <3>1, <3>6 DEF Session, EnterUnread
      <4>2. running' /\ pc # "none"
        BY <2>5, <3>1, <3>6, <4>1 DEF LcdCommand, OnOff, m, Session
      <4>3. QED
        BY <3>1, <3>3, <4>1, <4>2 DEF Session, IdleMeansOff
    <3>7. QED
      BY <3>1, <3>4, <3>5, <3>6 DEF Message
  <2>6. CASE LcdTimeout
    BY <2>6 DEF LcdTimeout, Session, IdleMeansOff, EnterUnread, inputs, shared, thread
  <2>7. QED
    BY <1>3, <2>1, <2>2, <2>3, <2>4, <2>5, <2>6 DEF LcdThread
<1>4. ASSUME NEW b \in Buttons, NEW c \in 0 .. NCh, Press(b, c) PROVE (Session /\ IdleMeansOff)'
  <2> DEFINE m == [btn |-> b, ch |-> c]
  <2>1. /\ page = (IF b = "enter" THEN "home" ELSE "shine") /\ page' = (IF b = "back" THEN "home" ELSE "shine")
        /\ queue' = Append(queue, m) /\ m \in Message
        /\ b = "enter" => queue = <<>>
        /\ UNCHANGED <<pc, running, status, lpc>>
    BY <1>4 DEF Press, shared, thread
  <2>2. /\ Len(queue') = Len(queue) + 1 /\ Len(queue) \in Nat
        /\ \A i \in 1 .. Len(queue) : queue'[i] = queue[i]
        /\ queue'[Len(queue) + 1] = m /\ queue' # <<>>
    BY <2>1
  <2>3. \A i \in 1 .. Len(queue) : queue[i].btn # "back"
    <3>1. b = "enter" \/ page = "shine"
      BY <2>1
    <3>2. QED
      BY <2>1, <2>2, <3>1 DEF Session
  <2>4. \A i \in 1 .. Len(queue') : queue'[i].btn = "back" => i = Len(queue') /\ page' = "home"
    <3> SUFFICES ASSUME NEW i \in 1 .. Len(queue'), queue'[i].btn = "back"
                 PROVE  i = Len(queue') /\ page' = "home"
      OBVIOUS
    <3>1. i = Len(queue) + 1
      BY <2>2, <2>3
    <3>2. QED
      BY <2>1, <2>2, <3>1
  <2>5. running' \/ EnterUnread'
    <3>1. CASE b = "enter"
      BY <2>1, <2>2, <3>1 DEF EnterUnread
    <3>2. CASE b # "enter"
      <4>1. running \/ EnterUnread
        BY <2>1, <3>2 DEF Session
      <4>2. EnterUnread => queue'[1] = queue[1]
        BY <2>2 DEF EnterUnread
      <4>3. QED
        BY <2>1, <2>2, <4>1, <4>2 DEF EnterUnread
    <3>3. QED
      BY <3>1, <3>2
  <2>6. QED
    BY <2>1, <2>4, <2>5 DEF Session, IdleMeansOff
<1>5. ASSUME NEW c \in Chan, InputEdge(c) \/ TempChange(c) \/ FeedbackChange(c)
      PROVE  (Session /\ IdleMeansOff)'
  BY <1>5 DEF InputEdge, TempChange, FeedbackChange, Session, IdleMeansOff, EnterUnread, shared, thread, lcd
<1>6. ASSUME NEW m \in ModeSet, SetMode(m) PROVE (Session /\ IdleMeansOff)'
  BY <1>6 DEF SetMode, Session, IdleMeansOff, EnterUnread, inputs, thread, lcd
<1>7. CASE UNCHANGED vars
  BY <1>7 DEF vars, Session, IdleMeansOff, EnterUnread, shared, thread, lcd, inputs
<1>8. QED
  BY <1>1, <1>2, <1>3, <1>4, <1>5, <1>6, <1>7 DEF Next, Surroundings

\* When no irradiation thread is left no channel is marked as on, if the operator is patient
\* and the inputs keep their level: "enter" lights nothing by itself.
THEOREM IdleSafe == ASSUME Patient, MaxEdge = 0 PROVE Spec => []IdleMeansOff
<1>1. Init => SessionInv
  BY DEF Init, SessionInv, Quiet, Session, IdleMeansOff, EnterUnread
<1>2. TypeOK /\ LampInv /\ SessionInv /\ [Next]_vars => SessionInv'
  BY QuietStep, NoEdge, SessionStep DEF SessionInv
<1>3. SessionInv => IdleMeansOff
  BY DEF SessionInv
<1>4. QED
  BY <1>1, <1>2, <1>3, TypeCorrect, LampInvariant, PTL DEF Spec

\* Every counted second of a burning lamp is in its running time or in the irradiation that
\* is under way; nothing else is.
LEMMA BookStep ==
    ASSUME Patient, MaxEdge = 0, "back" \notin Buttons
    PROVE  TypeOK /\ LampInv /\ BookInv /\ [Next]_vars => (Endless /\ TimeBooked)'
<1> SUFFICES ASSUME TypeOK, LampInv, BookInv, [Next]_vars PROVE (Endless /\ TimeBooked)'
  OBVIOUS
<1> /\ Quiet /\ Endless /\ TimeBooked /\ LampOwned /\ NoneReplaced /\ EnterNext
    /\ queue \in Seq(Message)
  BY DEF BookInv, LampInv, TypeOK, LcdOK
<1>1. /\ ch \in Chan /\ now \in [Chan -> Nat] /\ total \in [Chan -> Nat] /\ ran \in [Chan -> Nat]
      /\ en \subseteq Chan /\ old \subseteq Chan /\ en \subseteq old
  BY DEF TypeOK, PinsOK, SharedOK, ThreadOK, InputsOK, LampOwned
<1>2. ASSUME UNCHANGED <<en, old, now, total, ran>> PROVE TimeBooked'
  BY <1>2 DEF TimeBooked
<1>3. CASE ShineThread
  <2>1. UNCHANGED <<running, lpc, queue>> /\ pc # "none" /\ running
    BY <1>3, ShineFrame DEF lcd, Endless
  <2>2. pc' \notin {"none", "exitsave", "leave"}
    BY <1>3, <2>1, ShineFrame DEF Endless
  <2>3. ASSUME old' \subseteq en', pc' = "guard" => ch' \in old' PROVE Endless'
    BY <2>1, <2>2, <2>3 DEF Endless
  <2>4. CASE Start \/ Flags \/ Poll \/ StayOff \/ StayOnPage
    <3>1. UNCHANGED <<en, old, now, total, ran>> /\ pc' # "guard"
      BY <2>4 DEF Start, Flags, Poll, StayOff, StayOnPage, NextChannel, pins, shared
    <3>2. QED
      BY <1>2, <2>3, <3>1 DEF Endless
  <2>5. CASE Debounce
    <3>1. UNCHANGED <<en, old, now, total, ran>> /\ pc' # "guard"
      BY <2>5 DEF Debounce, NextChannel, Changed, Quiet
    <3>2. QED
      BY <1>2, <2>3, <3>1 DEF Endless
  <2>6. CASE SwitchOn
    <3>1. /\ en' = en \cup {ch} /\ old' = old \cup {ch} /\ now' = [now EXCEPT ![ch] = 0]
          /\ UNCHANGED <<total, ran, ch>> /\ ch \notin old
      BY <2>6 DEF SwitchOn, NowAtStart
    <3>2. TimeBooked'
      BY <1>1, <3>1 DEF TimeBooked
    <3>3. QED
      BY <2>3, <3>1, <3>2 DEF Endless
  <2>7. CASE StayOn
    <3>1. UNCHANGED <<en, old, now, total, ran, ch>> /\ ch \in old
      BY <2>7 DEF StayOn, pins, shared
    <3>2. QED
      BY <1>2, <2>3, <3>1 DEF Endless
  <2>8. CASE SwitchOff
    <3>1. /\ en' = en \ {ch} /\ old' = old \ {ch} /\ total' = [total EXCEPT ![ch] = @ + now[ch]]
          /\ UNCHANGED <<now, ran>> /\ ch \in old /\ pc' # "guard"
      BY <2>8 DEF SwitchOff
    <3>2. TimeBooked'
      BY <1>1, <3>1 DEF TimeBooked
    <3>3. QED
      BY <2>3, <3>1, <3>2 DEF Endless
  <2>9. CASE Guard
    <3>1. UNCHANGED <<en, old, ran>> /\ ch \in old /\ pc' # "guard"
      BY <2>9 DEF Guard, NextChannel, Endless
    <3>2. CASE StageOver(ch)
      <4>1. total' = [total EXCEPT ![ch] = @ + now[ch]] /\ now' = [now EXCEPT ![ch] = 0]
        BY <2>9, <3>2 DEF Guard
      <4>2. TimeBooked'
        BY <1>1, <3>1, <4>1 DEF TimeBooked
      <4>3. QED
        BY <2>3, <3>1, <4>2 DEF Endless
    <3>3. CASE ~StageOver(ch)
      <4>1. UNCHANGED <<total, now>>
        BY <2>9, <3>3 DEF Guard
      <4>2. QED
        BY <1>2, <2>3, <3>1, <4>1 DEF Endless
    <3>4. QED
      BY <3>2, <3>3
  <2>10. CASE Exit \/ ExitSave \/ Leave
    BY <2>1, <2>10 DEF Exit, MayExit, ExitSave, Leave, Endless
  <2>11. CASE Sleep
    <3>1. UNCHANGED <<en, old, total>> /\ pc' # "guard"
      BY <2>11 DEF Sleep, pins
    <3>2. CASE time + 1 >= LoopsPerSec
      <4>1. /\ now' = [c \in Chan |-> IF c \in status THEN Capped(now[c]) ELSE now[c]]
            /\ ran' = [c \in Chan |-> IF c \in status \cap en /\ now[c] < MaxNow
                                      THEN ran[c] + 1 ELSE ran[c]]
        BY <2>11, <3>2 DEF Sleep
      <4>2. ASSUME NEW c \in Chan
            PROVE  total'[c] + (IF c \in old' THEN now'[c] ELSE 0) = ran'[c]
        <5>1. total[c] + (IF c \in old THEN now[c] ELSE 0) = ran[c] /\ (c \in old <=> c \in en)
          BY <1>1 DEF TimeBooked, Endless
        <5>2. QED
          BY <1>1, <3>1, <4>1, <5>1, BoundsAssumption DEF Capped
      <4>3. QED
        BY <2>3, <3>1, <4>2 DEF TimeBooked, Endless
    <3>3. CASE ~(time + 1 >= LoopsPerSec)
      <4>1. UNCHANGED <<now, ran>>
        BY <2>11, <3>3 DEF Sleep
      <4>2. QED
        BY <1>2, <2>3, <3>1, <4>1 DEF Endless
    <3>4. QED
      BY <3>2, <3>3
  <2>12. QED
    BY <1>3, <2>4, <2>5, <2>6, <2>7, <2>8, <2>9, <2>10, <2>11 DEF ShineThread
<1>4. ASSUME NEW c \in Chan, LightOff(c) PROVE (Endless /\ TimeBooked)'
  BY <1>2, <1>4 DEF LightOff, Endless, shared, thread, lcd
<1>5. CASE LcdThread
  <2>1. UNCHANGED <<en, now, total, ran>>
    BY <1>5 DEF LcdThread, LcdEdge, ShineInit, ShineCreate, LcdRun, LcdCommand, LcdTimeout, pins, shared
  <2>2. CASE LcdEdge
    <3>1. lpc' \notin {"init", "create"} /\ UNCHANGED <<pc, ch, old, running, queue>>
      BY <2>2 DEF LcdEdge, LcdNext, Quiet, thread
    <3>2. QED
      BY <1>2, <2>1, <3>1 DEF Endless
  <2>3. CASE ShineInit
    BY <1>2, <2>1, <2>3 DEF ShineInit, Endless, thread
  <2>4. CASE ShineCreate
    <3>1. pc = "none" /\ running /\ old = {}
      BY <2>4 DEF ShineCreate, NoneReplaced, Endless
    <3>2. pc' = "start" /\ old' = old /\ UNCHANGED <<running, queue>> /\ lpc' \in {"edge", "run"}
      BY <2>4, <3>1 DEF ShineCreate, shared
    <3>3. QED
      BY <1>2, <2>1, <3>1, <3>2 DEF Endless
  <2>5. CASE LcdRun
    BY <2>5 DEF LcdRun, Quiet
  <2>6. CASE LcdCommand
    <3>1. queue # <<>> /\ queue' = Tail(queue) /\ UNCHANGED <<pc, ch, old>> /\ Head(queue) = queue[1]
      BY <2>6 DEF LcdCommand, thread
    <3>2. /\ Len(queue) \in Nat \ {0}
          /\ \A i \in 1 .. Len(queue') : queue'[i] = queue[i + 1] /\ i + 1 \in 1 .. Len(queue)
      BY <3>1
    <3>3. \A i \in 1 .. Len(queue') : queue'[i].btn # "back"
      BY <3>2 DEF Endless
    <3>4. Head(queue).btn # "back"
      BY <3>1, <3>2 DEF Endless
    <3>5. (running' \/ running' = running) /\ (lpc' = "init" => running') /\ lpc' # "create"
      BY <2>6, <3>4 DEF LcdCommand, Enter, OnOff
    <3>6. QED
      BY <1>2, <2>1, <3>1, <3>3, <3>5 DEF Endless
  <2>7. CASE LcdTimeout
    BY <1>2, <2>1, <2>7 DEF LcdTimeout, Endless, shared, thread
  <2>8. QED
    BY <1>5, <2>2, <2>3, <2>4, <2>5, <2>6, <2>7 DEF LcdThread
<1>6. ASSUME NEW b \in Buttons, NEW c \in 0 .. NCh, Press(b, c) PROVE (Endless /\ TimeBooked)'
  <2> DEFINE m == [btn |-> b, ch |-> c]
  <2>1. queue' = Append(queue, m) /\ m \in Message /\ UNCHANGED <<pins, shared, thread, lpc, ran>>
    BY <1>6 DEF Press
  <2>2. \A i \in 1 .. Len(queue') : queue'[i] = m \/ (i \in 1 .. Len(queue) /\ queue'[i] = queue[i])
    BY <2>1
  <2>3. \A i \in 1 .. Len(queue') : queue'[i].btn # "back"
    BY <2>2 DEF Endless
  <2>4. QED
    BY <1>2, <2>1, <2>3 DEF Endless, pins, shared, thread
<1>7. ASSUME NEW c \in Chan, InputEdge(c) \/ TempChange(c) \/ FeedbackChange(c)
      PROVE  (Endless /\ TimeBooked)'
  BY <1>2, <1>7 DEF InputEdge, TempChange, FeedbackChange, Endless, pins, shared, thread, lcd
<1>8. ASSUME NEW m \in ModeSet, SetMode(m) PROVE (Endless /\ TimeBooked)'
  BY <1>2, <1>8 DEF SetMode, Endless, pins, thread, lcd
<1>9. CASE UNCHANGED vars
  BY <1>2, <1>9 DEF vars, Endless, pins, shared, thread, lcd
<1>10. QED
  BY <1>3, <1>4, <1>5, <1>6, <1>7, <1>8, <1>9 DEF Next, Surroundings

\* The hours, minutes and seconds kept for a lamp are the time it was on, whatever ends its
\* irradiations but "back" (shine.c:278: when it comes in the same pass as an alarm, or as
\* the end of the time, the seconds of the irradiation are lost).
THEOREM TimeKept ==
    ASSUME Patient, MaxEdge = 0, "back" \notin Buttons PROVE Spec => []TimeBooked
<1>1. Init => BookInv
  BY DEF Init, BookInv, Quiet, Endless, TimeBooked, Zero
<1>2. TypeOK /\ LampInv /\ BookInv /\ [Next]_vars => BookInv'
  BY QuietStep, NoEdge, BookStep DEF BookInv
<1>3. BookInv => TimeBooked
  BY DEF BookInv
<1>4. QED
  BY <1>1, <1>2, <1>3, TypeCorrect, LampInvariant, PTL DEF Spec

-----------------------------------------------------------------------------
(* An irradiation that is left alone, from the first "enter" until it is over *)

\* the operator has pressed "enter" and one more button at most, no input changes and nothing fails
Undisturbed == presses <= 2 /\ edges = 0 /\ faults = 0

Working == running /\ pc \notin {"none", "exitsave", "leave"}
NothingLit == en = {} /\ old = {} /\ status = {} /\ ran = Zero

\* "enter" is not read yet
Waiting ==
    /\ NothingLit /\ pc = "none" /\ lpc \in {"edge", "recv"}
    /\ \/ presses = 0 /\ queue = <<>> /\ page = "home"
       \/ presses = 1 /\ Len(queue) = 1 /\ queue[1].btn = "enter" /\ page = "shine"
       \/ presses = 2 /\ Len(queue) = 2 /\ queue[1].btn = "enter" /\ queue[2].btn # "enter"

\* it is read, the other message is not, or it was "off"
Entered ==
    /\ NothingLit /\ running
    /\ \/ lpc \in {"init", "create"} /\ pc = "none"
       \/ lpc \in {"edge", "recv"} /\ Working
    /\ \/ presses = 1 /\ queue = <<>> /\ page = "shine"
       \/ presses = 2 /\ (queue = <<>> \/ (Len(queue) = 1 /\ queue[1].btn # "enter"))

\* the other message was "back"
Left == NothingLit /\ presses = 2 /\ queue = <<>> /\ lpc \in {"edge", "recv"}

\* the whole irradiation, the part before the stage under way, and the end of that stage
Full == IF Automatic THEN Time ELSE Cycle * Before[NStages]
Past(c) == IF Automatic THEN 0 ELSE large[c] * Before[NStages] + Before[stage[c]]
Limit(c) == IF Automatic THEN Time ELSE StageTime[stage[c]]

\* the controller looks at the time of c in this pass
Ahead(c) ==
    \/ pc \in {"start", "flags", "poll", "debounce"}
    \/ pc \in {"switch", "guard"} /\ ch <= c
    \/ pc = "save" /\ ch < c

\* a channel that is on has counted its stages up to now
Counted(c) ==
    /\ ran[c] = Past(c) + now[c]
    /\ now[c] <= Limit(c) /\ (now[c] = Limit(c) => Ahead(c))
    /\ Multistage => large[c] < Cycle
    /\ c \in hot => pc = "guard" /\ ch = c /\ ran[c] = 0

\* the other message was "on"
Lit ==
    /\ presses = 2 /\ queue = <<>> /\ lpc \in {"edge", "recv"} /\ Working
    /\ ~Manual => \A c \in Chan :
         /\ c \in status \cap old => Counted(c)
         /\ c \in status \ old => ran[c] = 0
         /\ c \notin status => ran[c] \in {0, Full}

\* the inputs are at rest, and the controller knows which lamps are on
Sound == Quiet /\ dark = {} /\ en = old /\ (pc = "guard" => ch \in old)

LengthInv == Undisturbed => Sound /\ (Waiting \/ Entered \/ Left \/ Lit)

\* the numbers of a set have a least one
LEMMA LeastNumber ==
    ASSUME NEW S, S \subseteq Nat, S # {}
    PROVE  \E x \in S : \A y \in S : x <= y
<1> DEFINE R == {ss \in Nat \X Nat : ss[1] < ss[2]}
<1>1. IsWellFoundedOn(R, Nat)
  BY NatLessThanWellFounded DEF OpToRel
<1> HIDE DEF R
<1>2. PICK x \in S : \A y \in S : <<y, x>> \notin R
  BY <1>1, WFMin
<1>3. \A y \in S : x <= y
  <2> TAKE y \in S
  <2>1. ~(y < x)
    BY <1>2 DEF R
  <2> QED
    BY <2>1
<1> QED
  BY <1>3

LEMMA UpTo ==
    ASSUME NEW n \in Nat, NEW G, 0 \in G, \A i \in 1 .. n : i - 1 \in G => i \in G
    PROVE  \A i \in 0 .. n : i \in G
<1> SUFFICES ASSUME NEW b \in 0 .. n, b \notin G PROVE FALSE
  OBVIOUS
<1> DEFINE B == {i \in 0 .. n : i \notin G}
<1>1. B \subseteq Nat /\ B # {}
  OBVIOUS
<1>2. PICK x \in B : \A y \in B : x <= y
  BY <1>1, LeastNumber
<1>3. x \in 1 .. n /\ x - 1 \in 0 .. n /\ ~(x <= x - 1)
  OBVIOUS
<1>4. x - 1 \in G
  BY <1>2, <1>3
<1> QED
  BY <1>3, <1>4

\* the seconds of the stages add up
LEMMA StagesAddUp ==
    /\ Before \in [0 .. NStages -> Nat] /\ Before[0] = 0
    /\ \A s \in 1 .. NStages : Before[s] = Before[s - 1] + StageTime[s - 1]
<1> DEFINE Is(g, n) == g = [s \in 0 .. n |-> IF s = 0 THEN 0 ELSE g[s - 1] + StageTime[s - 1]]
           G == {n \in 0 .. NStages : \E g : Is(g, n)}
<1>0. NStages \in Nat /\ StageTime \in [0 .. NStages - 1 -> Nat]
  BY TimesAssumption
<1>1. 0 \in G
  <2>p. PICK g : g = [s \in 0 .. 0 |-> 0]
    OBVIOUS
  <2>1. \A s \in 0 .. 0 : 0 = IF s = 0 THEN 0 ELSE g[s - 1] + StageTime[s - 1]
    OBVIOUS
  <2>2. Is(g, 0)
    BY <2>1, <2>p
  <2>3. 0 \in 0 .. NStages
    BY <1>0
  <2> QED
    BY <2>2, <2>3
<1>2. ASSUME NEW n \in 1 .. NStages, n - 1 \in G PROVE n \in G
  <2>1. PICK g : Is(g, n - 1)
    BY <1>2
  <2>p. PICK h : h = [s \in 0 .. n |-> IF s = n THEN g[n - 1] + StageTime[n - 1] ELSE g[s]]
    OBVIOUS
  <2>2. \A s \in 0 .. n - 1 : g[s] = IF s = 0 THEN 0 ELSE g[s - 1] + StageTime[s - 1]
    BY <2>1
  <2>3. \A s \in 0 .. n : h[s] = IF s = n THEN g[n - 1] + StageTime[n - 1] ELSE g[s]
    BY <2>p
  <2>4. \A s \in 0 .. n : h[s] = IF s = 0 THEN 0 ELSE h[s - 1] + StageTime[s - 1]
    <3> TAKE s \in 0 .. n
    <3>0. n \in Nat \ {0}
      BY <1>0
    <3>1. CASE s = 0
      BY <3>0, <2>2, <2>3, <3>1
    <3>2. CASE s = n
      <4>1. n - 1 \in 0 .. n /\ n - 1 # n /\ n # 0
        BY <3>0
      <4>2. h[n - 1] = g[n - 1]
        BY <2>3, <4>1
      <4> QED
        BY <2>3, <3>2, <4>1, <4>2
    <3>3. CASE s # 0 /\ s # n
      <4>1. s \in 0 .. n - 1 /\ s - 1 \in 0 .. n /\ s - 1 # n
        BY <3>0, <3>3
      <4>2. h[s] = g[s] /\ h[s - 1] = g[s - 1]
        BY <2>3, <3>3, <4>1
      <4> QED
        BY <2>2, <3>3, <4>1, <4>2
    <3> QED
      BY <3>1, <3>2, <3>3
  <2>5. Is(h, n)
    BY <2>p, <2>4
  <2> QED
    BY <2>5
<1>3. \E f : Is(f, NStages)
  <2>1. \A s \in 0 .. NStages : s \in G
    <3> HIDE DEF G
    <3> QED
      BY <1>0, <1>1, <1>2, UpTo
  <2>2. NStages \in G
    <3> HIDE DEF G
    <3>1. NStages \in 0 .. NStages
      BY <1>0
    <3> QED
      BY <2>1, <3>1
  <2> QED
    <3> HIDE DEF Is
    <3> QED
      BY <2>2
<1>4. Is(Before, NStages)
  BY <1>3 DEF Before
<1>5. Before[0] = 0 /\ \A s \in 1 .. NStages : Before[s] = Before[s - 1] + StageTime[s - 1]
  BY <1>0, <1>4
<1>6. \A s \in 0 .. NStages : Before[s] \in Nat
  <2> DEFINE H == {s \in 0 .. NStages : Before[s] \in Nat}
  <2>1. 0 \in H
    BY <1>0, <1>5
  <2>2. ASSUME NEW s \in 1 .. NStages, s - 1 \in H PROVE s \in H
    BY <1>0, <1>5, <2>2
  <2>3. \A s \in 0 .. NStages : s \in H
    <3> HIDE DEF H
    <3> QED
      BY <1>0, <2>1, <2>2, UpTo
  <2> QED
    BY <2>3
<1>7. Before \in [0 .. NStages -> Nat]
  <2>1. Before = [s \in 0 .. NStages |-> IF s = 0 THEN 0 ELSE Before[s - 1] + StageTime[s - 1]]
    BY <1>4
  <2>2. Before = [s \in 0 .. NStages |-> Before[s]]
    BY <2>1
  <2> QED
    BY <1>6, <2>2
<1> QED
  BY <1>5, <1>7

\* the times are within the bound, there is a round, and no stage is empty: an empty stage takes
\* as long as a pass does, and may be charged with the second that is counted in it
Fits ==
    /\ Time <= MaxNow /\ Cycle > 0
    /\ \A s \in 0 .. NStages - 1 : StageTime[s] \in 1 .. MaxNow

\* what a channel has counted, by where it is
Share(c) ==
    /\ c \in status \cap old => Counted(c)
    /\ c \in status \ old => ran[c] = 0
    /\ c \notin status => ran[c] \in {0, Full}

LEMMA Typed ==
    TypeOK => /\ en \subseteq Chan /\ old \subseteq Chan /\ status \subseteq Chan /\ hot \subseteq Chan
              /\ now \in [Chan -> Nat] /\ ran \in [Chan -> Nat] /\ large \in [Chan -> Nat]
              /\ stage \in [Chan -> 0 .. NStages - 1] /\ ch \in Chan /\ pc \in Pcs /\ lpc \in Lpcs
              /\ mode \in ModeSet /\ queue \in Seq(Message) /\ presses \in Nat /\ faults \in Nat /\ edges \in Nat
              /\ NCh \in Nat \ {0} /\ Chan = 1 .. NCh /\ NStages \in Nat \ {0} /\ Time \in Nat /\ Cycle \in Nat
              /\ StageTime \in [0 .. NStages - 1 -> Nat] /\ MaxNow \in Nat
BY ChannelsAssumption, TimesAssumption, BoundsAssumption
   DEF TypeOK, PinsOK, SharedOK, ThreadOK, LcdOK, InputsOK, Chan

\* nothing has disturbed before, and nothing does now
LEMMA CalmStep ==
    ASSUME TypeOK, [Next]_vars, Undisturbed'
    PROVE  Undisturbed /\ UNCHANGED <<dark, hot, low, edges>>
<1>0. presses \in Nat /\ edges \in Nat /\ faults \in Nat /\ presses' <= 2 /\ edges' = 0 /\ faults' = 0
  BY Typed DEF Undisturbed
<1>1. CASE UNCHANGED <<presses, edges, faults, dark, hot, low>>
  BY <1>0, <1>1 DEF Undisturbed
<1>2. CASE ShineThread
  BY <1>1, <1>2, ShineFrame DEF inputs, bounds
<1>3. ASSUME NEW c \in Chan, LightOff(c) PROVE UNCHANGED <<presses, edges, faults, dark, hot, low>>
  BY <1>3 DEF LightOff, inputs, bounds
<1>4. CASE LcdThread
  <2>1. UNCHANGED <<presses, edges, faults, dark, hot, low>>
    BY <1>4 DEF LcdThread, LcdEdge, ShineInit, ShineCreate, LcdRun, LcdCommand, LcdTimeout, inputs, bounds
  <2> QED
    BY <1>1, <2>1
<1>5. ASSUME NEW b \in Buttons, NEW c \in 0 .. NCh, Press(b, c)
      PROVE  Undisturbed /\ UNCHANGED <<dark, hot, low, edges>>
  <2>1. presses' = presses + 1 /\ UNCHANGED <<edges, faults, dark, hot, low>>
    BY <1>5 DEF Press
  <2> QED
    BY <1>0, <2>1 DEF Undisturbed
<1>6. ASSUME NEW c \in Chan PROVE ~InputEdge(c) /\ ~TempChange(c) /\ ~FeedbackChange(c)
  BY <1>0 DEF InputEdge, TempChange, FeedbackChange
<1>7. ASSUME NEW m \in ModeSet, SetMode(m) PROVE UNCHANGED <<presses, edges, faults, dark, hot, low>>
  BY <1>7 DEF SetMode, inputs, bounds
<1>8. CASE UNCHANGED vars
  BY <1>1, <1>8 DEF vars, inputs, bounds
<1> QED
  BY <1>1, <1>2, <1>3, <1>4, <1>5, <1>6, <1>7, <1>8 DEF Next, Surroundings

\* with the inputs at rest a channel is polled and left alone
LEMMA AtRest ==
    ASSUME Quiet, Debounce
    PROVE  UNCHANGED <<status, now, stage, large, duty, last>>
<1>1. pc = "debounce"
  BY DEF Debounce
<1>2. ~Changed(ch)
  BY <1>1 DEF Quiet, Changed
<1> QED
  BY <1>2 DEF Debounce

\* the controller owns the lamps that are on
LEMMA OwnStep ==
    ASSUME TypeOK, Sound, ShineThread
    PROVE  en' = old' /\ (pc' = "guard" => ch' \in old')
<1>1. CASE Start \/ Flags \/ Poll \/ StayOff \/ StayOnPage \/ ExitSave \/ Leave \/ Sleep \/ Debounce
  <2>1. UNCHANGED <<en, old>> /\ pc' # "guard"
    <3>1. Start => UNCHANGED <<en, old>> /\ pc' # "guard"
      BY DEF Start
    <3>2. Flags \/ Poll => UNCHANGED <<en, old>> /\ pc' # "guard"
      BY DEF Flags, Poll, NextChannel, pins
    <3>3. StayOff \/ StayOnPage \/ ExitSave => UNCHANGED <<en, old>> /\ pc' # "guard"
      BY DEF StayOff, StayOnPage, ExitSave, NextChannel, pins
    <3>4. Leave \/ Sleep => UNCHANGED <<en, old>> /\ pc' # "guard"
      BY DEF Leave, Sleep, pins
    <3>5. Debounce => UNCHANGED <<en, old>> /\ pc' # "guard"
      BY DEF Debounce, NextChannel, Changed, Sound, Quiet
    <3> QED
      BY <1>1, <3>1, <3>2, <3>3, <3>4, <3>5
  <2> QED
    BY <2>1 DEF Sound
<1>2. CASE SwitchOn
  BY <1>2 DEF SwitchOn, Sound
<1>3. CASE StayOn
  BY <1>3 DEF StayOn, Sound, pins
<1>4. CASE SwitchOff
  BY <1>4 DEF SwitchOff, Sound
<1>5. CASE Guard
  BY <1>5 DEF Guard, NextChannel, Sound
<1>6. CASE Exit
  BY <1>6 DEF Exit, OutputsOff, Sound
<1> QED
  BY <1>1, <1>2, <1>3, <1>4, <1>5, <1>6 DEF ShineThread

\* while no channel is on none is switched on
LEMMA DarkStep ==
    ASSUME TypeOK, Sound, NothingLit, ShineThread
    PROVE  NothingLit'
<1>1. en = {} /\ old = {} /\ status = {} /\ ran = Zero /\ ledio = {}
  BY DEF NothingLit, Sound, Quiet
<1>2. CASE Start
  BY <1>1, <1>2 DEF Start, NothingLit, shared
<1>3. CASE Flags
  BY <1>1, <1>3 DEF Flags, NothingLit, pins
<1>4. CASE Poll \/ StayOff \/ StayOnPage \/ ExitSave \/ StayOn
  BY <1>1, <1>4 DEF Poll, StayOff, StayOnPage, ExitSave, StayOn, NothingLit, pins, shared
<1>5. CASE Debounce
  <2>1. UNCHANGED <<en, old, ran>>
    BY <1>5 DEF Debounce
  <2> QED
    BY <1>1, <1>5, <2>1, AtRest DEF NothingLit, Sound
<1>6. CASE SwitchOn \/ SwitchOff \/ Guard
  BY <1>1, <1>6 DEF SwitchOn, SwitchOff, Guard, Sound
<1>7. CASE Exit
  BY <1>1, <1>7 DEF Exit, OutputsOff, NothingLit
<1>8. CASE Leave
  BY <1>1, <1>8 DEF Leave, StatusOff, NothingLit
<1>9. CASE Sleep
  <2>1. UNCHANGED <<en, old, status>>
    BY <1>9 DEF Sleep, pins
  <2>2. CASE time + 1 >= LoopsPerSec
    <3>1. ran' = [c \in Chan |-> IF c \in status \cap en /\ now[c] < MaxNow THEN ran[c] + 1 ELSE ran[c]]
      BY <1>9, <2>2 DEF Sleep
    <3>2. ran' = [c \in Chan |-> ran[c]]
      BY <1>1, <3>1
    <3>3. ran' = Zero
      BY <1>1, <3>2 DEF Zero
    <3> QED
      BY <1>1, <2>1, <3>3 DEF NothingLit
  <2>3. CASE ~(time + 1 >= LoopsPerSec)
    <3>1. UNCHANGED ran
      BY <1>9, <2>3 DEF Sleep
    <3> QED
      BY <1>1, <2>1, <3>1 DEF NothingLit
  <2> QED
    BY <2>2, <2>3
<1> QED
  BY <1>2, <1>3, <1>4, <1>5, <1>6, <1>7, <1>8, <1>9 DEF ShineThread

\* a channel that a step leaves alone, if the controller does not pass its guard
LEMMA ShareKept ==
    ASSUME NEW c \in Chan, Share(c), UNCHANGED <<mode, hot>>,
           ran'[c] = ran[c], now'[c] = now[c], stage'[c] = stage[c], large'[c] = large[c],
           c \in status' <=> c \in status, c \in old' <=> c \in old,
           c \in status \cap old => c \notin hot /\ (Ahead(c) => Ahead(c)')
    PROVE  Share(c)'
<1>1. Full' = Full /\ Past(c)' = Past(c) /\ Limit(c)' = Limit(c) /\ (Multistage' <=> Multistage)
  BY DEF Full, Past, Limit, Automatic, Multistage
<1>2. c \in status \cap old => Counted(c)'
  BY <1>1 DEF Share, Counted
<1> QED
  BY <1>1, <1>2 DEF Share

\* only the guard may find a channel that is too hot
LEMMA CoolElsewhere ==
    ASSUME NEW c \in Chan, Share(c), c \in status \cap old, pc # "guard" \/ ch # c
    PROVE  c \notin hot
BY DEF Share, Counted

LEMMA OneMode == TypeOK /\ ~Manual => IF Automatic THEN ~Multistage ELSE Multistage
BY Typed, ModesAssumption DEF Automatic, Multistage, Manual, AllModes

\* the numbers of a channel in an irradiation
LEMMA Numbers ==
    ASSUME TypeOK, NEW c \in Chan
    PROVE  /\ Before[NStages] \in Nat /\ Before[stage[c]] \in Nat /\ large[c] \in Nat
           /\ large[c] * Before[NStages] \in Nat
           /\ Past(c) \in Nat /\ Limit(c) \in Nat /\ now[c] \in Nat /\ ran[c] \in Nat
           /\ stage[c] \in 0 .. NStages - 1 /\ StageTime[stage[c]] \in Nat
           /\ Before[stage[c] + 1] = Before[stage[c]] + StageTime[stage[c]]
<1>1. /\ stage[c] \in 0 .. NStages - 1 /\ large[c] \in Nat /\ now[c] \in Nat /\ ran[c] \in Nat
      /\ NStages \in Nat \ {0} /\ Time \in Nat /\ StageTime[stage[c]] \in Nat
  BY Typed
<1>p. PICK s, n, l, b : s = stage[c] /\ n = NStages /\ l = large[c] /\ b = Before[NStages]
  OBVIOUS
<1>2. Before[n] \in Nat /\ Before[s] \in Nat
  BY <1>1, <1>p, StagesAddUp
<1>3. s + 1 \in 1 .. n /\ (s + 1) - 1 = s
  BY <1>1, <1>p
<1>4. Before[s + 1] = Before[s] + StageTime[s]
  BY <1>3, <1>p, StagesAddUp
<1>5. l * b \in Nat
  BY <1>1, <1>2, <1>p
<1>6. Past(c) \in Nat /\ Limit(c) \in Nat
  BY <1>1, <1>2, <1>5, <1>p DEF Past, Limit
<1> QED
  BY <1>1, <1>2, <1>4, <1>5, <1>6, <1>p

\* one that is switched on
LEMMA ShareOn ==
    ASSUME Fits, TypeOK, ~Manual, SwitchOn, Share(ch)
    PROVE  \A c \in {ch} : Share(c)'
<1> SUFFICES ASSUME NEW c \in {ch} PROVE Share(c)'
  OBVIOUS
<1>1. /\ c \in status /\ c \notin old /\ c \in status' \cap old' /\ c = ch /\ ch' = ch /\ pc' = "guard"
      /\ now'[c] = 0 /\ ran' = ran /\ mode' = mode /\ ran[c] = 0 /\ c \in Chan
  BY Typed DEF SwitchOn, NowAtStart, Share
<1>2. Multistage => stage'[c] = 0 /\ large'[c] = 0
  BY <1>1, Typed DEF SwitchOn
<1>3. Ahead(c)'
  BY <1>1, Typed DEF Ahead
<1>4. Past(c)' = 0 /\ 0 <= Limit(c)' /\ (Multistage' => large'[c] < Cycle)
  <2>1. CASE Automatic
    <3>1. Automatic' /\ ~Multistage'
      BY <1>1, <2>1 DEF Automatic, Multistage
    <3> QED
      BY <3>1, Typed DEF Past, Limit
  <2>2. CASE ~Automatic
    <3>1. Multistage /\ ~Automatic'
      BY <1>1, <2>2, OneMode DEF Automatic
    <3>2. stage'[c] = 0 /\ large'[c] = 0
      BY <1>2, <3>1
    <3>3. Past(c)' = 0 * Before[NStages] + Before[0] /\ Limit(c)' = StageTime[0]
      BY <3>1, <3>2 DEF Past, Limit
    <3>4. Before[NStages] \in Nat /\ Before[0] = 0
      BY <1>1, Numbers, StagesAddUp
    <3>5. StageTime[0] \in Nat /\ Cycle \in Nat /\ Cycle > 0
      BY Typed DEF Fits
    <3> QED
      BY <3>2, <3>3, <3>4, <3>5
  <2> QED
    BY <2>1, <2>2
<1>5. Counted(c)'
  BY <1>1, <1>3, <1>4 DEF Counted
<1> QED
  BY <1>1, <1>5 DEF Share

\* one whose time the guard looks at
LEMMA ShareAtGuard ==
    ASSUME Fits, TypeOK, ~Manual, Sound, Guard, Share(ch), UNCHANGED hot
    PROVE  \A c \in {ch} : Share(c)'
<1> SUFFICES ASSUME NEW c \in {ch} PROVE Share(c)'
  OBVIOUS
<1>1. /\ c = ch /\ c \in Chan /\ c \in old /\ UNCHANGED <<old, ran, mode>>
      /\ c \in status' <=> (c \in status /\ ~(c \in hot \/ TimeOver(c) \/ RecipeOver(c)))
  BY Typed DEF Guard, Sound, Faulty
<1>m. Full' = Full /\ (Multistage' <=> Multistage) /\ (Automatic' <=> Automatic)
  BY <1>1 DEF Full, Automatic, Multistage
<1>2. CASE c \notin status
  BY <1>1, <1>m, <1>2 DEF Share
<1>3. CASE c \in status
  <2>1. Counted(c)
    BY <1>1, <1>3 DEF Share
  <2>n. /\ Before[NStages] \in Nat /\ Before[stage[c]] \in Nat /\ large[c] \in Nat /\ Cycle \in Nat
        /\ Past(c) \in Nat /\ Limit(c) \in Nat /\ now[c] \in Nat /\ ran[c] \in Nat
        /\ stage[c] \in 0 .. NStages - 1 /\ NStages \in Nat /\ Time \in Nat
    BY <1>1, Numbers, Typed
  <2>2. CASE c \in hot
    <3>1. c \notin status' /\ ran[c] = 0
      BY <1>1, <2>1, <2>2 DEF Counted
    <3> QED
      BY <1>1, <3>1 DEF Share
  <2>3. CASE c \notin hot /\ Automatic
    <3>1. ~Multistage /\ ~StageOver(c) /\ ~RecipeOver(c)
      BY <2>3, OneMode DEF StageOver, RecipeOver, RoundOver
    <3>2. UNCHANGED <<now, stage, large>>
      BY <1>1, <3>1 DEF Guard
    <3>3. Past(c) = 0 /\ Limit(c) = Time /\ Full = Time /\ Past(c)' = 0 /\ Limit(c)' = Time
      BY <1>m, <2>3 DEF Past, Limit, Full
    <3>4. CASE now[c] >= Time
      <4>1. c \notin status' /\ ran[c] = Time
        BY <1>1, <2>1, <2>3, <2>n, <3>3, <3>4 DEF TimeOver, Counted
      <4> QED
        BY <1>1, <1>m, <3>3, <4>1 DEF Share
    <3>5. CASE ~(now[c] >= Time)
      <4>1. now[c] < Time /\ now[c] <= Time /\ now[c] # Time
        BY <2>n, <3>5
      <4>2. c \in status' /\ ran[c] = 0 + now[c]
        BY <1>1, <1>3, <2>1, <2>3, <3>1, <3>3, <3>5 DEF TimeOver, Counted
      <4>3. Counted(c)'
        BY <1>1, <1>m, <2>3, <3>1, <3>2, <3>3, <4>1, <4>2 DEF Counted
      <4> QED
        BY <1>1, <4>2, <4>3 DEF Share
    <3> QED
      BY <3>4, <3>5
  <2>4. CASE c \notin hot /\ ~Automatic
    <3>p. PICK s, l, b, t : s = stage[c] /\ l = large[c] /\ b = Before[NStages] /\ t = StageTime[stage[c]]
      OBVIOUS
    <3>1. Multistage /\ ~TimeOver(c)
      BY <2>4, OneMode DEF TimeOver
    <3>2. /\ Past(c) = l * b + Before[s] /\ Limit(c) = t /\ Full = Cycle * b
          /\ Past(c)' = large'[c] * b + Before[stage'[c]] /\ Limit(c)' = StageTime[stage'[c]]
      BY <1>m, <2>4, <3>p DEF Past, Limit, Full
    <3>3. s \in 0 .. NStages - 1 /\ l \in Nat /\ b \in Nat /\ t \in Nat /\ l * b \in Nat /\ Before[s] \in Nat
          /\ Before[s + 1] = Before[s] + t
      BY <1>1, <3>p, Numbers
    <3>4. ran[c] = l * b + Before[s] + now[c] /\ now[c] <= t /\ l < Cycle
      BY <2>1, <3>1, <3>2, <3>p DEF Counted
    <3>5. CASE ~StageOver(c)
      <4>1. UNCHANGED <<now, stage, large>> /\ ~RecipeOver(c)
        BY <1>1, <3>5 DEF Guard, RecipeOver, RoundOver
      <4>2. c \in status'
        BY <1>1, <1>3, <2>4, <3>1, <4>1
      <4>3. ~(now[c] >= t)
        BY <3>1, <3>5, <3>p DEF StageOver
      <4>4. now[c] # t
        BY <2>n, <3>3, <4>3
      <4>5. Past(c)' = Past(c) /\ Limit(c)' = Limit(c) /\ Limit(c) = t
        BY <1>1, <1>m, <3>2, <3>p, <4>1 DEF Past, Limit
      <4>6. Counted(c)'
        BY <1>1, <1>m, <2>1, <2>4, <4>1, <4>4, <4>5 DEF Counted
      <4> QED
        BY <1>1, <4>2, <4>6 DEF Share
    <3>6. CASE StageOver(c)
      <4>1. now[c] = t
        <5>1. now[c] >= t
          BY <3>6, <3>p DEF StageOver
        <5> QED
          BY <2>n, <3>3, <3>4, <5>1
      <4>2. ran[c] = l * b + Before[s + 1]
        <5>p. PICK x, y : x = l * b /\ y = Before[s]
          OBVIOUS
        <5> QED
          BY <3>3, <3>4, <4>1, <5>p
      <4>3. /\ now'[c] = 0 /\ stage'[c] = NextStage(c)
            /\ large'[c] = IF RoundOver(c) THEN l + 1 ELSE l
        <5>1. /\ now' = [now EXCEPT ![c] = 0] /\ stage' = [stage EXCEPT ![c] = NextStage(c)]
              /\ large' = IF RoundOver(c) THEN [large EXCEPT ![c] = @ + 1] ELSE large
          BY <1>1, <3>6 DEF Guard
        <5> QED
          BY <1>1, <3>p, <5>1, Typed
      <4>4. StageTime[stage'[c]] \in Nat /\ StageTime[stage'[c]] >= 1
        <5>1. NextStage(c) \in 0 .. NStages - 1
          <6>p. PICK k, n : k = stage[c] /\ n = NStages
            OBVIOUS
          <6>1. k \in 0 .. n - 1 /\ n \in Nat /\ NextStage(c) = IF k = n - 1 THEN 0 ELSE k + 1
            BY <2>n, <6>p DEF NextStage
          <6> QED
            BY <6>1, <6>p
        <5>2. StageTime[NextStage(c)] \in 1 .. MaxNow
          BY <5>1 DEF Fits
        <5> QED
          BY <4>3, <5>2, Typed
      <4>5. CASE s # NStages - 1
        <5>1. ~RoundOver(c) /\ ~RecipeOver(c) /\ NextStage(c) = s + 1
          BY <3>p, <4>5 DEF RoundOver, RecipeOver, NextStage
        <5>2. c \in status'
          BY <1>1, <1>3, <2>4, <3>1, <5>1
        <5>3. Past(c)' = l * b + Before[s + 1] /\ large'[c] = l
          BY <3>2, <4>3, <5>1
        <5>4. ran'[c] = Past(c)' + now'[c]
          <6>1. ran[c] \in Nat /\ ran[c] = ran[c] + 0
            BY <2>n
          <6> QED
            BY <1>1, <4>2, <4>3, <5>3, <6>1
        <5>5. Counted(c)'
          BY <2>4, <3>2, <3>4, <4>3, <4>4, <5>3, <5>4 DEF Counted
        <5> QED
          BY <1>1, <5>2, <5>5 DEF Share
      <4>6. CASE s = NStages - 1
        <5>1. RoundOver(c) /\ NextStage(c) = 0 /\ s + 1 = NStages
          BY <2>n, <3>6, <3>p, <4>6 DEF RoundOver, NextStage
        <5>2. ran[c] = (l + 1) * b
          BY <3>3, <3>p, <4>2, <5>1
        <5>3. CASE l + 1 >= Cycle
          <6>1. c \notin status'
            BY <1>1, <3>p, <5>1, <5>3 DEF RecipeOver
          <6>2. l + 1 = Cycle
            BY <2>n, <3>3, <3>4, <5>3
          <6>3. ran[c] = Full
            BY <3>2, <5>2, <6>2
          <6> QED
            BY <1>1, <1>m, <6>1, <6>3 DEF Share
        <5>4. CASE ~(l + 1 >= Cycle)
          <6>1. ~RecipeOver(c)
            BY <3>p, <5>4 DEF RecipeOver
          <6>2. c \in status'
            BY <1>1, <1>3, <2>4, <3>1, <6>1
          <6>3. large'[c] = l + 1 /\ large'[c] < Cycle
            BY <2>n, <3>3, <4>3, <5>1, <5>4
          <6>4. Past(c)' = (l + 1) * b + 0
            BY <3>2, <4>3, <5>1, <6>3, StagesAddUp
          <6>5. ran'[c] = Past(c)' + now'[c]
            <7>p. PICK x \in Nat : x = ran[c]
              BY <2>n
            <7>1. x + 0 + 0 = x
              OBVIOUS
            <7> QED
              BY <1>1, <4>3, <5>2, <6>4, <7>1, <7>p
          <6>6. Counted(c)'
            BY <2>4, <3>2, <4>3, <4>4, <6>3, <6>5 DEF Counted
          <6> QED
            BY <1>1, <6>2, <6>6 DEF Share
        <5> QED
          BY <5>3, <5>4
      <4> QED
        BY <4>5, <4>6
    <3> QED
      BY <3>5, <3>6
  <2> QED
    BY <2>2, <2>3, <2>4
<1> QED
  BY <1>2, <1>3

\* what the controller does to an irradiation
LEMMA LitStep ==
    ASSUME Fits, TypeOK, Sound, Lit, ShineThread, UNCHANGED hot
    PROVE  Lit'
<1>1. /\ presses' = 2 /\ queue' = <<>> /\ lpc' \in {"edge", "recv"} /\ running' /\ running
      /\ pc' \notin {"none", "exitsave", "leave"} /\ pc \notin {"exitsave", "leave"}
  BY ShineFrame DEF Lit, Working, lcd, bounds
<1>2. mode' = mode
  BY <1>1 DEF ShineThread, Start, Flags, Poll, Debounce, SwitchOn, StayOn, SwitchOff, StayOff, Guard, Exit,
     StayOnPage, ExitSave, Leave, Sleep, MayExit
<1>3. ASSUME ~Manual, NEW c \in Chan PROVE Share(c)'
  <2>1. Share(c)
    BY <1>3 DEF Lit, Share
  <2>n. ch \in Chan /\ NCh \in Nat /\ Chan = 1 .. NCh /\ c \in 1 .. NCh /\ ch \in 1 .. NCh
    BY Typed
  <2>2. ASSUME UNCHANGED <<status, now, ran, stage, large, old>>, pc # "guard",
               c \in status \cap old /\ Ahead(c) => Ahead(c)'
        PROVE  Share(c)'
    <3>1. c \in status \cap old => c \notin hot
      BY <2>1, <2>2, CoolElsewhere
    <3> QED
      BY <1>2, <2>1, <2>2, <3>1, ShareKept
  <2>3. CASE Start
    BY <2>2, <2>3 DEF Start, Ahead, shared
  <2>4. CASE Flags
    <3>1. status' = status
      BY <2>4 DEF Flags, Sound, Quiet
    <3> QED
      BY <2>2, <2>4, <3>1 DEF Flags, Ahead
  <2>5. CASE Poll
    <3>1. Ahead(c)'
      BY <2>5, <2>n DEF Poll, NextChannel, Ahead
    <3> QED
      BY <2>2, <2>5, <3>1 DEF Poll, shared
  <2>6. CASE Debounce
    <3>1. Ahead(c)'
      BY <2>6, <2>n DEF Debounce, NextChannel, Ahead
    <3>2. UNCHANGED <<status, now, stage, large>>
      BY <2>6, AtRest DEF Sound
    <3> QED
      BY <2>2, <2>6, <3>1, <3>2 DEF Debounce
  <2>7. CASE SwitchOn
    <3>1. c = ch => Share(c)'
      BY <1>3, <2>1, <2>7, ShareOn
    <3>2. ASSUME c # ch PROVE Share(c)'
      <4>1. /\ ran'[c] = ran[c] /\ now'[c] = now[c] /\ stage'[c] = stage[c] /\ large'[c] = large[c]
            /\ (c \in status' <=> c \in status) /\ (c \in old' <=> c \in old)
        BY <2>7, <3>2, Typed DEF SwitchOn, NowAtStart
      <4>2. Ahead(c) => Ahead(c)'
        BY <2>7, <3>2 DEF SwitchOn, Ahead
      <4>3. c \in status \cap old => c \notin hot
        BY <2>1, <3>2, CoolElsewhere
      <4> QED
        BY <1>2, <2>1, <4>1, <4>2, <4>3, ShareKept
    <3> QED
      BY <3>1, <3>2
  <2>8. CASE StayOn
    BY <2>2, <2>8 DEF StayOn, Ahead, shared
  <2>9. CASE SwitchOff
    <3>1. ch \notin status /\ old' = old \ {ch} /\ UNCHANGED <<status, now, ran, stage, large>> /\ pc = "switch"
          /\ pc' = "save" /\ ch' = ch
      BY <2>9 DEF SwitchOff
    <3>2. CASE c = ch
      <4>1. Full' = Full
        BY <1>2 DEF Full, Automatic
      <4> QED
        BY <2>1, <3>1, <3>2, <4>1 DEF Share
    <3>3. CASE c # ch
      <4>1. Ahead(c) => Ahead(c)'
        BY <2>n, <3>1, <3>3 DEF Ahead
      <4>2. c \in status \cap old => c \notin hot
        BY <2>1, <3>3, CoolElsewhere
      <4>3. c \in old' <=> c \in old
        BY <3>1, <3>3
      <4> QED
        BY <1>2, <2>1, <3>1, <4>1, <4>2, <4>3, ShareKept
    <3> QED
      BY <3>2, <3>3
  <2>10. CASE StayOff
    <3>1. c \in status \cap old /\ Ahead(c) => Ahead(c)'
      BY <2>10, <2>n DEF StayOff, NextChannel, Ahead
    <3> QED
      BY <2>2, <2>10, <3>1 DEF StayOff, shared
  <2>11. CASE Guard
    <3>1. c = ch => Share(c)'
      BY <1>3, <2>1, <2>11, ShareAtGuard
    <3>2. ASSUME c # ch PROVE Share(c)'
      <4>1. /\ ran'[c] = ran[c] /\ now'[c] = now[c] /\ stage'[c] = stage[c] /\ large'[c] = large[c]
            /\ (c \in status' <=> c \in status) /\ (c \in old' <=> c \in old)
        BY <2>11, <3>2, Typed DEF Guard
      <4>2. Ahead(c) => Ahead(c)'
        BY <2>11, <2>n, <3>2 DEF Guard, NextChannel, Ahead
      <4>3. c \in status \cap old => c \notin hot
        BY <2>1, <3>2, CoolElsewhere
      <4> QED
        BY <1>2, <2>1, <4>1, <4>2, <4>3, ShareKept
    <3> QED
      BY <3>1, <3>2
  <2>12. CASE Exit \/ ExitSave \/ Leave
    BY <1>1, <2>12 DEF Exit, MayExit, ExitSave, Leave
  <2>13. CASE StayOnPage
    BY <2>2, <2>13 DEF StayOnPage, Ahead, shared
  <2>14. CASE Sleep
    <3>1. UNCHANGED <<status, stage, large, old>> /\ pc = "sleep" /\ pc' = "flags"
      BY <2>14 DEF Sleep
    <3>2. CASE ~(time + 1 >= LoopsPerSec)
      <4>1. UNCHANGED <<now, ran>>
        BY <2>14, <3>2 DEF Sleep
      <4> QED
        BY <2>2, <3>1, <4>1 DEF Ahead
    <3>3. CASE time + 1 >= LoopsPerSec
      <4>1. /\ now' = [d \in Chan |-> IF d \in status THEN Capped(now[d]) ELSE now[d]]
            /\ ran' = [d \in Chan |-> IF d \in status \cap en /\ now[d] < MaxNow
                                      THEN ran[d] + 1 ELSE ran[d]]
        BY <2>14, <3>3 DEF Sleep
      <4>2. CASE c \in status \cap old
        <5>1. c \notin hot /\ ~Ahead(c) /\ c \in status \cap en /\ Counted(c)
          BY <2>1, <3>1, <4>2, CoolElsewhere DEF Ahead, Sound, Share
        <5>2. now[c] < Limit(c) /\ ran[c] = Past(c) + now[c] /\ (Multistage => large[c] < Cycle)
              /\ now[c] \in Nat /\ Limit(c) \in Nat /\ Past(c) \in Nat /\ ran[c] \in Nat
          <6>1. now[c] \in Nat /\ Limit(c) \in Nat /\ Past(c) \in Nat /\ ran[c] \in Nat
            BY Numbers
          <6>2. /\ now[c] <= Limit(c) /\ now[c] # Limit(c) /\ ran[c] = Past(c) + now[c]
                /\ Multistage => large[c] < Cycle
            BY <5>1 DEF Counted
          <6> QED
            BY <6>1, <6>2
        <5>3. Limit(c) <= MaxNow /\ MaxNow \in Nat
          <6>1. stage[c] \in 0 .. NStages - 1
            BY Typed
          <6> QED
            BY <6>1, Typed DEF Limit, Fits
        <5>4. now[c] < MaxNow
          BY <5>2, <5>3
        <5>5. now'[c] = now[c] + 1 /\ ran'[c] = ran[c] + 1
          BY <4>1, <5>1, <5>4 DEF Capped
        <5>6. Limit(c)' = Limit(c) /\ Past(c)' = Past(c) /\ (Multistage' <=> Multistage) /\ Ahead(c)'
          BY <1>2, <3>1 DEF Limit, Past, Automatic, Multistage, Ahead
        <5>7. ran'[c] = Past(c)' + now'[c] /\ now'[c] <= Limit(c)'
          BY <5>2, <5>5, <5>6
        <5>8. Counted(c)'
          BY <3>1, <5>1, <5>2, <5>6, <5>7 DEF Counted
        <5> QED
          BY <3>1, <4>2, <5>8 DEF Share
      <4>3. CASE c \notin status \cap old
        <5>1. ran'[c] = ran[c] /\ Full' = Full
          BY <1>2, <4>1, <4>3 DEF Sound, Full, Automatic
        <5> QED
          BY <2>1, <3>1, <4>3, <5>1 DEF Share
      <4> QED
        BY <4>2, <4>3
    <3> QED
      BY <3>2, <3>3
  <2> QED
    BY <2>3, <2>4, <2>5, <2>6, <2>7, <2>8, <2>9, <2>10, <2>11, <2>12, <2>13, <2>14 DEF ShineThread
<1>4. Manual' <=> Manual
  BY <1>2 DEF Manual
<1> QED
  BY <1>1, <1>3, <1>4 DEF Lit, Working, Share

\* a step that leaves the channels, the controller and the messages alone
LEMMA StillCourse ==
    ASSUME Waiting \/ Entered \/ Left \/ Lit,
           UNCHANGED <<en, old, status, ran, pc, presses, queue, page, running, mode, ch, now, stage, large, hot>>,
           lpc \in {"edge", "recv"} => lpc' \in {"edge", "recv"},
           lpc \in {"init", "create"} => lpc' \in {"init", "create"}
    PROVE  (Waiting \/ Entered \/ Left \/ Lit)'
<1>1. NothingLit => NothingLit'
  BY DEF NothingLit
<1>2. Working => Working'
  BY DEF Working
<1>3. Waiting => Waiting'
  BY <1>1 DEF Waiting
<1>4. Entered => Entered'
  BY <1>1, <1>2 DEF Entered
<1>5. Left => Left'
  BY <1>1 DEF Left
<1>6. CASE Lit
  <2>1. /\ Full' = Full /\ (Multistage' <=> Multistage) /\ (Manual' <=> Manual)
        /\ \A c \in Chan : Past(c)' = Past(c) /\ Limit(c)' = Limit(c) /\ (Ahead(c)' <=> Ahead(c))
    BY DEF Full, Multistage, Manual, Automatic, Past, Limit, Ahead
  <2>2. \A c \in Chan : Counted(c) => Counted(c)'
    BY <2>1 DEF Counted
  <2> QED
    BY <1>2, <1>6, <2>1, <2>2 DEF Lit
<1> QED
  BY <1>3, <1>4, <1>5, <1>6

\* what the panel thread does to it
LEMMA LcdCourse ==
    ASSUME TypeOK, Sound, Waiting \/ Entered \/ Left \/ Lit, LcdThread, UNCHANGED hot
    PROVE  en' = old' /\ (pc' = "guard" => ch' \in old') /\ (Waiting \/ Entered \/ Left \/ Lit)'
<1>1. CASE LcdEdge
  <2>1. lpc = "edge" /\ lpc' \in {"edge", "recv"}
    BY <1>1 DEF LcdEdge, LcdNext, Sound, Quiet
  <2>2. UNCHANGED <<en, old, status, ran, pc, presses, queue, page, running, mode, ch, now, stage, large>>
    BY <1>1 DEF LcdEdge, pins, thread, inputs, bounds
  <2> QED
    BY <2>1, <2>2, StillCourse DEF Sound
<1>2. CASE ShineInit
  <2>1. lpc = "init" /\ lpc' = "create"
    BY <1>2 DEF ShineInit
  <2>2. UNCHANGED <<en, old, status, ran, pc, presses, queue, page, running, mode, ch, now, stage, large>>
    BY <1>2 DEF ShineInit, pins, thread, inputs, bounds
  <2> QED
    BY <2>1, <2>2, StillCourse DEF Sound
<1>3. CASE ShineCreate
  <2>1. Entered /\ lch = 0 /\ lpc = "create"
    BY <1>3 DEF ShineCreate, Waiting, Left, Lit, Sound, Quiet
  <2>2. /\ lpc' = "edge" /\ pc' = "start" /\ old' = {}
        /\ UNCHANGED <<en, status, ran, presses, queue, page, running>>
    BY <1>3, <2>1 DEF ShineCreate, pins, shared, inputs, bounds
  <2>3. NothingLit' /\ en' = {}
    BY <2>1, <2>2 DEF Entered, NothingLit
  <2>4. Entered'
    BY <2>1, <2>2, <2>3 DEF Entered, Working
  <2> QED
    BY <2>2, <2>3, <2>4
<1>4. CASE LcdRun
  BY <1>4 DEF LcdRun, Sound, Quiet
<1>5. CASE LcdCommand
  <2>1. /\ lpc = "recv" /\ queue # <<>> /\ queue' = Tail(queue) /\ queue \in Seq(Message)
        /\ Head(queue) = queue[1] /\ Head(queue) \in Message
        /\ UNCHANGED <<en, old, ran, presses, page, pc, ch>>
    BY <1>5, Typed DEF LcdCommand, pins, thread, inputs, bounds
  <2>2. Len(queue) \in Nat \ {0} /\ Len(queue') = Len(queue) - 1
        /\ \A i \in 1 .. Len(queue') : queue'[i] = queue[i + 1]
    BY <2>1
  <2>3. CASE Waiting
    <3>1. Head(queue).btn = "enter" /\ presses \in {1, 2}
      BY <2>1, <2>3 DEF Waiting
    <3>2. running' /\ lpc' = "init" /\ status' = status
      BY <1>5, <3>1 DEF LcdCommand, Enter
    <3>3. NothingLit'
      BY <2>1, <2>3, <3>2 DEF Waiting, NothingLit
    <3>4. \/ presses' = 1 /\ queue' = <<>> /\ page' = "shine"
          \/ presses' = 2 /\ Len(queue') = 1 /\ queue'[1].btn # "enter"
      <4>1. CASE presses = 1
        <5>1. Len(queue) = 1 /\ page = "shine"
          BY <2>3, <4>1 DEF Waiting
        <5>2. queue' = <<>>
          BY <2>1, <5>1
        <5> QED
          BY <2>1, <4>1, <5>1, <5>2
      <4>2. CASE presses = 2
        <5>1. Len(queue) = 2 /\ queue[2].btn # "enter"
          BY <2>3, <4>2 DEF Waiting
        <5>2. Len(queue') = 1 /\ queue'[1] = queue[2]
          BY <2>2, <5>1
        <5> QED
          BY <2>1, <4>2, <5>1, <5>2
      <4> QED
        BY <3>1, <4>1, <4>2
    <3>5. Entered'
      BY <2>1, <2>3, <3>2, <3>3, <3>4 DEF Entered, Waiting
    <3> QED
      BY <2>1, <3>5 DEF Sound
  <2>4. CASE Entered
    <3>1. /\ presses' = 2 /\ queue' = <<>> /\ Head(queue).btn # "enter" /\ Working /\ NothingLit
          /\ presses = 2
      <4>1. presses = 2 /\ Len(queue) = 1 /\ queue[1].btn # "enter"
        BY <2>1, <2>4 DEF Entered
      <4>2. queue' = <<>>
        BY <2>1, <4>1
      <4> QED
        BY <2>1, <2>4, <4>1, <4>2 DEF Entered
    <3>2. CASE Head(queue).btn = "back"
      <4>1. lpc' = "edge" /\ status' = status
        BY <1>5, <3>2 DEF LcdCommand, Back
      <4>2. Left'
        BY <2>1, <3>1, <4>1 DEF Left, NothingLit
      <4> QED
        BY <2>1, <4>2 DEF Sound
    <3>3. CASE Head(queue).btn = "off"
      <4>1. lpc' = "edge" /\ running' = running /\ status' = status \ {Head(queue).ch}
        BY <1>5, <3>3 DEF LcdCommand, OnOff
      <4>2. NothingLit' /\ Working'
        BY <2>1, <3>1, <4>1 DEF NothingLit, Working
      <4>3. Entered'
        BY <3>1, <4>1, <4>2 DEF Entered, Working
      <4> QED
        BY <2>1, <4>3 DEF Sound
    <3>4. CASE Head(queue).btn = "on"
      <4>1. lpc' = "edge" /\ running' = running
        BY <1>5, <3>4 DEF LcdCommand, OnOff
      <4>2. Working'
        BY <2>1, <3>1, <4>1 DEF Working
      <4>3. old' = {} /\ \A c \in Chan : ran'[c] = 0
        BY <2>1, <3>1 DEF NothingLit, Zero
      <4>4. Lit'
        BY <3>1, <4>1, <4>2, <4>3 DEF Lit
      <4> QED
        BY <2>1, <4>4 DEF Sound
    <3> QED
      BY <2>1, <3>1, <3>2, <3>3, <3>4 DEF Message
  <2> QED
    BY <2>1, <2>3, <2>4 DEF Left, Lit
<1>6. CASE LcdTimeout
  <2>1. lpc = "recv" /\ lpc' = "edge"
    BY <1>6 DEF LcdTimeout
  <2>2. UNCHANGED <<en, old, status, ran, pc, presses, queue, page, running, mode, ch, now, stage, large>>
    BY <1>6 DEF LcdTimeout, pins, shared, thread, inputs, bounds
  <2> QED
    BY <2>1, <2>2, StillCourse DEF Sound
<1> QED
  BY <1>1, <1>2, <1>3, <1>4, <1>5, <1>6 DEF LcdThread

\* what a press of the operator does to it
LEMMA PressCourse ==
    ASSUME TypeOK, Sound, Waiting \/ Entered \/ Left \/ Lit, NEW b \in Buttons, NEW c \in 0 .. NCh, Press(b, c),
           presses' <= 2
    PROVE  en' = old' /\ (pc' = "guard" => ch' \in old') /\ (Waiting \/ Entered \/ Left \/ Lit)'
<1> DEFINE m == [btn |-> b, ch |-> c]
<1>1. /\ page = (IF b = "enter" THEN "home" ELSE "shine") /\ page' = (IF b = "back" THEN "home" ELSE "shine")
      /\ queue' = Append(queue, m) /\ m \in Message /\ m.btn = b /\ queue \in Seq(Message)
      /\ presses' = presses + 1 /\ presses \in Nat
      /\ UNCHANGED <<en, old, status, ran, pc, ch, running, lpc>>
  BY Typed DEF Press, pins, shared, thread
<1> HIDE DEF m
<1>2. presses \in {0, 1} /\ (Waiting \/ Entered)
  BY <1>1 DEF Left, Lit
<1>3. NothingLit'
  BY <1>1, <1>2 DEF Waiting, Entered, NothingLit
<1>4. CASE Waiting /\ presses = 0
  <2>1. b = "enter" /\ queue = <<>>
    BY <1>1, <1>4 DEF Waiting
  <2>2. Len(queue') = 1 /\ queue'[1].btn = "enter" /\ page' = "shine" /\ presses' = 1
    BY <1>1, <1>4, <2>1
  <2>3. Waiting'
    BY <1>1, <1>3, <1>4, <2>2 DEF Waiting
  <2> QED
    BY <1>1, <2>3 DEF Sound
<1>5. CASE Waiting /\ presses = 1
  <2>1. b # "enter" /\ Len(queue) = 1 /\ queue[1].btn = "enter"
    BY <1>1, <1>5 DEF Waiting
  <2>2. Len(queue') = 2 /\ queue'[1] = queue[1] /\ queue'[2] = m /\ presses' = 2
    <3>1. queue \in Seq(Message) /\ m \in Message /\ queue' = Append(queue, m)
      BY <1>1
    <3>2. /\ Len(queue') = Len(queue) + 1 /\ queue'[Len(queue) + 1] = m
          /\ \A i \in 1 .. Len(queue) : queue'[i] = queue[i]
      BY <3>1
    <3>3. 1 \in 1 .. Len(queue) /\ Len(queue) + 1 = 2
      BY <2>1
    <3> QED
      BY <1>1, <1>5, <3>2, <3>3
  <2>3. Waiting'
    BY <1>1, <1>3, <1>5, <2>1, <2>2 DEF Waiting
  <2> QED
    BY <1>1, <2>3 DEF Sound
<1>6. CASE Entered
  <2>1. b # "enter" /\ queue = <<>> /\ presses = 1
    BY <1>1, <1>2, <1>6 DEF Entered
  <2>2. Len(queue') = 1 /\ queue'[1].btn # "enter" /\ presses' = 2
    BY <1>1, <2>1
  <2>3. Entered'
    BY <1>1, <1>3, <1>6, <2>2 DEF Entered, Working
  <2> QED
    BY <1>1, <2>3 DEF Sound
<1> QED
  BY <1>2, <1>4, <1>5, <1>6

LEMMA LengthStep == ASSUME Fits PROVE TypeOK /\ LengthInv /\ [Next]_vars => LengthInv'
<1> SUFFICES ASSUME TypeOK, LengthInv, [Next]_vars, Undisturbed'
             PROVE  Sound' /\ (Waiting \/ Entered \/ Left \/ Lit)'
  BY DEF LengthInv
<1>1. Sound /\ (Waiting \/ Entered \/ Left \/ Lit) /\ UNCHANGED <<dark, hot, low, edges>>
  BY CalmStep DEF LengthInv
<1>2. Quiet' /\ dark' = {}
  <2>1. edges' = 0
    BY DEF Undisturbed
  <2> QED
    BY <1>1, <2>1, QuietStep DEF Sound
<1> SUFFICES en' = old' /\ (pc' = "guard" => ch' \in old') /\ (Waiting \/ Entered \/ Left \/ Lit)'
  BY <1>2 DEF Sound
<1>3. CASE ShineThread
  <2>1. en' = old' /\ (pc' = "guard" => ch' \in old')
    BY <1>1, <1>3, OwnStep
  <2>2. /\ UNCHANGED <<running, lpc, queue, page, presses>> /\ pc # "none"
        /\ pc' = "none" => pc = "leave"
        /\ pc' \in {"exitsave", "leave"} => pc = "exitsave" \/ ~running
    BY <1>3, ShineFrame DEF lcd, inputs, bounds
  <2>3. CASE Entered
    <3>1. NothingLit'
      BY <1>1, <1>3, <2>3, DarkStep DEF Entered
    <3>2. Working /\ lpc \in {"edge", "recv"}
      BY <2>2, <2>3 DEF Entered
    <3>3. Working'
      BY <2>2, <3>2 DEF Working
    <3>4. Entered'
      BY <2>2, <2>3, <3>1, <3>2, <3>3 DEF Entered
    <3> QED
      BY <2>1, <3>4
  <2>4. CASE Left
    <3>1. NothingLit'
      BY <1>1, <1>3, <2>4, DarkStep DEF Left
    <3>2. Left'
      BY <2>2, <2>4, <3>1 DEF Left
    <3> QED
      BY <2>1, <3>2
  <2>5. CASE Lit
    BY <1>1, <1>3, <2>1, <2>5, LitStep
  <2> QED
    BY <1>1, <2>2, <2>3, <2>4, <2>5 DEF Waiting
<1>4. CASE UNCHANGED <<en, old, status, ran, pc, presses, queue, page, running, mode, ch, now, stage, large, lpc>>
  BY <1>1, <1>4, StillCourse DEF Sound
<1>5. ASSUME NEW c \in Chan, LightOff(c)
      PROVE UNCHANGED <<en, old, status, ran, pc, presses, queue, page, running, mode, ch, now, stage, large, lpc>>
  BY <1>5 DEF LightOff, shared, thread, lcd, inputs, bounds
<1>6. CASE LcdThread
  BY <1>1, <1>6, LcdCourse
<1>7. ASSUME NEW b \in Buttons, NEW c \in 0 .. NCh, Press(b, c)
      PROVE  en' = old' /\ (pc' = "guard" => ch' \in old') /\ (Waiting \/ Entered \/ Left \/ Lit)'
  BY <1>1, <1>7, PressCourse DEF Undisturbed
<1>8. ASSUME NEW c \in Chan PROVE ~InputEdge(c) /\ ~TempChange(c) /\ ~FeedbackChange(c)
  <2>1. edges = 0 /\ faults = 0 /\ edges' = 0 /\ faults' = 0
    BY CalmStep DEF Undisturbed
  <2> QED
    BY <2>1 DEF InputEdge, TempChange, FeedbackChange
<1>9. ASSUME NEW m \in ModeSet, SetMode(m)
      PROVE UNCHANGED <<en, old, status, ran, pc, presses, queue, page, running, mode, ch, now, stage, large, lpc>>
  BY <1>9 DEF SetMode, pins, thread, lcd, inputs, bounds
<1>10. CASE UNCHANGED vars
  BY <1>4, <1>10 DEF vars, pins, shared, thread, lcd, inputs, bounds
<1> QED
  BY <1>3, <1>4, <1>5, <1>6, <1>7, <1>8, <1>9, <1>10 DEF Next, Surroundings

\* An automatic or multistage irradiation that nothing interrupts lasts to the second as long as it
\* is set to, in any of the channels, with any recipe and number of rounds (shine.c:439, shine.c:740).
THEOREM LengthKept == ASSUME Fits PROVE Spec => []UninterruptedLength
<1>1. Init => LengthInv
  <2> SUFFICES ASSUME Init PROVE Sound /\ Waiting
    BY DEF LengthInv
  <2>1. Sound
    BY DEF Init, Sound, Quiet
  <2>2. Waiting
    BY DEF Init, Waiting, NothingLit
  <2> QED
    BY <2>1, <2>2
<1>2. TypeOK /\ LengthInv /\ [Next]_vars => LengthInv'
  BY LengthStep
<1>3. TypeOK /\ LengthInv => UninterruptedLength
  <2> SUFFICES ASSUME TypeOK, LengthInv, ~Manual, presses = 2, edges = 0, faults = 0,
                      NEW c \in Chan, c \notin en, ran[c] > 0
               PROVE  ran[c] = Full
    BY DEF UninterruptedLength, Full
  <2>1. Sound /\ (Waiting \/ Entered \/ Left \/ Lit)
    BY DEF LengthInv, Undisturbed
  <2>2. ran[c] # 0
    BY Typed
  <2>3. Lit
    <3>1. ~NothingLit
      BY <2>2 DEF NothingLit, Zero
    <3> QED
      BY <2>1, <3>1 DEF Waiting, Entered, Left
  <2> QED
    BY <2>1, <2>2, <2>3 DEF Lit, Sound
<1> QED
  BY <1>1, <1>2, <1>3, TypeCorrect, PTL DEF Spec
=============================================================================
