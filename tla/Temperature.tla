---------------------------- MODULE Temperature ----------------------------
(***************************************************************************)
(* The temperatures of the two channels (drivers/temperature.c): one       *)
(* converter with two inputs, which the thread read_temp switches over and *)
(* reads in turn.  Both waits for the converter end after 151 polls.       *)
(*                                                                         *)
(* A temperature is the number of the channel on which it was measured,    *)
(* or 0, which stands for "not read" and for a value above 100.            *)
(* Names common to all modules begin with Temp here: DriverProofs extends  *)
(* this module together with PanelRx.                                      *)
(***************************************************************************)
EXTENDS Naturals

Channel == {1, 2}

CONSTANT Polls      \* the polls after which a wait ends (150 in the code)

ASSUME PollsAssumption == Polls \in Nat

VARIABLES
    count_i,    \* polls in the present wait
    conf,       \* external: the input the converter measures
    task,       \* what read_temp does next, and for which channel
    Temp,       \* Temp1 and Temp2
    late        \* history: the channels whose last configuration timed out
tempVars == <<count_i, conf, task, Temp, late>>

TempTypeOK ==
    /\ count_i \in 0 .. Polls /\ conf \in Channel /\ late \subseteq Channel
    /\ task \in {"configure", "read"} \X Channel
    /\ Temp \in [Channel -> Channel \cup {0}]

\* the converter has its own supply
TempInit == count_i = 0 /\ conf \in Channel /\ task = <<"configure", 1>> /\ Temp = [c \in Channel |-> 0] /\ late = {}

\* mutant: the two input selections are swapped
Selected_Swapped(c) == 3 - c
\* mutant: always the first one
Selected_First(c) == 1
\* 0x40 and 0x41
Selected(c) == c

\* while(SDO): the converter has nothing to say yet
Poll == count_i < Polls /\ count_i' = count_i + 1 /\ UNCHANGED <<conf, task, Temp, late>>

\* Con_CS1238: the converter is ready
Configure(c) ==
    /\ task = <<"configure", c>> /\ task' = <<"read", c>>
    /\ conf' = Selected(c) /\ late' = late \ {c}
    /\ count_i' = 0 /\ UNCHANGED Temp

\* or it is not: the configuration is left out, and the reading goes on as if nothing had happened
ConfigureTimeout(c) ==
    /\ count_i = Polls
    /\ task = <<"configure", c>> /\ task' = <<"read", c>>
    /\ late' = late \cup {c}
    /\ count_i' = 0 /\ UNCHANGED <<conf, Temp>>

\* Read_CS1238 and the scaling: the value, or 0 for one above 100
Read(c) ==
    /\ task = <<"read", c>> /\ task' = <<"configure", 3 - c>>
    /\ \E t \in {conf, 0} : Temp' = [Temp EXCEPT ![c] = t]
    /\ count_i' = 0 /\ UNCHANGED <<conf, late>>

\* or 0 after a timeout
ReadTimeout(c) ==
    /\ count_i = Polls
    /\ task = <<"read", c>> /\ task' = <<"configure", 3 - c>>
    /\ Temp' = [Temp EXCEPT ![c] = 0]
    /\ count_i' = 0 /\ UNCHANGED <<conf, late>>

TempNext == Poll \/ \E c \in Channel : Configure(c) \/ ConfigureTimeout(c) \/ Read(c) \/ ReadTimeout(c)

TempSpec == TempInit /\ [][TempNext]_tempVars

\* the thread goes on
TempFairSpec == TempSpec /\ WF_tempVars(TempNext)

\* The two readings are never exchanged, whatever times out: a lamp can be judged by the
\* other one's temperature, but not both at a time (temperature.c:68, temperature.c:168).
NeverSwapped == ~(Temp[1] = 2 /\ Temp[2] = 1)

\* Once the converter can be configured in time again, no channel is judged by the other one's
\* temperature any more (temperature.c:68).
OwnInTheEnd == <>[](late = {}) => \A c \in Channel : <>[](Temp[c] \in {0, c})
=============================================================================
