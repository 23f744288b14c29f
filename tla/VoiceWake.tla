------------------------------- MODULE VoiceWake -------------------------------
(***************************************************************************)
(* How long the robot stays awake (app/src/voice_message_prase.c): the     *)
(* thread voice_sleep_cheak counts g_th_cb_time down once a second and     *)
(* tells the screen when the dialogue begins and ends.  The card's         *)
(* callbacks and the main loop set the counter without a lock, so that its *)
(* decrement is a read and a write.                                        *)
(*                                                                         *)
(* The thread's other half, the cache of the last phrase, is VoiceCache.   *)
(***************************************************************************)
EXTENDS Integers

CONSTANTS
    WakeUpTime, \* TH_WAKE_UP_TIME
    MaxActivity \* how often the counter is set

ASSUME WakeUpAssumption   == WakeUpTime \in Nat \ {0, 1}
ASSUME ActivityAssumption == MaxActivity \in Nat

VARIABLES
    th_cb_time, \* g_th_cb_time
    th_wake_up, \* g_th_wake_up
    wake_up,    \* voice_sleep_cheak's local wake_up
    cheak_pc,   \* where it is in its loop
    cheak_reg,  \* the counter it has read
    screen,     \* what the screen was told last
    exit_asked, \* has the cloud ended the dialogue since the last activity?
    idle,       \* the seconds since the last activity, up to WakeUpTime
    lost,       \* has an activity been undone by the decrement it fell into?
    activities  \* the number of activities

cheakVars == <<wake_up, cheak_pc, cheak_reg, screen>>
wakeVars  == <<th_cb_time, th_wake_up, cheakVars, exit_asked, idle, lost, activities>>

WakeTypeOK ==
    /\ th_cb_time \in Int
    /\ th_wake_up \in BOOLEAN /\ wake_up \in BOOLEAN
    /\ cheak_pc \in {"flag", "read", "write", "decide", "sleep"}
    /\ cheak_reg \in Int
    /\ screen \in {"start", "stop"}
    /\ exit_asked \in BOOLEAN /\ lost \in BOOLEAN
    /\ idle \in 0 .. WakeUpTime
    /\ activities \in 0 .. MaxActivity

WakeInit ==
    /\ th_cb_time = 0 /\ th_wake_up = FALSE /\ wake_up = FALSE
    /\ cheak_pc = "flag" /\ cheak_reg = 0
    /\ screen = "stop"
    /\ exit_asked = FALSE /\ idle = WakeUpTime /\ lost = FALSE /\ activities = 0
-------------------------------------------------------------------------------
\* The counter is set; a decrement under way will overwrite it, one that was just made
\* is judged by what it wrote.
SetTime(t, asked) ==
    /\ activities < MaxActivity
    /\ activities' = activities + 1
    /\ th_cb_time' = t
    /\ exit_asked' = asked
    /\ idle' = IF asked THEN idle ELSE 0
    /\ lost' = (lost \/ cheak_pc \in {"write", "decide"})
    /\ UNCHANGED cheakVars

\* wakeup_callback of the card's library.
WakeupCallback == SetTime(WakeUpTime + 2, FALSE) /\ th_wake_up' = TRUE

\* asr_callback of the card's library, and app_do_parse_dui of the main loop.
ResultArrives == SetTime(WakeUpTime, FALSE) /\ UNCHANGED th_wake_up

\* app_do_parse_dui for the errors 010416 and 010403: the dialogue is over.
CloudExits == SetTime(-1, TRUE) /\ UNCHANGED th_wake_up

rest == <<exit_asked, lost, activities>>

\* Slip: the screen is told, but nothing counts down.
FlagWithoutCountdown ==
    /\ cheak_pc = "flag"
    /\ th_wake_up' = FALSE
    /\ screen' = IF th_wake_up THEN "start" ELSE screen
    /\ cheak_pc' = IF wake_up THEN "read" ELSE "sleep"
    /\ UNCHANGED <<th_cb_time, wake_up, cheak_reg, idle, rest>>

CheakFlag ==
    /\ cheak_pc = "flag"
    /\ th_wake_up' = FALSE
    /\ wake_up' = (wake_up \/ th_wake_up)
    /\ screen' = IF th_wake_up THEN "start" ELSE screen
    /\ cheak_pc' = IF wake_up' THEN "read" ELSE "sleep"
    /\ UNCHANGED <<th_cb_time, cheak_reg, idle, rest>>

CheakRead ==
    /\ cheak_pc = "read"
    /\ cheak_reg' = th_cb_time
    /\ cheak_pc' = "write"
    /\ UNCHANGED <<th_cb_time, th_wake_up, wake_up, screen, idle, rest>>

CheakWrite ==
    /\ cheak_pc = "write"
    /\ th_cb_time' = cheak_reg - 1
    /\ cheak_reg' = cheak_reg - 1
    /\ cheak_pc' = "decide"
    /\ UNCHANGED <<th_wake_up, wake_up, screen, idle, rest>>

decideRest == <<th_wake_up, idle, rest>>
Decide     == cheak_pc = "decide" /\ cheak_pc' = "sleep" /\ cheak_reg' = 0
TellStop   == wake_up' = FALSE /\ screen' = "stop"

\* Slip: one decrement too early.
DecideEarly ==
    /\ Decide
    /\ \/ cheak_reg <= 1 /\ TellStop
       \/ cheak_reg > 1 /\ UNCHANGED <<wake_up, screen>>
    /\ UNCHANGED <<th_cb_time, decideRest>>

\* What was written decides whether the time is over, the counter by now what follows:
\* above -5 the end, below it the end and a repair, at -5 nothing.
CheakDecide ==
    /\ Decide
    /\ \/ /\ cheak_reg > 0 \/ th_cb_time = -5
          /\ UNCHANGED <<th_cb_time, wake_up, screen>>
       \/ /\ cheak_reg <= 0 /\ th_cb_time > -5
          /\ TellStop /\ UNCHANGED th_cb_time
       \/ /\ cheak_reg <= 0 /\ th_cb_time < -5
          /\ TellStop /\ th_cb_time' = 0
    /\ UNCHANGED decideRest

\* sleep(1)
CheakSleeps ==
    /\ cheak_pc = "sleep"
    /\ idle' = IF idle < WakeUpTime THEN idle + 1 ELSE idle
    /\ cheak_pc' = "flag"
    /\ UNCHANGED <<th_cb_time, th_wake_up, wake_up, cheak_reg, screen, rest>>

Cheak == CheakFlag \/ CheakRead \/ CheakWrite \/ CheakDecide \/ CheakSleeps

WakeNext == WakeupCallback \/ ResultArrives \/ CloudExits \/ Cheak

WakeSpec == WakeInit /\ [][WakeNext]_wakeVars
-------------------------------------------------------------------------------
(***************************************************************************)
(* However many activities fall into decrements and are undone, the        *)
(* counter falls to -6 at most: there it is repaired.                      *)
(***************************************************************************)
CounterRepaired == th_cb_time >= -6

(***************************************************************************)
(* The screen is told the end no sooner than the time to stay awake after  *)
(* the last activity (less the second that had begun), unless the cloud    *)
(* ended the dialogue or the activity fell into a decrement.               *)
(***************************************************************************)
StopNotEarly ==
    [][screen = "start" /\ screen' = "stop" /\ ~exit_asked /\ ~lost
       => idle >= WakeUpTime - 1]_wakeVars

\* A dialogue nothing is heard of any more ends, and the screen is told.
DialogueSleeps == screen = "start" \/ th_wake_up ~> screen = "stop" /\ ~th_wake_up
===============================================================================
