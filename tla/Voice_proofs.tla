----------------------------- MODULE Voice_proofs -----------------------------
(***************************************************************************)
(* Theorems about what surrounds the TH card.  Of voice_message_prase.c:   *)
(* VoiceWake, for any time to stay awake, VoiceCache, for any phrases, and *)
(* GuiLink, for commands of any number of pieces; each for any number of   *)
(* calls.  Of TH_process.c: the watch dog and the questions of             *)
(* ThProcessor, for any limits of its three modes and any number of late   *)
(* answers.                                                                *)
(***************************************************************************)
EXTENDS ThProcessor, VoiceWake, VoiceCache, GuiLink, SequenceTheorems, TLAPS

(***************************************************************************)
(* VoiceWake: the counter passes -5 only by a decrement, and is repaired   *)
(* before the next.                                                        *)
(***************************************************************************)
CounterType ==
    /\ th_cb_time \in Int /\ cheak_reg \in Int
    /\ cheak_pc \in {"flag", "read", "write", "decide", "sleep"}

CounterInv ==
    /\ CounterType
    /\ th_cb_time >= -6
    /\ cheak_pc = "write" => cheak_reg >= -5
    /\ th_cb_time = -6 => cheak_pc = "decide" /\ cheak_reg = -6

LEMMA CounterStep == CounterInv /\ [WakeNext]_wakeVars => CounterInv'
<1> SUFFICES ASSUME CounterInv, [WakeNext]_wakeVars PROVE CounterInv'
  OBVIOUS
<1> USE WakeUpAssumption DEF CounterInv, CounterType
<1>1. CASE WakeupCallback
  BY <1>1 DEF WakeupCallback, SetTime, cheakVars
<1>2. CASE ResultArrives
  BY <1>2 DEF ResultArrives, SetTime, cheakVars
<1>3. CASE CloudExits
  BY <1>3 DEF CloudExits, SetTime, cheakVars
<1>4. CASE CheakFlag
  <2>1. /\ cheak_pc' \in {"read", "sleep"} /\ th_cb_time' = th_cb_time /\ cheak_reg' = cheak_reg
        /\ cheak_pc = "flag"
    BY <1>4 DEF CheakFlag
  <2> QED BY <2>1
<1>5. CASE CheakRead
  BY <1>5 DEF CheakRead
<1>6. CASE CheakWrite
  BY <1>6 DEF CheakWrite
<1>7. CASE CheakDecide
  BY <1>7 DEF CheakDecide, Decide
<1>8. CASE CheakSleeps
  BY <1>8 DEF CheakSleeps
<1>9. CASE UNCHANGED wakeVars
  BY <1>9 DEF wakeVars, cheakVars
<1> QED BY <1>1, <1>2, <1>3, <1>4, <1>5, <1>6, <1>7, <1>8, <1>9 DEF WakeNext, Cheak

(***************************************************************************)
(* However many activities fall into decrements, the counter falls to -6   *)
(* at most.                                                                *)
(***************************************************************************)
THEOREM CounterRepairedAlways == WakeSpec => []CounterRepaired
<1>1. WakeInit => CounterInv
  BY DEF WakeInit, CounterInv, CounterType
<1>2. CounterInv => CounterRepaired
  BY DEF CounterInv, CounterRepaired
<1> QED BY <1>1, <1>2, CounterStep, PTL DEF WakeSpec

(***************************************************************************)
(* The counter has no less left than the time to stay awake and not yet    *)
(* passed, less the second a decrement has counted in advance.             *)
(***************************************************************************)
Counted == IF cheak_pc \in {"decide", "sleep"} THEN 1 ELSE 0

TimeLeft ==
    ~exit_asked /\ ~lost =>
        /\ idle < WakeUpTime => th_cb_time >= WakeUpTime - idle - Counted
        /\ cheak_pc \in {"write", "decide"} => cheak_reg = th_cb_time

TimeInv == CounterType /\ idle \in 0 .. WakeUpTime /\ TimeLeft

LEMMA TimeStep == CounterInv /\ TimeInv /\ [WakeNext]_wakeVars => TimeInv'
<1> SUFFICES ASSUME CounterInv, TimeInv, [WakeNext]_wakeVars PROVE TimeInv'
  OBVIOUS
<1>1. CounterType'
  BY CounterStep DEF CounterInv
<1> USE <1>1, WakeUpAssumption DEF TimeInv, CounterType, TimeLeft, Counted, rest
<1>2. ASSUME NEW t \in Int, t >= WakeUpTime, SetTime(t, FALSE) PROVE TimeInv'
  <2>1. /\ th_cb_time' = t /\ idle' = 0
        /\ cheak_pc' = cheak_pc /\ cheak_reg' = cheak_reg
    BY <1>2 DEF SetTime, cheakVars
  <2>2. ~lost' => cheak_pc \notin {"write", "decide"}
    BY <1>2 DEF SetTime
  <2> QED BY <1>2, <2>1, <2>2
<1>3. CASE CloudExits
  <2>1. exit_asked' /\ idle' = idle
    BY <1>3 DEF CloudExits, SetTime
  <2> QED BY <2>1
<1>4. CASE CheakFlag
  <2>1. /\ cheak_pc' \in {"read", "sleep"} /\ th_cb_time' = th_cb_time /\ cheak_reg' = cheak_reg
        /\ cheak_pc = "flag" /\ idle' = idle /\ exit_asked' = exit_asked /\ lost' = lost
    BY <1>4 DEF CheakFlag
  <2> QED BY <2>1
<1>5. CASE CheakRead
  BY <1>5 DEF CheakRead
<1>6. CASE CheakWrite
  BY <1>6 DEF CheakWrite
<1>7. CASE CheakDecide
  BY <1>7 DEF CheakDecide, Decide, decideRest
<1>8. CASE CheakSleeps
  BY <1>8 DEF CheakSleeps
<1>9. CASE UNCHANGED wakeVars
  BY <1>9 DEF wakeVars, cheakVars
<1> HIDE DEF TimeInv
<1>10. CASE WakeupCallback
  <2>1. SetTime(WakeUpTime + 2, FALSE)
    BY <1>10 DEF WakeupCallback
  <2>2. WakeUpTime + 2 \in Int /\ WakeUpTime + 2 >= WakeUpTime
    OBVIOUS
  <2> QED BY <1>2, <2>1, <2>2, Zenon
<1>11. CASE ResultArrives
  <2>1. SetTime(WakeUpTime, FALSE)
    BY <1>11 DEF ResultArrives
  <2>2. WakeUpTime \in Int /\ WakeUpTime >= WakeUpTime
    OBVIOUS
  <2> QED BY <1>2, <2>1, <2>2, Zenon
<1> QED BY <1>3, <1>4, <1>5, <1>6, <1>7, <1>8, <1>9, <1>10, <1>11 DEF WakeNext, Cheak

LEMMA StopStep ==
    TimeInv /\ [WakeNext]_wakeVars =>
      (screen = "start" /\ screen' = "stop" /\ ~exit_asked /\ ~lost => idle >= WakeUpTime - 1)
<1> SUFFICES ASSUME TimeInv, [WakeNext]_wakeVars,
                    screen = "start", screen' = "stop", ~exit_asked, ~lost
             PROVE  idle >= WakeUpTime - 1
  OBVIOUS
<1>1. CheakDecide
  BY DEF WakeNext, Cheak, WakeupCallback, ResultArrives, CloudExits, SetTime, cheakVars,
         CheakFlag, CheakRead, CheakWrite, CheakSleeps, wakeVars
<1>2. cheak_pc = "decide" /\ cheak_reg <= 0
  BY <1>1 DEF CheakDecide, Decide
<1> QED BY <1>2, WakeUpAssumption DEF TimeInv, CounterType, TimeLeft, Counted

(***************************************************************************)
(* The screen is told the end no sooner than the code promises, whenever   *)
(* the activities come.                                                    *)
(***************************************************************************)
THEOREM StopNotEarlyAlways == WakeSpec => StopNotEarly
<1>1. WakeInit => CounterInv /\ TimeInv
  BY WakeUpAssumption DEF WakeInit, CounterInv, CounterType, TimeInv, TimeLeft
<1> QED BY <1>1, CounterStep, TimeStep, StopStep, PTL DEF WakeSpec, StopNotEarly

\* The variables of VoiceWake keep their types.
LEMMA WakeTypeAlways == WakeSpec => []WakeTypeOK
<1>1. WakeInit => WakeTypeOK
  <2>1. 0 \in Int /\ 0 \in 0 .. MaxActivity /\ WakeUpTime \in 0 .. WakeUpTime
    BY WakeUpAssumption, ActivityAssumption
  <2> QED BY <2>1, Zenon DEF WakeInit, WakeTypeOK
<1>2. WakeTypeOK /\ [WakeNext]_wakeVars => WakeTypeOK'
  <2> SUFFICES ASSUME WakeTypeOK, [WakeNext]_wakeVars PROVE WakeTypeOK'
    OBVIOUS
  <2> USE WakeUpAssumption, ActivityAssumption DEF WakeTypeOK, cheakVars, rest
  <2>1. ASSUME NEW t \in Int, NEW asked \in BOOLEAN, SetTime(t, asked), th_wake_up' \in BOOLEAN
        PROVE  WakeTypeOK'
    <3>1. lost' \in BOOLEAN /\ idle' \in 0 .. WakeUpTime /\ exit_asked' \in BOOLEAN
      BY <2>1 DEF SetTime
    <3>2. activities' \in 0 .. MaxActivity
      BY <2>1 DEF SetTime
    <3> QED BY <2>1, <3>1, <3>2 DEF SetTime
  <2>2. CASE WakeupCallback \/ ResultArrives \/ CloudExits
    <3>1. WakeUpTime \in Int /\ WakeUpTime + 2 \in Int /\ -1 \in Int
      OBVIOUS
    <3> QED BY <2>1, <2>2, <3>1 DEF WakeupCallback, ResultArrives, CloudExits
  <2>3. CASE CheakFlag
    <3>1. wake_up' \in BOOLEAN /\ th_wake_up' \in BOOLEAN
      BY <2>3, Zenon DEF CheakFlag
    <3>2. screen' \in {"start", "stop"} /\ cheak_pc' \in {"read", "sleep"}
      BY <2>3 DEF CheakFlag
    <3> QED BY <2>3, <3>1, <3>2 DEF CheakFlag
  <2>4. CASE CheakRead
    BY <2>4 DEF CheakRead
  <2>5. CASE CheakWrite
    BY <2>5 DEF CheakWrite
  <2>6. CASE CheakDecide
    <3>1. th_cb_time' \in Int /\ cheak_reg' \in Int /\ cheak_pc' = "sleep"
      BY <2>6 DEF CheakDecide, Decide
    <3>2. wake_up' \in BOOLEAN /\ screen' \in {"start", "stop"}
      BY <2>6, Zenon DEF CheakDecide, TellStop
    <3> QED BY <2>6, <3>1, <3>2 DEF CheakDecide, decideRest
  <2>7. CASE CheakSleeps
    BY <2>7 DEF CheakSleeps
  <2>8. CASE UNCHANGED wakeVars
    BY <2>8 DEF wakeVars
  <2> QED BY <2>2, <2>3, <2>4, <2>5, <2>6, <2>7, <2>8 DEF WakeNext, Cheak
<1> QED BY <1>1, <1>2, PTL DEF WakeSpec
-------------------------------------------------------------------------------
(***************************************************************************)
(* VoiceCache: a flag that is tested and set in two steps is a lock as     *)
(* long as no two were between the test and the release.                   *)
(***************************************************************************)
Inside(c)   == caller_pc[c] \in InCallerFlag \cup {"set", "set_cache"}
CheakInside == cheak_at \in InCheakFlag \cup {"set"}

CallerType ==
    /\ caller_pc \in [Callers -> {"idle", "test", "set", "act", "test_cache", "set_cache"}
                                 \cup InCallerFlag]
    /\ voice \in [Callers -> Voices \cup {Miss}]

OneInside ==
    /\ \A c, d \in Callers : Inside(c) /\ Inside(d) => c = d
    /\ \A c \in Callers : ~(Inside(c) /\ CheakInside)
    /\ \A c \in Callers : caller_pc[c] \in InCallerFlag => voice_ache_flag = 1
    /\ cheak_at \in InCheakFlag => voice_ache_flag = 1

FlagInv == CallerType /\ (~flag_raced => OneInside)

\* Who finds the flag free without a race is alone.
LEMMA TestAlone ==
    ASSUME NEW c \in Callers, NEW free, NEW taken, TestFlag(c, free, taken), ~flag_raced'
    PROVE  /\ ~flag_raced
           /\ \/ ~Holding /\ CallerGoto(c, free)
              \/ voice_ache_flag = 1 /\ CallerGoto(c, taken)
<1>1. CASE voice_ache_flag = 1 /\ CallerGoto(c, taken) /\ UNCHANGED flag_raced
  <2>1. flag_raced' = flag_raced
    BY <1>1
  <2> QED BY <1>1, <2>1
<1>2. CASE CallerGoto(c, free) /\ flag_raced' = (flag_raced \/ Holding)
  <2>1. flag_raced' = (flag_raced \/ Holding)
    BY <1>2
  <2>2. ~(flag_raced \/ Holding)
    BY <2>1
  <2> QED BY <1>2, <2>2
<1> QED BY <1>1, <1>2 DEF TestFlag

LEMMA FlagStep == FlagInv /\ [VoiceNext]_voiceVars => FlagInv'
<1> SUFFICES ASSUME FlagInv, [VoiceNext]_voiceVars PROVE FlagInv'
  OBVIOUS
<1> USE DEF FlagInv, CallerType, OneInside, Inside, CheakInside, InCallerFlag, InCheakFlag,
            Callers, CallerGoto, Holding
<1>1. ASSUME NEW c \in Callers, Caller(c) PROVE FlagInv'
  <2>1. CASE CheakTest(c)
    <3>1. TestFlag(c, "set", "act") /\ UNCHANGED <<voice_ache_flag, voice, cheak_at>>
      BY <2>1 DEF CheakTest, cache, callerRest
    <3>2. CallerGoto(c, "set") \/ CallerGoto(c, "act")
      BY <3>1 DEF TestFlag
    <3> QED BY <3>1, <3>2, TestAlone
  <2>2. CASE CheakSet(c)
    <3>1. PICK pc \in {"leave_skip", "leave_go"} : CallerGoto(c, pc)
      BY <2>2 DEF CheakSet
    <3> QED BY <2>2, <3>1 DEF CheakSet, callerRest
  <2>3. CASE CheakLeave(c)
    <3>1. PICK pc \in {"act", "idle"} : CallerGoto(c, pc)
      BY <2>3 DEF CheakLeave
    <3> QED BY <2>3, <3>1 DEF CheakLeave, callerRest
  <2>4. CASE Act(c)
    <3>1. PICK pc \in {"test_cache", "idle"} : CallerGoto(c, pc)
      BY <2>4 DEF Act
    <3> QED BY <2>4, <3>1 DEF Act, cache, callerRest
  <2>5. CASE CacheTest(c)
    <3>1. TestFlag(c, "set_cache", "idle") /\ UNCHANGED <<voice_ache_flag, voice, cheak_at>>
      BY <2>5 DEF CacheTest, cache, callerRest
    <3>2. CallerGoto(c, "set_cache") \/ CallerGoto(c, "idle")
      BY <3>1 DEF TestFlag
    <3> QED BY <3>1, <3>2, TestAlone
  <2>6. CASE CacheSet(c)
    BY <2>6 DEF CacheSet, callerRest
  <2>7. CASE CacheStoreTime(c)
    BY <2>7 DEF CacheStoreTime, callerRest
  <2> QED BY <1>1, <2>1, <2>2, <2>3, <2>4, <2>5, <2>6, <2>7 DEF Caller
<1>2. ASSUME NEW c \in Callers, NEW v \in Voices \cup {Miss}, Recognised(c, v) PROVE FlagInv'
  BY <1>2 DEF Recognised, cache
<1>3. CASE Reset
  <2>1. CASE ResetTest
    <3>1. UNCHANGED <<voice_ache_flag, caller_pc, voice>> /\ cheak_at' \in {"set", "sleep"}
      BY <2>1 DEF ResetTest, cache, callerVars
    <3>2. ~flag_raced' => ~flag_raced /\ (cheak_at' = "sleep" \/ ~Holding)
      BY <2>1, Zenon DEF ResetTest
    <3> QED BY <3>1, <3>2
  <2>2. CASE ResetSet
    <3>1. cheak_at' \in {"forget", "leave"}
      BY <2>2 DEF ResetSet
    <3> QED BY <2>2, <3>1 DEF ResetSet, resetRest, callerVars
  <2>3. CASE ResetForget
    BY <2>3 DEF ResetForget, resetRest, callerVars
  <2>4. CASE ResetLeave
    BY <2>4 DEF ResetLeave, resetRest, callerVars
  <2>5. CASE SecondPasses
    BY <2>5 DEF SecondPasses, callerVars
  <2> QED BY <1>3, <2>1, <2>2, <2>3, <2>4, <2>5 DEF Reset
<1>4. CASE UNCHANGED voiceVars
  BY <1>4 DEF voiceVars, callerVars
<1> QED BY <1>1, <1>2, <1>3, <1>4 DEF VoiceNext

(***************************************************************************)
(* The flag excludes its two users and the thread from one another,        *)
(* whatever they say, as long as no two passed its test together.          *)
(***************************************************************************)
THEOREM FlagExcludesAlways == VoiceSpec => []FlagExcludes
<1>1. VoiceInit => FlagInv
  BY DEF VoiceInit, FlagInv, CallerType, OneInside, Inside, CheakInside, InCallerFlag,
         InCheakFlag, Callers
<1>2. FlagInv => FlagExcludes
  BY DEF FlagInv, OneInside, Inside, CheakInside, FlagExcludes, InCallerFlag, InCheakFlag
<1> QED BY <1>1, <1>2, FlagStep, PTL DEF VoiceSpec

(***************************************************************************)
(* The time of the phrase in the cache is its own, and no phrase is left   *)
(* in it after the round that should have forgotten it.                    *)
(***************************************************************************)
CacheType ==
    /\ tmp_voice \in Voices \cup {None} /\ last_voice_time \in 0 .. Unset
    /\ since \in [Voices -> 0 .. Unset]
    /\ \A c \in Callers :
          caller_pc[c] \in {"test_cache", "set_cache", "store_time"} => voice[c] \in Voices

Storing == \E c \in Callers : caller_pc[c] = "store_time"

TimeOfPhrase ==
    /\ \A c \in Callers : caller_pc[c] \in {"leave_skip", "store_time"} => tmp_voice = voice[c]
    /\ tmp_voice # None /\ ~Storing =>
          /\ last_voice_time = since[tmp_voice] /\ last_voice_time <= Window
          /\ cheak_at \in {"sleep", "leave"} => last_voice_time < Window
    /\ cheak_at = "unset" => tmp_voice = None

CacheInv == CacheType /\ (~busy /\ ~flag_raced => TimeOfPhrase)

\* Who finds the flag free, alone, has found it so every time.
LEMMA TestCalm ==
    ASSUME NEW c \in Callers, NEW free, NEW taken, TestFlag(c, free, taken),
           ~busy', ~flag_raced'
    PROVE  ~busy /\ ~flag_raced /\ CallerGoto(c, free)
<1>1. ~(busy' = TRUE)
  OBVIOUS
<1>2. CallerGoto(c, free) /\ busy' = busy
  BY <1>1 DEF TestFlag
<1> QED BY <1>2, TestAlone

LEMMA CacheStep == FlagInv /\ CacheInv /\ [VoiceNext]_voiceVars => CacheInv'
<1> SUFFICES ASSUME FlagInv, CacheInv, [VoiceNext]_voiceVars PROVE CacheInv'
  OBVIOUS
<1> USE VoicesAssumption
    DEF FlagInv, CallerType, OneInside, Inside, CheakInside, InCallerFlag, InCheakFlag, Callers,
        CallerGoto, CacheInv, CacheType, TimeOfPhrase, Storing, Window, Unset
<1>1. ASSUME NEW c \in Callers, Caller(c) PROVE CacheInv'
  <2>1. CASE CheakTest(c)
    <3>1. TestFlag(c, "set", "act")
          /\ UNCHANGED <<tmp_voice, last_voice_time, since, voice, cheak_at>>
      BY <2>1 DEF CheakTest, cache, callerRest
    <3>2. ~busy' /\ ~flag_raced' => ~busy /\ ~flag_raced /\ CallerGoto(c, "set")
      BY <3>1, TestCalm
    <3>3. CallerGoto(c, "set") \/ CallerGoto(c, "act")
      BY <3>1 DEF TestFlag
    <3>4. CacheType'
      BY <3>1, <3>3
    <3>5. ASSUME ~busy, ~flag_raced, CallerGoto(c, "set") PROVE TimeOfPhrase'
      <4>1. caller_pc[c] = "test"
        BY <2>1 DEF CheakTest
      <4> QED BY <3>1, <3>5, <4>1
    <3> QED BY <3>2, <3>4, <3>5
  <2>2. CASE CheakSet(c)
    <3>1. PICK pc \in {"leave_skip", "leave_go"} :
            CallerGoto(c, pc) /\ (pc = "leave_skip" => tmp_voice = voice[c])
      BY <2>2 DEF CheakSet
    <3> QED BY <2>2, <3>1 DEF CheakSet, callerRest
  <2>3. CASE CheakLeave(c)
    <3>1. PICK pc \in {"act", "idle"} : CallerGoto(c, pc)
      BY <2>3 DEF CheakLeave
    <3> QED BY <2>3, <3>1 DEF CheakLeave, callerRest
  <2>4. CASE Act(c)
    <3>1. PICK pc \in {"test_cache", "idle"} :
            CallerGoto(c, pc) /\ (pc = "test_cache" => voice[c] \in Voices)
      BY <2>4 DEF Act
    <3> QED BY <2>4, <3>1 DEF Act, cache, callerRest
  <2>5. CASE CacheTest(c)
    <3>1. TestFlag(c, "set_cache", "idle")
          /\ UNCHANGED <<tmp_voice, last_voice_time, since, voice, cheak_at>>
      BY <2>5 DEF CacheTest, cache, callerRest
    <3>2. ~busy' /\ ~flag_raced' => ~busy /\ ~flag_raced /\ CallerGoto(c, "set_cache")
      BY <3>1, TestCalm
    <3>3. CallerGoto(c, "set_cache") \/ CallerGoto(c, "idle")
      BY <3>1 DEF TestFlag
    <3>4. caller_pc[c] = "test_cache"
      BY <2>5 DEF CacheTest
    <3>5. CacheType'
      BY <3>1, <3>3, <3>4
    <3>6. ASSUME ~busy, ~flag_raced, CallerGoto(c, "set_cache") PROVE TimeOfPhrase'
      BY <3>1, <3>4, <3>6
    <3> QED BY <3>2, <3>5, <3>6
  <2>6. CASE CacheSet(c)
    <3>1. /\ caller_pc[c] = "set_cache" /\ caller_pc' = [caller_pc EXCEPT ![c] = "store_time"]
          /\ tmp_voice' = voice[c]
          /\ UNCHANGED <<last_voice_time, voice, cheak_at, since, busy, flag_raced>>
      BY <2>6 DEF CacheSet, callerRest
    <3>2. voice[c] \in Voices
      BY <3>1
    <3>3. caller_pc'[c] = "store_time"
      BY <3>1
    <3>4. ASSUME ~busy, ~flag_raced, NEW d \in Callers, d # c
          PROVE  caller_pc'[d] \in {"idle", "test", "act", "test_cache"} /\ cheak_at # "unset"
      BY <3>1, <3>4
    <3>5. CacheType'
      BY <3>1
    <3> QED BY <3>1, <3>2, <3>3, <3>4, <3>5
  <2>7. CASE CacheStoreTime(c)
    <3>1. /\ caller_pc[c] = "store_time" /\ caller_pc' = [caller_pc EXCEPT ![c] = "idle"]
          /\ last_voice_time' = 0 /\ since' = [since EXCEPT ![voice[c]] = 0]
          /\ UNCHANGED <<tmp_voice, voice, cheak_at, busy, flag_raced>>
      BY <2>7 DEF CacheStoreTime, callerRest
    <3>2. CacheType'
      BY <3>1
    <3> QED BY <3>1, <3>2
  <2> QED BY <1>1, <2>1, <2>2, <2>3, <2>4, <2>5, <2>6, <2>7 DEF Caller
<1>2. ASSUME NEW c \in Callers, NEW v \in Voices \cup {Miss}, Recognised(c, v) PROVE CacheInv'
  BY <1>2 DEF Recognised, cache
<1>3. CASE Reset
  <2>1. CASE ResetTest
    <3>1. UNCHANGED <<tmp_voice, last_voice_time, since, caller_pc, voice>>
      BY <2>1 DEF ResetTest, cache, callerVars
    <3>2. ~busy' /\ ~flag_raced' => ~busy /\ ~flag_raced /\ cheak_at' = "set"
      BY <2>1, Zenon DEF ResetTest
    <3> QED BY <3>1, <3>2
  <2>2. CASE ResetSet
    BY <2>2 DEF ResetSet, resetRest, callerVars
  <2>3. CASE ResetForget
    BY <2>3 DEF ResetForget, resetRest, callerVars
  <2>4. CASE ResetLeave
    BY <2>4 DEF ResetLeave, resetRest, callerVars
  <2>5. CASE SecondPasses
    BY <2>5 DEF SecondPasses, callerVars
  <2> QED BY <1>3, <2>1, <2>2, <2>3, <2>4, <2>5 DEF Reset
<1>4. CASE UNCHANGED voiceVars
  BY <1>4 DEF voiceVars, callerVars
<1> QED BY <1>1, <1>2, <1>3, <1>4 DEF VoiceNext

(***************************************************************************)
(* A phrase is suppressed for two seconds at most, however the calls and   *)
(* the seconds interleave, if the flag was free whenever it was tested.    *)
(***************************************************************************)
THEOREM SkipJustifiedAlways == VoiceSpec => []SkipJustified
<1>1. VoiceInit => FlagInv /\ CacheInv
  BY DEF VoiceInit, FlagInv, CallerType, OneInside, Inside, CheakInside, InCallerFlag,
         InCheakFlag, Callers, CacheInv, CacheType, TimeOfPhrase, Unset, Window
<1>2. FlagInv /\ CacheInv => SkipJustified
  BY VoicesAssumption
     DEF FlagInv, CallerType, OneInside, Inside, InCallerFlag, CacheInv, CacheType,
         TimeOfPhrase, Storing, SkipJustified
<1> QED BY <1>1, <1>2, FlagStep, CacheStep, PTL DEF VoiceSpec

(***************************************************************************)
(* A phrase acted upon a moment ago, and the last one, is still in the     *)
(* cache: it is forgotten only when its time is over.  So whoever passed   *)
(* the comparison has another phrase, and keeps it if no call overlaps.    *)
(***************************************************************************)
RecentKept ==
    /\ \A v \in Voices : Recent(v) /\ ~Storing => tmp_voice = v
    /\ cheak_at = "forget" => last_voice_time = Window

OneCaller == \A c, d \in Callers : caller_pc[c] # "idle" /\ caller_pc[d] # "idle" => c = d

PassedOther ==
    \A c \in Callers :
        caller_pc[c] \in {"leave_go", "act"} /\ voice[c] # Miss => ~Recent(voice[c])

RepeatInv ==
    /\ ~busy /\ ~flag_raced => RecentKept
    /\ ~calls_overlap => OneCaller
    /\ ~busy /\ ~flag_raced /\ ~calls_overlap => PassedOther

\* The exceptions, once met, stay.
LEMMA ExceptionsStay ==
    FlagInv /\ [VoiceNext]_voiceVars /\ ~busy' /\ ~flag_raced' => ~busy /\ ~flag_raced
<1> SUFFICES ASSUME [VoiceNext]_voiceVars, ~busy', ~flag_raced' PROVE ~busy /\ ~flag_raced
  OBVIOUS
<1>1. ASSUME NEW c \in Callers, Caller(c) PROVE ~busy /\ ~flag_raced
  <2>1. CASE CheakTest(c)
    BY <2>1, TestCalm DEF CheakTest
  <2>2. CASE CacheTest(c)
    BY <2>2, TestCalm DEF CacheTest
  <2>3. CASE CheakSet(c) \/ CheakLeave(c) \/ Act(c) \/ CacheSet(c) \/ CacheStoreTime(c)
    BY <2>3 DEF CheakSet, CheakLeave, Act, CacheSet, CacheStoreTime
  <2> QED BY <1>1, <2>1, <2>2, <2>3 DEF Caller
<1>2. ASSUME NEW c \in Callers, NEW v \in Voices \cup {Miss}, Recognised(c, v)
      PROVE  ~busy /\ ~flag_raced
  BY <1>2 DEF Recognised
<1>3. CASE ResetTest
  <2>1. ~(busy' = TRUE)
    OBVIOUS
  <2>2. flag_raced' = (flag_raced \/ Holding) /\ busy' = busy
    BY <1>3, <2>1, Zenon DEF ResetTest
  <2>3. ~(flag_raced \/ Holding)
    BY <2>2
  <2> QED BY <2>2, <2>3
<1>4. CASE ResetSet \/ ResetForget \/ ResetLeave \/ SecondPasses \/ UNCHANGED voiceVars
  BY <1>4 DEF ResetSet, ResetForget, ResetLeave, SecondPasses, resetRest, voiceVars
<1> QED BY <1>1, <1>2, <1>3, <1>4 DEF VoiceNext, Reset

LEMMA OneCallerStep ==
    FlagInv /\ (~calls_overlap => OneCaller) /\ [VoiceNext]_voiceVars
       => (~calls_overlap' => OneCaller')
<1> SUFFICES ASSUME FlagInv, ~calls_overlap => OneCaller, [VoiceNext]_voiceVars, ~calls_overlap'
             PROVE  OneCaller'
  OBVIOUS
<1> USE DEF OneCaller, FlagInv, CallerType
<1>1. ASSUME NEW c \in Callers, Caller(c) PROVE OneCaller'
  <2>1. /\ caller_pc[c] # "idle" /\ ~calls_overlap
        /\ \A d \in Callers \ {c} : caller_pc'[d] = caller_pc[d]
    BY <1>1 DEF Caller, CheakTest, CheakSet, CheakLeave, Act, CacheTest, CacheSet,
                CacheStoreTime, TestFlag, CallerGoto, callerRest
  <2> QED BY <2>1
<1>2. ASSUME NEW c \in Callers, NEW v \in Voices \cup {Miss}, Recognised(c, v) PROVE OneCaller'
  <2>1. calls_overlap' = (calls_overlap \/ \E d \in Callers : caller_pc[d] # "idle")
    BY <1>2 DEF Recognised
  <2>2. \A d \in Callers : caller_pc[d] = "idle"
    BY <2>1
  <2> QED BY <1>2, <2>2 DEF Recognised, CallerGoto
<1>3. CASE Reset \/ UNCHANGED voiceVars
  <2>1. UNCHANGED <<caller_pc, calls_overlap>>
    BY <1>3 DEF Reset, ResetTest, ResetSet, ResetForget, ResetLeave, SecondPasses, resetRest,
                callerVars, voiceVars
  <2> QED BY <2>1
<1> QED BY <1>1, <1>2, <1>3 DEF VoiceNext

\* A second that passes makes no phrase more recent.
LEMMA SecondAges ==
    ASSUME CacheType, SecondPasses, NEW v \in Voices, Recent(v)' PROVE Recent(v)
<1>1. ASSUME NEW w \in Voices
      PROVE  since[w] \in 0 .. 3
             /\ since'[w] = IF since[w] < 3 THEN since[w] + 1 ELSE since[w]
  BY <1>1 DEF SecondPasses, CacheType, Unset, Window
<1>2. since'[v] < 2 /\ \A w \in Voices \ {v} : since'[w] > since'[v]
  BY DEF Recent, Window
<1>3. since[v] < 2
  BY <1>1, <1>2
<1>4. ASSUME NEW w \in Voices \ {v} PROVE since[w] > since[v]
  BY <1>1, <1>2, <1>3, <1>4
<1> QED BY <1>3, <1>4 DEF Recent, Window

LEMMA RecentKeptStep ==
    ASSUME FlagInv, CacheInv, RecentKept, ~busy, ~flag_raced, [VoiceNext]_voiceVars
    PROVE  RecentKept'
<1>0. OneInside /\ CacheType /\ TimeOfPhrase /\ CallerType
  BY DEF FlagInv, CacheInv
<1> USE DEF RecentKept, Storing
<1>1. ASSUME NEW c \in Callers, Caller(c) PROVE RecentKept'
  <2>1. CASE CheakTest(c) \/ CheakSet(c) \/ CheakLeave(c) \/ Act(c) \/ CacheTest(c)
    <3>1. UNCHANGED <<tmp_voice, last_voice_time, since, cheak_at>>
      BY <2>1 DEF CheakTest, CheakSet, CheakLeave, Act, CacheTest, cache, callerRest
    <3>2. /\ caller_pc[c] # "store_time"
          /\ \A d \in Callers \ {c} : caller_pc'[d] = caller_pc[d]
      BY <2>1, <1>0 DEF CheakTest, CheakSet, CheakLeave, Act, CacheTest, TestFlag, CallerGoto,
                        CallerType
    <3>3. Storing => Storing'
      BY <3>2
    <3> QED BY <3>1, <3>3 DEF Recent
  <2>2. CASE CacheSet(c)
    <3>1. caller_pc'[c] = "store_time" /\ UNCHANGED <<last_voice_time, cheak_at>>
      BY <2>2, <1>0 DEF CacheSet, CallerGoto, callerRest, CallerType
    <3> QED BY <3>1
  <2>3. CASE CacheStoreTime(c)
    <3>1. /\ caller_pc[c] = "store_time" /\ since' = [since EXCEPT ![voice[c]] = 0]
          /\ UNCHANGED <<tmp_voice, cheak_at>> /\ voice[c] \in Voices
      BY <2>3, <1>0 DEF CacheStoreTime, callerRest, CacheType
    <3>2. cheak_at # "forget" /\ tmp_voice = voice[c]
      BY <3>1, <1>0 DEF OneInside, Inside, CheakInside, InCallerFlag, InCheakFlag, TimeOfPhrase
    <3>3. ASSUME NEW v \in Voices, Recent(v)' PROVE v = voice[c]
      <4>1. /\ since'[v] \in 0 .. Unset /\ since'[voice[c]] = 0
            /\ \A w \in Voices \ {v} : since'[w] > since'[v]
        BY <3>1, <3>3, <1>0 DEF Recent, CacheType, Unset, Window
      <4> QED BY <3>1, <4>1 DEF Unset, Window
    <3> QED BY <3>1, <3>2, <3>3
  <2> QED BY <1>1, <2>1, <2>2, <2>3 DEF Caller
<1>2. ASSUME NEW c \in Callers, NEW v \in Voices \cup {Miss}, Recognised(c, v) PROVE RecentKept'
  <2>1. UNCHANGED <<tmp_voice, last_voice_time, since, cheak_at>>
    BY <1>2 DEF Recognised, cache
  <2>2. Storing => Storing'
    BY <1>2, <1>0 DEF Recognised, CallerGoto, CallerType
  <2> QED BY <2>1, <2>2 DEF Recent
<1>3. CASE ResetTest \/ UNCHANGED voiceVars
  <2>1. UNCHANGED <<tmp_voice, last_voice_time, since, caller_pc>>
        /\ (cheak_at' = "forget" => cheak_at = "forget")
    BY <1>3 DEF ResetTest, cache, callerVars, voiceVars
  <2> QED BY <2>1 DEF Recent
<1>4. CASE ResetSet
  <2>1. UNCHANGED <<tmp_voice, last_voice_time, since, caller_pc>>
        /\ (cheak_at' = "forget" => last_voice_time = Window)
    BY <1>4 DEF ResetSet, resetRest, callerVars
  <2> QED BY <2>1 DEF Recent
<1>5. CASE ResetForget
  <2>1. /\ cheak_at = "forget" /\ cheak_at' = "unset" /\ UNCHANGED <<since, caller_pc>>
        /\ last_voice_time = Window
    BY <1>5 DEF ResetForget, resetRest, callerVars
  <2>2. ~Storing
    BY <2>1, <1>0 DEF OneInside, Inside, CheakInside, InCallerFlag, InCheakFlag
  <2>3. ASSUME NEW v \in Voices, Recent(v) PROVE FALSE
    <3>1. tmp_voice = v /\ v # None
      BY <2>2, <2>3, VoicesAssumption
    <3>2. last_voice_time = since[v]
      BY <1>0, <2>2, <3>1 DEF TimeOfPhrase
    <3> QED BY <2>1, <2>3, <3>2 DEF Recent, Window
  <2> QED BY <2>1, <2>3 DEF Recent
<1>6. CASE ResetLeave
  <2>1. cheak_at \in {"unset", "leave"} /\ cheak_at' = "sleep"
        /\ UNCHANGED <<tmp_voice, since, caller_pc>>
    BY <1>6 DEF ResetLeave, resetRest, callerVars
  <2> QED BY <2>1 DEF Recent
<1>7. CASE SecondPasses
  <2>1. cheak_at' = "test" /\ UNCHANGED <<tmp_voice, caller_pc>>
    BY <1>7 DEF SecondPasses, callerVars
  <2> QED BY <1>0, <1>7, <2>1, SecondAges
<1> QED BY <1>1, <1>2, <1>3, <1>4, <1>5, <1>6, <1>7 DEF VoiceNext, Reset

LEMMA PassedOtherStep ==
    ASSUME FlagInv, CacheInv, RecentKept, OneCaller, PassedOther, ~busy, ~flag_raced,
           [VoiceNext]_voiceVars, ~busy', ~flag_raced'
    PROVE  PassedOther'
<1>0. OneInside /\ CacheType /\ CallerType
  BY DEF FlagInv, CacheInv
<1> USE DEF PassedOther
<1>1. ASSUME NEW c \in Callers, Caller(c) PROVE PassedOther'
  <2>0. \A d \in Callers \ {c} : caller_pc[d] = "idle"
    BY <1>1 DEF OneCaller, Caller, CheakTest, CheakSet, CheakLeave, Act, CacheTest, CacheSet,
                CacheStoreTime
  <2>1. CASE CheakSet(c)
    <3>1. /\ UNCHANGED <<since, voice>>
          /\ caller_pc' = [caller_pc EXCEPT ![c] = IF tmp_voice = voice[c] THEN "leave_skip" ELSE "leave_go"]
      BY <2>1 DEF CheakSet, CallerGoto, callerRest
    <3>2. ~Storing
      BY <2>0, <2>1 DEF Storing, CheakSet
    <3>3. tmp_voice # voice[c] /\ voice[c] \in Voices => ~Recent(voice[c])
      BY <3>2 DEF RecentKept
    <3>4. voice[c] \in Voices \cup {Miss}
      BY <1>0 DEF CallerType
    <3> QED BY <1>0, <2>0, <3>1, <3>3, <3>4 DEF Recent, CallerType
  <2>2. CASE CheakLeave(c)
    <3>1. /\ UNCHANGED <<since, voice>>
          /\ caller_pc' = [caller_pc EXCEPT ![c] = IF caller_pc[c] = "leave_go" THEN "act" ELSE "idle"]
      BY <2>2 DEF CheakLeave, CallerGoto, callerRest
    <3> QED BY <1>0, <2>0, <3>1 DEF Recent, CallerType
  <2>3. CASE CheakTest(c)
    <3>1. UNCHANGED <<since, voice>> /\ TestFlag(c, "set", "act")
      BY <2>3 DEF CheakTest, callerRest
    <3>2. caller_pc' = [caller_pc EXCEPT ![c] = "set"]
      BY <3>1, TestCalm DEF CallerGoto
    <3> QED BY <1>0, <2>0, <3>1, <3>2 DEF CallerType
  <2>4. CASE Act(c) \/ CacheTest(c) \/ CacheSet(c) \/ CacheStoreTime(c)
    <3>1. caller_pc'[c] \notin {"leave_go", "act"} /\ \A d \in Callers \ {c} : caller_pc'[d] = "idle"
      BY <1>0, <2>0, <2>4 DEF Act, CacheTest, CacheSet, CacheStoreTime, TestFlag, CallerGoto, CallerType
    <3> QED BY <3>1
  <2> QED BY <1>1, <2>1, <2>2, <2>3, <2>4 DEF Caller
<1>2. ASSUME NEW c \in Callers, NEW v \in Voices \cup {Miss}, Recognised(c, v) PROVE PassedOther'
  <2>1. /\ since' = since /\ voice' = [voice EXCEPT ![c] = v]
        /\ caller_pc' = [caller_pc EXCEPT ![c] = "test"]
    BY <1>2 DEF Recognised, CallerGoto
  <2> QED BY <1>0, <2>1 DEF Recent, CallerType
<1>3. CASE ResetTest \/ ResetSet \/ ResetForget \/ ResetLeave \/ UNCHANGED voiceVars
  <2>1. UNCHANGED <<caller_pc, voice, since>>
    BY <1>3 DEF ResetTest, ResetSet, ResetForget, ResetLeave, resetRest, callerVars, voiceVars
  <2> QED BY <2>1 DEF Recent
<1>4. CASE SecondPasses
  <2>1. UNCHANGED <<caller_pc, voice>>
    BY <1>4 DEF SecondPasses, callerVars
  <2>2. \A c \in Callers : voice[c] # Miss => voice[c] \in Voices
    BY <1>0 DEF CallerType
  <2> QED BY <1>0, <1>4, <2>1, <2>2, SecondAges
<1> QED BY <1>1, <1>2, <1>3, <1>4 DEF VoiceNext, Reset

LEMMA RepeatInvStep ==
    FlagInv /\ CacheInv /\ RepeatInv /\ [VoiceNext]_voiceVars => RepeatInv'
<1> SUFFICES ASSUME FlagInv, CacheInv, RepeatInv, [VoiceNext]_voiceVars PROVE RepeatInv'
  OBVIOUS
<1>1. ~busy' /\ ~flag_raced' => ~busy /\ ~flag_raced /\ RecentKept'
  BY ExceptionsStay, RecentKeptStep DEF RepeatInv
<1>2. ~calls_overlap' => OneCaller'
  BY OneCallerStep DEF RepeatInv
<1>3. ~calls_overlap' => ~calls_overlap
  <2>1. ASSUME NEW c \in Callers, NEW v \in Voices \cup {Miss}, Recognised(c, v),
               ~calls_overlap'
        PROVE  ~calls_overlap
    <3>1. calls_overlap' = (calls_overlap \/ \E d \in Callers : caller_pc[d] # "idle")
      BY <2>1 DEF Recognised
    <3> QED BY <2>1, <3>1
  <2>2. ASSUME NEW c \in Callers, Caller(c) PROVE calls_overlap' = calls_overlap
    BY <2>2 DEF Caller, CheakTest, CheakSet, CheakLeave, Act, CacheTest, CacheSet,
                CacheStoreTime, callerRest
  <2>3. CASE Reset \/ UNCHANGED voiceVars
    BY <2>3 DEF Reset, ResetTest, ResetSet, ResetForget, ResetLeave, SecondPasses, resetRest,
                callerVars, voiceVars
  <2> QED BY <2>1, <2>2, <2>3 DEF VoiceNext
<1>4. ~busy' /\ ~flag_raced' /\ ~calls_overlap' => PassedOther'
  BY <1>1, <1>3, PassedOtherStep DEF RepeatInv
<1> QED BY <1>1, <1>2, <1>4 DEF RepeatInv

(***************************************************************************)
(* voice_on_prase does not act twice within a second on the last phrase it *)
(* acted upon, whatever the phrases are and however the seconds fall, if   *)
(* the flag was free whenever it was tested and no calls overlap.          *)
(***************************************************************************)
THEOREM RepeatSuppressedAlways == VoiceSpec => RepeatSuppressed
<1>1. VoiceInit => FlagInv /\ CacheInv /\ RepeatInv
  <2> SUFFICES ASSUME VoiceInit PROVE FlagInv /\ CacheInv /\ RepeatInv
    OBVIOUS
  <2>1. FlagInv /\ CacheInv
    BY DEF VoiceInit, FlagInv, CallerType, OneInside, Inside, CheakInside, InCallerFlag,
           InCheakFlag, Callers, CacheInv, CacheType, TimeOfPhrase, Unset, Window
  <2>2. \A v \in Voices : ~Recent(v)
    BY DEF VoiceInit, Recent, Unset, Window
  <2>3. RepeatInv
    BY <2>2 DEF VoiceInit, RepeatInv, RecentKept, OneCaller, PassedOther
  <2> QED BY <2>1, <2>3
<1>2. FlagInv /\ RepeatInv /\ [VoiceNext]_voiceVars =>
        \/ \A c \in Callers :
              caller_pc[c] = "act" /\ caller_pc'[c] = "test_cache" /\ Recent(voice[c])
              => busy \/ flag_raced \/ calls_overlap
        \/ UNCHANGED voiceVars
  <2> SUFFICES ASSUME FlagInv, RepeatInv, VoiceNext, NEW c \in Callers, caller_pc[c] = "act",
                      caller_pc'[c] = "test_cache", Recent(voice[c]),
                      ~busy, ~flag_raced, ~calls_overlap
               PROVE  FALSE
    OBVIOUS
  <2>1. voice[c] = Miss
    BY DEF RepeatInv, PassedOther
  <2>2. PICK d \in Callers : Caller(d) \/ \E v \in Voices \cup {Miss} : Recognised(d, v)
    BY DEF VoiceNext, Reset, ResetTest, ResetSet, ResetForget, ResetLeave, SecondPasses,
           resetRest, callerVars
  <2>3. c = d
    BY <2>2 DEF Caller, CheakTest, CheakSet, CheakLeave, Act, CacheTest, CacheSet,
                CacheStoreTime, TestFlag, Recognised, CallerGoto, FlagInv, CallerType
  <2>4. Act(c)
    BY <2>2, <2>3 DEF Caller, CheakTest, CheakSet, CheakLeave, CacheTest, CacheSet,
                CacheStoreTime, Recognised, InCallerFlag
  <2> QED BY <2>1, <2>4 DEF Act, CallerGoto, FlagInv, CallerType
<1> QED BY <1>1, <1>2, FlagStep, CacheStep, RepeatInvStep, PTL DEF VoiceSpec, RepeatSuppressed

\* What the other invariants leave open of the types of VoiceCache.
OthersType ==
    /\ voice_ache_flag \in {0, 1}
    /\ cheak_at \in {"test", "set", "sleep"} \cup InCheakFlag
    /\ busy \in BOOLEAN /\ flag_raced \in BOOLEAN /\ calls_overlap \in BOOLEAN
    /\ voices \in 0 .. MaxVoices

\* The variables of VoiceCache keep their types.
LEMMA VoiceTypeAlways == VoiceSpec => []VoiceTypeOK
<1>1. VoiceInit => FlagInv /\ CacheInv /\ OthersType
  <2>1. VoiceInit => FlagInv
    BY DEF VoiceInit, FlagInv, CallerType, OneInside, Inside, CheakInside, InCallerFlag,
           InCheakFlag, Callers
  <2>2. VoiceInit => CacheInv
    BY DEF VoiceInit, CacheInv, CacheType, TimeOfPhrase, Unset, Window
  <2>3. VoiceInit => OthersType
    <3>1. 0 \in 0 .. MaxVoices
      BY VoiceBound
    <3> QED BY <3>1, Zenon DEF VoiceInit, OthersType
  <2> QED BY <2>1, <2>2, <2>3
<1>2. OthersType /\ [VoiceNext]_voiceVars => OthersType'
  <2> SUFFICES ASSUME OthersType, [VoiceNext]_voiceVars PROVE OthersType'
    OBVIOUS
  <2> USE VoiceBound DEF OthersType, InCheakFlag, cache, callerRest, callerVars, resetRest
  <2>1. ASSUME NEW c, NEW free, NEW taken, TestFlag(c, free, taken)
        PROVE  busy' \in BOOLEAN /\ flag_raced' \in BOOLEAN
    BY <2>1, Zenon DEF TestFlag
  <2>2. ASSUME NEW c \in Callers, Caller(c) PROVE OthersType'
    <3>1. CASE CheakTest(c) \/ CacheTest(c)
      <4>1. busy' \in BOOLEAN /\ flag_raced' \in BOOLEAN
        BY <2>1, <3>1 DEF CheakTest, CacheTest
      <4> QED BY <3>1, <4>1 DEF CheakTest, CacheTest
    <3>2. CASE CheakSet(c) \/ CheakLeave(c) \/ Act(c) \/ CacheSet(c) \/ CacheStoreTime(c)
      BY <3>2 DEF CheakSet, CheakLeave, Act, CacheSet, CacheStoreTime
    <3> QED BY <2>2, <3>1, <3>2 DEF Caller
  <2>3. ASSUME NEW c \in Callers, NEW v, Recognised(c, v) PROVE OthersType'
    <3>1. calls_overlap' \in BOOLEAN
      BY <2>3, Zenon DEF Recognised
    <3>2. voices' \in 0 .. MaxVoices
      BY <2>3 DEF Recognised
    <3> QED BY <2>3, <3>1, <3>2 DEF Recognised
  <2>4. CASE ResetTest
    <3>1. busy' \in BOOLEAN /\ flag_raced' \in BOOLEAN
      BY <2>4, Zenon DEF ResetTest
    <3> QED BY <2>4, <3>1 DEF ResetTest
  <2>5. CASE ResetSet \/ ResetForget \/ ResetLeave \/ SecondPasses \/ UNCHANGED voiceVars
    BY <2>5 DEF ResetSet, ResetForget, ResetLeave, SecondPasses, voiceVars
  <2> QED BY <2>2, <2>3, <2>4, <2>5 DEF VoiceNext, Reset
<1>3. FlagInv /\ CacheInv /\ OthersType => VoiceTypeOK
  BY DEF FlagInv, CacheInv, CallerType, CacheType, OthersType, VoiceTypeOK
<1> QED BY <1>1, <1>2, <1>3, FlagStep, CacheStep, PTL DEF VoiceSpec
-------------------------------------------------------------------------------
(***************************************************************************)
(* GuiLink: what a sender has counted as written is what the GUI has got   *)
(* of its command, in order.                                               *)
(***************************************************************************)
CountUp(n) == [i \in 1 .. n |-> i]

LEMMA CountUpSeq ==
    ASSUME NEW n \in Nat, NEW k \in Nat
    PROVE  [i \in 1 .. n |-> k + i] \in Seq(Nat) /\ Len([i \in 1 .. n |-> k + i]) = n
<1>1. [i \in 1 .. n |-> k + i] \in [1 .. n -> Nat]
  OBVIOUS
<1>2. [i \in 1 .. n |-> k + i] \in Seq(Nat)
  BY <1>1, SeqDef
<1>3. DOMAIN [i \in 1 .. n |-> k + i] = 1 .. n
  OBVIOUS
<1> QED BY <1>2, <1>3, LenProperties

LEMMA NothingCounted == <<>> = CountUp(0)
<1>1. [i \in 1 .. 0 |-> 0 + i] = CountUp(0)
  BY DEF CountUp
<1> QED BY <1>1, CountUpSeq, EmptySeq

LEMMA CountOn ==
    ASSUME NEW k \in Nat, NEW n \in Nat
    PROVE  CountUp(k) \o [i \in 1 .. n |-> k + i] = CountUp(k + n)
<1>1. ASSUME NEW m \in Nat PROVE CountUp(m) \in Seq(Nat) /\ Len(CountUp(m)) = m
  <2>1. [i \in 1 .. m |-> 0 + i] = CountUp(m)
    BY DEF CountUp
  <2> QED BY <2>1, CountUpSeq
<1>2. PICK more : more = [i \in 1 .. n |-> k + i]
  OBVIOUS
<1>3. more \in Seq(Nat) /\ Len(more) = n
  BY <1>2, CountUpSeq
<1>4. PICK both : both = CountUp(k) \o more
  OBVIOUS
<1>5. CountUp(k) \in Seq(Nat) /\ Len(CountUp(k)) = k
  BY <1>1
<1>6. /\ both \in Seq(Nat) /\ Len(both) = k + n
      /\ \A i \in 1 .. k + n : both[i] = IF i <= k THEN CountUp(k)[i] ELSE more[i - k]
  <2>1. PICK first : first = CountUp(k)
    OBVIOUS
  <2>2. /\ first \o more \in Seq(Nat) /\ Len(first \o more) = Len(first) + Len(more)
        /\ \A i \in 1 .. Len(first) + Len(more) :
              (first \o more)[i] = IF i <= Len(first) THEN first[i] ELSE more[i - Len(first)]
    BY <1>3, <1>5, <2>1, ConcatProperties
  <2> QED BY <1>3, <1>4, <1>5, <2>1, <2>2
<1>7. CountUp(k + n) \in Seq(Nat) /\ Len(CountUp(k + n)) = k + n
  BY <1>1
<1>8. ASSUME NEW i \in 1 .. k + n PROVE both[i] = i
  <2>1. CASE i <= k
    <3>1. both[i] = CountUp(k)[i] /\ i \in 1 .. k
      BY <1>6, <2>1
    <3> QED BY <3>1 DEF CountUp
  <2>2. CASE i > k
    <3>1. both[i] = more[i - k]
      BY <1>6, <2>2
    <3>2. i - k \in 1 .. n
      BY <2>2
    <3>3. more[i - k] = k + (i - k)
      BY <1>2, <3>2
    <3> QED BY <3>1, <3>3
  <2> QED BY <2>1, <2>2
<1>9. ASSUME NEW i \in 1 .. k + n PROVE CountUp(k + n)[i] = i
  BY DEF CountUp
<1>10. both = CountUp(k + n)
  BY <1>6, <1>7, <1>8, <1>9, SeqEqual
<1> QED BY <1>2, <1>4, <1>10

SentInv ==
    /\ send_pc \in [Senders -> {"idle", "check", "write", "sent"}]
    /\ index \in [Senders -> 0 .. Pieces]
    /\ DOMAIN got = Senders
    /\ \A c \in Senders : /\ got[c] = CountUp(index[c])
                          /\ send_pc[c] = "sent" => index[c] = Pieces

LEMMA SentStep == SentInv /\ [GuiNext]_guiVars => SentInv'
<1> SUFFICES ASSUME SentInv, [GuiNext]_guiVars PROVE SentInv'
  OBVIOUS
<1>1. ASSUME UNCHANGED <<send_pc, index, got>> PROVE SentInv'
  BY <1>1 DEF SentInv
<1>2. ASSUME NEW c \in Senders, SendBegins(c) PROVE SentInv'
  <2>1. <<>> = CountUp(0)
    BY NothingCounted
  <2> QED BY <1>2, <2>1, GuiAssumption DEF SendBegins, SendGoto, SentInv
<1>3. ASSUME NEW c \in Senders, Send(c) PROVE SentInv'
  <2>1. CASE SendChecks(c)
    <3>1. PICK pc \in {"idle", "write"} : send_pc' = [send_pc EXCEPT ![c] = pc]
      BY <2>1 DEF SendChecks, SendGoto
    <3> QED BY <2>1, <3>1 DEF SendChecks, SentInv
  <2>2. CASE SendWrites(c)
    <3>1. PICK n \in 1 .. Pieces - index[c] :
            /\ index' = [index EXCEPT ![c] = index[c] + n]
            /\ got' = [got EXCEPT ![c] = got[c] \o [i \in 1 .. n |-> index[c] + i]]
            /\ send_pc' = [send_pc EXCEPT ![c] =
                              IF index[c] + n = Pieces THEN "sent" ELSE "write"]
      BY <2>2 DEF SendWrites
    <3>2. index[c] \in Nat /\ n \in Nat /\ index[c] + n \in 0 .. Pieces
      BY <3>1, GuiAssumption DEF SentInv
    <3>3. got[c] \o [i \in 1 .. n |-> index[c] + i] = CountUp(index[c] + n)
      BY <3>2, CountOn DEF SentInv
    <3>4. got' = [got EXCEPT ![c] = CountUp(index[c] + n)]
      BY <3>1, <3>3
    <3> QED BY <3>1, <3>2, <3>4 DEF SentInv
  <2>3. CASE SendFails(c)
    BY <2>3 DEF SendFails, SendGoto, SentInv
  <2>4. CASE SendReturns(c)
    BY <2>4 DEF SendReturns, SendGoto, SentInv
  <2> QED BY <1>3, <2>1, <2>2, <2>3, <2>4 DEF Send
<1>4. CASE Reader
  BY <1>1, <1>4 DEF Reader, ReaderSocket, ReaderConnects, ReaderReads, ReaderRefreshes,
                    ReaderCloses, senderVars
<1>5. CASE GuiRises \/ GuiGoes \/ GuiChanges \/ GuiAnnounces \/ UNCHANGED guiVars
  BY <1>1, <1>5 DEF GuiRises, GuiGoes, GuiChanges, GuiAnnounces, guiVars, senderVars
<1> QED BY <1>2, <1>3, <1>4, <1>5 DEF GuiNext

(***************************************************************************)
(* A command that was sent came whole, for any number of pieces, senders'  *)
(* writes in between and connections.                                      *)
(***************************************************************************)
THEOREM CommandWholeAlways == GuiSpec => []CommandWhole
<1>1. GuiInit => SentInv
  <2>1. <<>> = CountUp(0)
    BY NothingCounted
  <2> QED BY <2>1, GuiAssumption DEF GuiInit, SentInv
<1>2. SentInv => CommandWhole
  BY DEF SentInv, CommandWhole, CountUp
<1> QED BY <1>1, <1>2, SentStep, PTL DEF GuiSpec

(***************************************************************************)
(* The announcements in the socket and the one to come are no more than    *)
(* the changes of the table.                                               *)
(***************************************************************************)
Unannounced == IF announced THEN 0 ELSE 1

TableInv ==
    /\ sock \in 0 .. sockets /\ sockets \in Nat
    /\ gui_conn \in {"none", "fresh", "up", "eof"}
    /\ reader_pc \in {"link", "connect", "read", "handle", "close"}
    /\ unread \in Nat /\ table \in 0 .. MaxUpdates /\ loaded \in 0 .. table
    /\ unread + Unannounced <= table
    /\ sends \in 0 .. MaxSends /\ cuts \in 0 .. MaxCuts

GuiMarks ==
    /\ gui_up \in BOOLEAN /\ announced \in BOOLEAN /\ glued \in BOOLEAN /\ cut \in BOOLEAN
    /\ killed \in BOOLEAN
    /\ got = [c \in Senders |-> got[c]]

\* An inequality that the prover does not find among primed variables.
LEMMA SumBelow ==
    ASSUME NEW m \in Nat, NEW n \in Nat, NEW t \in Nat, NEW u \in {0, 1}
    PROVE  /\ m <= n /\ n + u <= t => m + u <= t
           /\ m <= n + 1 /\ n + 1 <= t => m + 0 <= t
  OBVIOUS

LEMMA TableStep == TableInv /\ [GuiNext]_guiVars => TableInv'
<1> SUFFICES ASSUME TableInv, [GuiNext]_guiVars PROVE TableInv'
  OBVIOUS
<1> USE GuiAssumption DEF TableInv, announceVars, senderVars, ReaderGoto
<1>0. /\ Unannounced \in {0, 1} /\ Unannounced' \in {0, 1}
      /\ announced' = announced => Unannounced' = Unannounced
  BY DEF Unannounced
<1>t. /\ unread \in Nat /\ table \in Nat /\ loaded \in Nat /\ MaxUpdates \in Nat
      /\ loaded <= table /\ table <= MaxUpdates /\ unread + Unannounced <= table
  OBVIOUS
<1>1. CASE ReaderSocket
  BY <1>0, <1>1 DEF ReaderSocket
<1>2. CASE ReaderConnects \/ ReaderRefreshes \/ ReaderCloses
  BY <1>0, <1>2 DEF ReaderConnects, ReaderRefreshes, ReaderCloses
<1>3. CASE ReaderReads
  <2>1. unread' \in Nat /\ unread' <= unread /\ reader_pc' \in {"read", "handle", "close"}
    BY <1>3 DEF ReaderReads
  <2>2. Unannounced' = Unannounced
        /\ UNCHANGED <<sock, sockets, gui_conn, table, loaded, sends, cuts>>
    BY <1>0, <1>3 DEF ReaderReads
  <2>3. unread' + Unannounced' <= table'
    BY <1>0, <1>t, <2>1, <2>2, SumBelow
  <2> QED BY <2>1, <2>2, <2>3
<1>4. CASE GuiRises
  BY <1>0, <1>4 DEF GuiRises
<1>5. CASE GuiGoes
  <2>1. Unannounced' = 0
    BY <1>5 DEF GuiGoes, Unannounced
  <2>2. UNCHANGED <<sock, sockets, reader_pc, unread, table, loaded, sends>>
        /\ cuts < MaxCuts /\ cuts' = cuts + 1 /\ gui_conn' \in {gui_conn, "eof"}
    BY <1>5 DEF GuiGoes
  <2> QED BY <1>0, <2>1, <2>2
<1>6. CASE GuiChanges
  <2>1. Unannounced = 0
    BY <1>6 DEF GuiChanges, Unannounced
  <2>2. UNCHANGED <<sock, sockets, gui_conn, reader_pc, unread, loaded, sends, cuts>>
        /\ table < MaxUpdates /\ table' = table + 1
    BY <1>6 DEF GuiChanges
  <2>3. Unannounced' \in {0, 1} /\ unread <= table
    BY <1>0, <1>t, <2>1
  <2>4. unread' = unread /\ table' = table + 1 /\ table < MaxUpdates /\ loaded' = loaded
    BY <2>2
  <2>5. unread' + Unannounced' <= table' /\ table' \in 0 .. MaxUpdates /\ loaded' \in 0 .. table'
    <3> HIDE DEF TableInv
    <3>1. \A u \in {0, 1} : unread + u <= table + 1
      BY <1>t, <2>3
    <3>2. unread' + Unannounced' <= table'
      BY <2>3, <2>4, <3>1
    <3> QED BY <1>t, <2>4, <3>2
  <2> QED BY <2>2, <2>5
<1>7. CASE GuiAnnounces
  <2>1. Unannounced = 1 /\ Unannounced' = 0
    BY <1>7 DEF GuiAnnounces, Unannounced
  <2>2. UNCHANGED <<sock, sockets, gui_conn, reader_pc, table, loaded, sends, cuts>>
        /\ unread' \in {unread, unread + 1}
    BY <1>7 DEF GuiAnnounces
  <2>3. unread' \in Nat /\ unread' <= unread + 1 /\ table' = table
    BY <1>t, <2>2
  <2>4. unread + 1 <= table
    BY <1>t, <2>1
  <2>5. unread' + Unannounced' <= table'
    <3> HIDE DEF TableInv
    <3>1. unread' + 0 <= table
      BY <1>t, <2>3, <2>4, SumBelow
    <3> QED BY <2>1, <2>3, <3>1
  <2> QED BY <2>2, <2>3, <2>5
<1>8. ASSUME NEW c \in Senders, SendBegins(c) PROVE TableInv'
  BY <1>0, <1>8 DEF SendBegins, senderRest
<1>9. ASSUME NEW c \in Senders, Send(c) PROVE TableInv'
  <2>1. Unannounced' = Unannounced
        /\ UNCHANGED <<sock, sockets, gui_conn, reader_pc, unread, table, loaded, sends, cuts>>
    BY <1>0, <1>9 DEF Send, SendChecks, SendWrites, SendFails, SendReturns, senderRest
  <2> QED BY <1>0, <2>1
<1>10. CASE UNCHANGED guiVars
  BY <1>0, <1>10 DEF guiVars
<1> QED BY <1>1, <1>2, <1>3, <1>4, <1>5, <1>6, <1>7, <1>8, <1>9, <1>10 DEF GuiNext, Reader

LEMMA MarksStep == SentInv /\ GuiMarks /\ [GuiNext]_guiVars => GuiMarks'
<1> SUFFICES ASSUME SentInv, GuiMarks, [GuiNext]_guiVars PROVE GuiMarks'
  OBVIOUS
<1>1. ASSUME NEW c \in Senders, NEW b, got' = [got EXCEPT ![c] = b]
      PROVE  got' = [d \in Senders |-> got'[d]]
  BY <1>1 DEF GuiMarks
<1>2. CASE Reader
  <2>1. glued' \in BOOLEAN
    BY <1>2, Zenon DEF GuiMarks, Reader, ReaderSocket, ReaderConnects, ReaderReads,
                       ReaderRefreshes, ReaderCloses, announceVars
  <2> QED BY <1>2, <2>1 DEF GuiMarks, Reader, ReaderSocket, ReaderConnects, ReaderReads,
                       ReaderRefreshes, ReaderCloses, announceVars, senderVars
<1>3. CASE GuiRises \/ GuiGoes \/ GuiChanges \/ GuiAnnounces
  <2>1. cut' \in BOOLEAN /\ gui_up' \in BOOLEAN /\ announced' \in BOOLEAN
    BY <1>3, Zenon DEF GuiMarks, GuiRises, GuiGoes, GuiChanges, GuiAnnounces, announceVars
  <2> QED BY <1>3, <2>1 DEF GuiMarks, GuiRises, GuiGoes, GuiChanges, GuiAnnounces,
                            announceVars, senderVars
<1>4. ASSUME NEW c \in Senders, SendBegins(c) \/ Send(c) PROVE GuiMarks'
  <2>1. killed' \in BOOLEAN
    BY <1>4, Zenon DEF GuiMarks, SendBegins, Send, SendChecks, SendWrites, SendFails, SendReturns
  <2>2. got' = got \/ \E b : got' = [got EXCEPT ![c] = b]
    BY <1>4 DEF SendBegins, Send, SendChecks, SendWrites, SendFails, SendReturns
  <2>3. got' = [d \in Senders |-> got'[d]]
    BY <1>1, <2>2 DEF GuiMarks
  <2> QED BY <1>4, <2>1, <2>3 DEF GuiMarks, SendBegins, Send, SendChecks, SendWrites, SendFails,
                                  SendReturns, senderRest, announceVars
<1>5. CASE UNCHANGED guiVars
  BY <1>5 DEF GuiMarks, guiVars, announceVars, senderVars
<1> QED BY <1>2, <1>3, <1>4, <1>5 DEF GuiNext

\* The variables of GuiLink keep their types; no more announcements wait than the table has changes.
LEMMA GuiTypeAlways == GuiSpec => []GuiTypeOK
<1>1. GuiInit => SentInv /\ TableInv /\ GuiMarks
  <2>1. <<>> = CountUp(0)
    BY NothingCounted
  <2>2. GuiInit => SentInv
    BY <2>1, GuiAssumption DEF GuiInit, SentInv
  <2>3. GuiInit => TableInv
    <3>1. 0 \in Nat /\ 0 \in 0 .. 0 /\ 0 \in 0 .. MaxUpdates /\ 0 \in 0 .. MaxSends
          /\ 0 \in 0 .. MaxCuts /\ 0 + 0 <= 0
      BY GuiAssumption
    <3>2. GuiInit => Unannounced = 0
      BY DEF GuiInit, Unannounced
    <3> QED BY <3>1, <3>2, Zenon DEF GuiInit, TableInv
  <2>4. GuiInit => GuiMarks
    BY DEF GuiInit, GuiMarks
  <2> QED BY <2>2, <2>3, <2>4
<1>2. SentInv /\ TableInv /\ GuiMarks => GuiTypeOK
  <2> SUFFICES ASSUME SentInv, TableInv, GuiMarks PROVE GuiTypeOK
    OBVIOUS
  <2>1. ASSUME NEW c \in Senders PROVE got[c] \in Seq(1 .. Pieces)
    <3>1. index[c] \in 0 .. Pieces /\ got[c] = CountUp(index[c])
      BY DEF SentInv
    <3>2. index[c] \in Nat /\ \A i \in 1 .. index[c] : i \in 1 .. Pieces
      BY <3>1, GuiAssumption
    <3>3. [i \in 1 .. index[c] |-> i] \in [1 .. index[c] -> 1 .. Pieces]
      BY <3>2
    <3>4. [i \in 1 .. index[c] |-> i] \in Seq(1 .. Pieces)
      BY <3>2, <3>3, SeqDef
    <3> QED BY <3>1, <3>4 DEF CountUp
  <2>2. got \in [Senders -> Seq(1 .. Pieces)]
    BY <2>1 DEF GuiMarks
  <2>3. unread \in 0 .. MaxUpdates
    <3>1. Unannounced \in {0, 1}
      BY DEF Unannounced
    <3> QED BY <3>1, GuiAssumption DEF TableInv
  <2> QED BY <2>2, <2>3 DEF SentInv, TableInv, GuiMarks, GuiTypeOK
<1> QED BY <1>1, <1>2, SentStep, TableStep, MarksStep, PTL DEF GuiSpec
-------------------------------------------------------------------------------
(***************************************************************************)
(* To the watch dog a step of the others is one of four things: the        *)
(* counter is set back, origin_callback chooses the mode and has yet to    *)
(* set the counter back, TH chooses the mode, or nothing.                  *)
(***************************************************************************)
Resets == /\ Alive /\ CounterReset
          /\ feeding' = feeding \/ feeding' = FALSE
          /\ UNCHANGED <<watch_dog_run, dogVars, exited>>

Feeds == /\ Alive /\ watch_dog_run' = 3 /\ feeding' = TRUE
         /\ quiet' = 0 /\ dog_raced' = (dog_raced \/ Outdated)
         /\ UNCHANGED <<watch_dog_flag, dogVars, exited>>

Chooses == /\ Alive
           /\ watch_dog_run' = 1 \/ (watch_dog_run' = 2 /\ watch_dog_run # 1)
           /\ UNCHANGED <<watch_dog_flag, feeding, quiet, dog_raced, dogVars, exited>>

Nothing == /\ UNCHANGED <<watchVars, dogVars>>
           /\ exited' = exited \/ exited' = "dfu_failed"

\* The last mode is not left by TH, which has nothing more to do in it.
LastMode == watch_dog_run = 1 => th_pc = "running"

LEMMA LastModeStep == LastMode /\ [ThNext]_thVars => LastMode'
<1> SUFFICES ASSUME LastMode, [ThNext]_thVars PROVE LastMode'
  OBVIOUS
<1> USE DEF LastMode, thRest, cardRest, watchVars, dogRest, At, Goto
<1>1. CASE LoopReset BY <1>1 DEF LoopReset
<1>2. CASE ChooseMode BY <1>2 DEF ChooseMode
<1>3. CASE AskStatus BY <1>3 DEF AskStatus
<1>4. CASE StatusKnown BY <1>4 DEF StatusKnown
<1>5. CASE AskMethod BY <1>5 DEF AskMethod
<1>6. CASE MethodKnown BY <1>6 DEF MethodKnown
<1>7. CASE DfuOver BY <1>7 DEF DfuOver
<1>8. CASE StartCard BY <1>8 DEF StartCard
<1>9. CASE SetParams BY <1>9 DEF SetParams
<1>10. CASE VersionKnown BY <1>10 DEF VersionKnown
<1>11. CASE Card
  <2>1. th_pc' = th_pc /\ (watch_dog_run' = watch_dog_run \/ watch_dog_run' = 3)
    BY <1>11 DEF Card, MessageCallback, FwVersion, UpgradeCallback, OriginCallback, AudioCounted,
                 CardStops, CardDies
  <2> QED BY <2>1
<1>12. CASE Dog \/ UNCHANGED thVars
  BY <1>12 DEF Dog, DogReads, DogCounts, DogComparesFlag, DogComparesRun, thVars
<1> QED BY <1>1, <1>2, <1>3, <1>4, <1>5, <1>6, <1>7, <1>8, <1>9, <1>10, <1>11, <1>12
           DEF ThNext, ThRun

LEMMA OthersStep ==
    ASSUME LastMode, ThRun \/ Card \/ UNCHANGED thVars
    PROVE  Resets \/ Feeds \/ Chooses \/ Nothing
<1> USE DEF Nothing, thRest, cardRest, At, Answering, Calling
<1>1. CASE LoopReset
  <2>1. Resets
    BY <1>1 DEF LoopReset, Resets
  <2> QED BY <2>1
<1>2. CASE ChooseMode
  <2>1. Chooses
    BY <1>2 DEF ChooseMode, Chooses, LastMode
  <2> QED BY <2>1
<1>3. CASE AskStatus BY <1>3 DEF AskStatus
<1>4. CASE StatusKnown BY <1>4 DEF StatusKnown
<1>5. CASE AskMethod BY <1>5 DEF AskMethod
<1>6. CASE MethodKnown BY <1>6 DEF MethodKnown
<1>7. CASE DfuOver BY <1>7 DEF DfuOver
<1>8. CASE StartCard BY <1>8 DEF StartCard
<1>9. CASE SetParams BY <1>9 DEF SetParams
<1>10. CASE VersionKnown
  <2>1. Resets \/ UNCHANGED <<watchVars, dogVars, exited>>
    BY <1>10 DEF VersionKnown, Resets
  <2> QED BY <2>1
<1>11. CASE MessageCallback BY <1>11 DEF MessageCallback
<1>12. CASE FwVersion BY <1>12 DEF FwVersion
<1>13. CASE UpgradeCallback BY <1>13 DEF UpgradeCallback
<1>14. CASE OriginCallback
  <2>1. Feeds
    BY <1>14 DEF OriginCallback, Feeds
  <2> QED BY <2>1
<1>15. CASE AudioCounted
  <2>1. Resets
    BY <1>15 DEF AudioCounted, Resets
  <2> QED BY <2>1
<1>16. CASE CardStops BY <1>16 DEF CardStops
<1>17. CASE CardDies BY <1>17 DEF CardDies
<1>18. CASE UNCHANGED thVars BY <1>18 DEF thVars
<1> QED BY <1>1, <1>2, <1>3, <1>4, <1>5, <1>6, <1>7, <1>8, <1>9, <1>10, <1>11, <1>12, <1>13,
           <1>14, <1>15, <1>16, <1>17, <1>18 DEF ThRun, Card
-------------------------------------------------------------------------------
DogType ==
    /\ watch_dog_flag \in Nat /\ watch_dog_run \in 0 .. 3 /\ quiet \in Nat
    /\ dog_pc \in {"loop", "increment", "read_flag", "read_run"}
    /\ dog_seen \in Nat /\ dog_mode \in Mode

(***************************************************************************)
(* The steps without a sign of life never exceed the counter: a race can   *)
(* only leave the counter too high.                                        *)
(***************************************************************************)
CounterCovers == quiet <= watch_dog_flag /\ (dog_pc = "increment" => quiet <= dog_seen)

(***************************************************************************)
(* The longest limit is passed only on the way through the comparisons,    *)
(* and the current mode is still to come among them.                       *)
(***************************************************************************)
Overdue ==
    quiet > Limit[2] =>
        /\ quiet = Limit[2] + 1
        /\ dog_pc \in {"read_flag", "read_run"}
        /\ watch_dog_run <= dog_mode

ModeChosen == dog_pc # "loop" \/ quiet > 0 => watch_dog_run # 0

(***************************************************************************)
(* Without a race the counter is exact, but for a callback that has yet to *)
(* set it back, and a comparison is not outdated.                          *)
(***************************************************************************)
Exact ==
    ~dog_raced =>
        /\ feeding \/ watch_dog_flag = quiet
        /\ dog_pc = "increment" => ~feeding /\ dog_seen = watch_dog_flag
        /\ dog_pc = "read_run" => ~feeding /\ watch_dog_flag > Limit[dog_mode]
        /\ exited = "watch_dog" => quiet > Limit[watch_dog_run]

DogInv == DogType /\ CounterCovers /\ Overdue /\ ModeChosen /\ Exact

LEMMA LimitsNat == Limit[1] \in Nat /\ Limit[2] \in Nat /\ Limit[3] \in Nat
                   /\ Limit[3] <= Limit[2] /\ Limit[1] <= Limit[2]
  BY LimitAssumption DEF Mode

LEMMA DogStep == LastMode /\ DogInv /\ [ThNext]_thVars => DogInv'
<1> SUFFICES ASSUME LastMode, DogInv, [ThNext]_thVars PROVE DogInv'
  OBVIOUS
<1> USE LimitsNat DEF DogInv, DogType, CounterCovers, Overdue, ModeChosen, Exact, Mode
<1>1. CASE Resets
  <2>1. /\ watch_dog_flag' = 0 /\ quiet' = 0 /\ watch_dog_run' = watch_dog_run
        /\ dog_pc' = dog_pc /\ dog_seen' = dog_seen /\ dog_mode' = dog_mode
        /\ exited' = "no"
    BY <1>1 DEF Resets, CounterReset, dogVars, Alive
  <2>2. ~dog_raced' => dog_pc \notin {"increment", "read_run"}
    BY <1>1 DEF Resets, CounterReset, Outdated
  <2>3. DogType' /\ CounterCovers' /\ Overdue' /\ ModeChosen'
    BY <2>1
  <2>4. Exact'
    BY <2>1, <2>2
  <2> QED BY <2>3, <2>4
<1>2. CASE Feeds
  <2>1. /\ watch_dog_flag' = watch_dog_flag /\ quiet' = 0 /\ watch_dog_run' = 3
        /\ dog_pc' = dog_pc /\ dog_seen' = dog_seen /\ dog_mode' = dog_mode
        /\ exited' = "no" /\ feeding' = TRUE
    BY <1>2 DEF Feeds, dogVars, Alive
  <2>2. ~dog_raced' => dog_pc \notin {"increment", "read_run"}
    BY <1>2 DEF Feeds, Outdated
  <2>3. DogType' /\ CounterCovers' /\ Overdue' /\ ModeChosen'
    BY <2>1
  <2>4. Exact'
    BY <2>1, <2>2
  <2> QED BY <2>3, <2>4
<1>3. CASE Chooses
  <2>1. /\ UNCHANGED <<watch_dog_flag, feeding, quiet, dog_raced, dog_pc, dog_seen, dog_mode>>
        /\ exited = "no" /\ exited' = "no"
        /\ watch_dog_run' \in 1 .. 2 /\ (watch_dog_run' = 1 \/ watch_dog_run # 1)
    BY <1>3 DEF Chooses, dogVars, Alive
  <2>2. DogType' /\ CounterCovers' /\ ModeChosen'
    BY <2>1
  <2>3. Overdue'
    <3>1. quiet > Limit[2] => watch_dog_run' <= dog_mode
      <4>1. quiet > Limit[2] => quiet > 0
        OBVIOUS
      <4>2. quiet > Limit[2] => watch_dog_run # 0 /\ watch_dog_run <= dog_mode
        BY <4>1
      <4> QED BY <2>1, <4>2
    <3> QED BY <2>1, <3>1
  <2>4. Exact'
    BY <2>1
  <2> QED BY <2>2, <2>3, <2>4
<1>4. CASE Nothing
  BY <1>4 DEF Nothing, watchVars, dogVars
<1>r. ASSUME Dog PROVE /\ ~dog_raced' => ~dog_raced /\ ~feeding
                       /\ exited = "no" /\ UNCHANGED <<watch_dog_run, feeding>>
  BY <1>r DEF Dog, DogReads, DogCounts, DogComparesFlag, DogComparesRun, Accesses, Alive, dogRest
<1>5. CASE DogReads
  BY <1>5, <1>r DEF Dog, DogReads
<1>6. CASE DogCounts
  BY <1>6, <1>r DEF Dog, DogCounts
<1>7. CASE DogComparesFlag
  BY <1>7, <1>r DEF Dog, DogComparesFlag, NextComparison
<1>8. CASE DogComparesRun
  BY <1>8, <1>r DEF Dog, DogComparesRun, NextComparison
<1> QED BY <1>1, <1>2, <1>3, <1>4, <1>5, <1>6, <1>7, <1>8, OthersStep DEF ThNext, Dog

LEMMA DogAlways == ThSpec => []DogInv
<1>1. ThInit => DogInv /\ LastMode
  BY LimitsNat DEF ThInit, DogInv, DogType, CounterCovers, Overdue, ModeChosen, Exact, Mode,
                   LastMode
<1> QED BY <1>1, DogStep, LastModeStep, PTL DEF ThSpec

(***************************************************************************)
(* A card that has died is noticed: in no mode, and whatever the callbacks *)
(* and the races do, do more steps pass than the longest limit and one.    *)
(***************************************************************************)
THEOREM SilenceBoundedAlways == ThSpec => []SilenceBounded
<1>1. DogInv => SilenceBounded
  BY LimitsNat DEF DogInv, DogType, Overdue, SilenceBounded
<1> QED BY <1>1, DogAlways, PTL

(***************************************************************************)
(* The process is not ended early, unless the last sign of life came       *)
(* between two accesses of the watch dog, or one of these between the two  *)
(* writes of origin_callback.                                              *)
(***************************************************************************)
THEOREM DogPatientAlways == ThSpec => []DogPatient
<1>1. DogInv => DogPatient
  BY DEF DogInv, Exact, DogPatient
<1> QED BY <1>1, DogAlways, PTL
-------------------------------------------------------------------------------
LEMMA AskedType == ASSUME answers \in Seq(Answer), NEW a \in Answer, Asked(a)
                   PROVE  answers' \in Seq(Answer)
  BY DEF Asked

LEMMA WaitType == ASSUME ThTypeOK, NEW bit, BitOrTimeout(bit)
                  PROVE  late' \in 0 .. MaxLate
                         /\ th_done' \subseteq {"STATUS_DONE", "METHOD_DONE", "RUNNING"}
<1>1. /\ late \in Nat /\ late <= MaxLate /\ MaxLate \in Nat
      /\ th_done \subseteq {"STATUS_DONE", "METHOD_DONE", "RUNNING"}
  BY LateAssumption DEF ThTypeOK
<1>2. th_done' \subseteq th_done /\ (late' = late \/ (late' = late + 1 /\ late < MaxLate))
  <2>1. CASE bit \in th_done BY <2>1 DEF BitOrTimeout
  <2>2. CASE bit \notin th_done BY <2>2 DEF BitOrTimeout
  <2> QED BY <2>1, <2>2
<1> QED BY <1>1, <1>2

LEMMA HeadType == ASSUME answers \in Seq(Answer), answers # <<>>
                  PROVE  /\ Tail(answers) \in Seq(Answer)
                         /\ \/ /\ Head(answers).bit = "STATUS_DONE"
                               /\ Head(answers).value \in {"idle", "running"}
                            \/ /\ Head(answers).bit = "METHOD_DONE"
                               /\ Head(answers).value \in {"dfu", "download"}
<1>1. Head(answers) \in Answer /\ Tail(answers) \in Seq(Answer)
  OBVIOUS
<1> QED BY <1>1 DEF Answer

LEMMA ThTypeStep == ThTypeOK /\ [ThNext]_thVars => ThTypeOK'
<1> SUFFICES ASSUME ThTypeOK, [ThNext]_thVars PROVE ThTypeOK'
  OBVIOUS
<1> USE DEF flagVars, cardVars, watchVars, dogVars, thRest, cardRest, dogRest, At, Goto, Alive
<1>p. (dog_raced \/ feeding) \in BOOLEAN
  OBVIOUS
<1>q. Outdated \in BOOLEAN
  BY DEF Outdated
<1>r. (dog_raced \/ Outdated) \in BOOLEAN
  OBVIOUS
<1>o. (dog_raced \/ feeding) \in BOOLEAN /\ Outdated \in BOOLEAN /\ (dog_raced \/ Outdated) \in BOOLEAN
  BY <1>p, <1>q, <1>r
<1>1. CASE LoopReset BY <1>1, <1>o DEF LoopReset, CounterReset, ThTypeOK
<1>m. CASE ChooseMode BY <1>m DEF ChooseMode, ThTypeOK
<1>2. CASE AskStatus
  <2>1. [bit |-> "STATUS_DONE", value |-> CardStatus] \in Answer
    BY DEF CardStatus, Answer
  <2>2. answers' \in Seq(Answer)
    BY <1>2, <2>1, AskedType DEF AskStatus, ThTypeOK
  <2> QED BY <1>2, <2>2 DEF AskStatus, ThTypeOK, Status
<1>3. CASE StatusKnown
  <2>1. late' \in 0 .. MaxLate /\ th_done' \subseteq {"STATUS_DONE", "METHOD_DONE", "RUNNING"}
    BY <1>3, WaitType DEF StatusKnown
  <2> QED BY <1>3, <2>1 DEF StatusKnown, Stopped, ThTypeOK
<1>4. CASE AskMethod
  <2>1. [bit |-> "METHOD_DONE", value |-> upgrades_by] \in Answer
    BY MethodAssumption DEF ThTypeOK, Answer
  <2>2. answers' \in Seq(Answer)
    BY <1>4, <2>1, AskedType DEF AskMethod, ThTypeOK
  <2> QED BY <1>4, <2>2 DEF AskMethod, ThTypeOK
<1>5. CASE MethodKnown
  <2>1. late' \in 0 .. MaxLate /\ th_done' \subseteq {"STATUS_DONE", "METHOD_DONE", "RUNNING"}
    BY <1>5, WaitType DEF MethodKnown
  <2>2. /\ th_pc' \in {"dfu", "start"} /\ version' \in {version, TRUE}
        /\ UNCHANGED <<goal, status, method, dfu_finish, get_thversion, need_reset, card, fw,
                       upgrades_by, answers, watchVars, thRest>>
    BY <1>5 DEF MethodKnown
  <2>3. version' \in BOOLEAN
    BY <2>2 DEF ThTypeOK
  <2> QED BY <2>1, <2>2, <2>3 DEF ThTypeOK
<1>6. CASE DfuOver
  <2>1. /\ th_pc' \in {th_pc, "start"} /\ dfu_finish' \in {dfu_finish, 0}
        /\ version' \in {version, TRUE} /\ exited' \in {"no", "dfu_failed"}
        /\ UNCHANGED <<goal, status, method, get_thversion, need_reset, th_done, cardVars,
                       watchVars, dogVars>>
    BY <1>6 DEF DfuOver
  <2>2. version' \in BOOLEAN
    BY <2>1 DEF ThTypeOK
  <2>3. dfu_finish' \in 0 .. 2
    BY <2>1 DEF ThTypeOK
  <2> QED BY <2>1, <2>2, <2>3 DEF ThTypeOK
<1>7. CASE StartCard BY <1>7 DEF StartCard, Started, Stopped, ThTypeOK
<1>8. CASE SetParams BY <1>8 DEF SetParams, Started, ThTypeOK
<1>9. CASE VersionKnown
  <2>1. /\ th_pc' \in {"loop_reset", "run_mode"} /\ th_done' \subseteq th_done
        /\ card' \in {card, "idle"}
        /\ get_thversion' \in {get_thversion, FALSE} /\ need_reset' \in {need_reset, FALSE}
        /\ UNCHANGED <<goal, status, method, dfu_finish, version, fw, upgrades_by, answers,
                       late, watch_dog_run, feeding, dogVars, exited>>
    BY <1>9 DEF VersionKnown
  <2>2. \/ watch_dog_flag' = 0 /\ quiet' = 0 /\ dog_raced' = Outdated
        \/ UNCHANGED watchVars
    BY <1>9 DEF VersionKnown, CounterReset
  <2>5. dog_raced' \in BOOLEAN
    BY <1>o, <2>2 DEF ThTypeOK
  <2>3. watch_dog_flag' \in Nat /\ quiet' \in Nat /\ dog_raced' \in BOOLEAN
    BY <2>2, <2>5 DEF ThTypeOK
  <2>4. get_thversion' \in BOOLEAN /\ need_reset' \in BOOLEAN
        /\ card' \in {"idle", "running", "stopping", "dead"}
        /\ th_done' \subseteq {"STATUS_DONE", "METHOD_DONE", "RUNNING"}
    BY <2>1 DEF ThTypeOK
  <2> QED BY <2>1, <2>3, <2>4 DEF ThTypeOK
<1>10. CASE MessageCallback
  <2>1. answers \in Seq(Answer) /\ answers # <<>>
    BY <1>10 DEF MessageCallback, ThTypeOK
  <2>2. /\ answers' \in Seq(Answer)
        /\ th_done' \subseteq {"STATUS_DONE", "METHOD_DONE", "RUNNING"}
        /\ status' \in Status /\ method' \in {"unknown", "dfu", "download"}
    BY <1>10, <2>1, HeadType DEF MessageCallback, ThTypeOK, Status
  <2>3. UNCHANGED <<dfu_finish, get_thversion, need_reset, version, card, fw, upgrades_by,
                    late, watchVars, cardRest>>
    BY <1>10 DEF MessageCallback
  <2> QED BY <2>2, <2>3 DEF ThTypeOK
<1>11. CASE FwVersion
  <2>1. /\ get_thversion' = TRUE /\ need_reset' \in BOOLEAN
        /\ th_done' \subseteq th_done \cup {"RUNNING"}
        /\ UNCHANGED <<status, method, dfu_finish, version, cardVars, watchVars, cardRest>>
    BY <1>11 DEF FwVersion, ThTypeOK
  <2> QED BY <2>1 DEF ThTypeOK
<1>12. CASE UpgradeCallback BY <1>12 DEF UpgradeCallback, ThTypeOK
<1>13. CASE OriginCallback BY <1>13, <1>o DEF OriginCallback, ThTypeOK
<1>a. CASE AudioCounted
  <2>1. /\ watch_dog_flag' = 0 /\ quiet' = 0 /\ feeding' = FALSE
        /\ UNCHANGED <<watch_dog_run, flagVars, th_done, cardVars, cardRest>>
    BY <1>a DEF AudioCounted, CounterReset
  <2>2. dog_raced' \in BOOLEAN
    BY <1>a, <1>o, Zenon DEF AudioCounted, CounterReset
  <2>3. /\ watch_dog_flag' \in Nat /\ quiet' \in Nat /\ feeding' \in BOOLEAN
    BY <2>1
  <2> QED BY <2>1, <2>2, <2>3 DEF ThTypeOK
<1>14. CASE CardStops BY <1>14 DEF CardStops, ThTypeOK
<1>15. CASE CardDies BY <1>15 DEF CardDies, Answering, ThTypeOK
<1>16. CASE DogReads BY <1>16, <1>o DEF Accesses, DogReads, ThTypeOK
<1>17. CASE DogCounts BY <1>17, <1>o DEF Accesses, DogCounts, ThTypeOK, Mode
<1>18. CASE DogComparesFlag BY <1>18, <1>o DEF Accesses, DogComparesFlag, NextComparison, ThTypeOK, Mode
<1>19. CASE DogComparesRun BY <1>19, <1>o DEF Accesses, DogComparesRun, NextComparison, ThTypeOK, Mode
<1>20. CASE UNCHANGED thVars BY <1>20 DEF thVars, ThTypeOK
<1> QED BY <1>1, <1>2, <1>3, <1>4, <1>5, <1>6, <1>7, <1>8, <1>9, <1>10, <1>11, <1>12, <1>13,
           <1>14, <1>15, <1>16, <1>17, <1>18, <1>19, <1>20, <1>m, <1>a
           DEF ThNext, ThRun, Card, Dog

\* Every variable keeps its type, for any number of late answers.
THEOREM ThTypeAlways == ThSpec => []ThTypeOK
<1>1. ThInit => ThTypeOK
  <2>1. <<>> \in Seq(Answer) /\ 0 \in 0 .. MaxLate /\ 0 \in 0 .. 2 /\ 0 \in 0 .. 3
        /\ 0 \in Nat /\ 3 \in 1 .. 3
    BY LateAssumption
  <2>2. ThInit => card \in {"idle", "running", "stopping", "dead"}
    BY DEF ThInit
  <2>3. FALSE \in BOOLEAN /\ {} \subseteq {"STATUS_DONE", "METHOD_DONE", "RUNNING"}
    OBVIOUS
  <2> QED BY <2>1, <2>2, <2>3, Zenon DEF ThInit, ThTypeOK, Mode, Status
<1> QED BY <1>1, ThTypeStep, PTL DEF ThSpec

(***************************************************************************)
(* The bit of the question TH waits on, in the step where it waits.        *)
(***************************************************************************)
Expects(bit) == \/ bit = "STATUS_DONE" /\ th_pc = "wait"
                \/ bit = "METHOD_DONE" /\ th_pc = "wait_method"

(***************************************************************************)
(* While no question was given up with its answer under way, an answer     *)
(* under way is the only one and its bit is not yet set, ...               *)
(***************************************************************************)
OneAnswer ==
    answers # <<>> => /\ card # "dead" /\ Len(answers) = 1
                      /\ Expects(Head(answers).bit)
                      /\ Head(answers).bit \notin th_done

\* ... a bit that is set is the one TH waits for, ...
OwnBit == \A bit \in th_done \ {"RUNNING"} : Expects(bit)

(***************************************************************************)
(* ... and an "idle", under way or stored, is true of the card still, as   *)
(* it is of the card whose parameters are set: only TH starts it.          *)
(***************************************************************************)
IdleIsTrue ==
    /\ \/ th_pc = "set"
       \/ th_pc = "wait" /\ status = "idle"
       \/ answers # <<>> /\ Head(answers) = [bit |-> "STATUS_DONE", value |-> "idle"]
      => card \in {"idle", "dead"}

Questions == late = 0 => OneAnswer /\ OwnBit /\ IdleIsTrue

(***************************************************************************)
(* What TH and the card do to the questions.  TH takes the bit of its      *)
(* question, and then nothing is under way; or gives the question up.      *)
(***************************************************************************)
LEMMA TakesOwnBit ==
  ASSUME ThTypeOK, Questions, NEW bit, Expects(bit), BitOrTimeout(bit), late' = 0
  PROVE  late = 0 /\ answers = <<>> /\ th_done' \subseteq {"RUNNING"}
<1>1. late \in Nat
  BY DEF ThTypeOK
<1>2. late = 0 /\ (bit \in th_done \/ card = "dead")
  BY <1>1 DEF BitOrTimeout
<1>3. \A b \in th_done \ {"RUNNING"} : b = bit
  BY <1>2 DEF Questions, OwnBit, Expects
<1>4. th_done' = th_done \ {bit}
  BY DEF BitOrTimeout
<1>5. answers = <<>>
  <2> SUFFICES ASSUME answers # <<>> PROVE FALSE
    OBVIOUS
  <2>1. Expects(Head(answers).bit) /\ Head(answers).bit \notin th_done /\ card # "dead"
    BY <1>2 DEF Questions, OneAnswer
  <2>2. Head(answers).bit = bit
    BY <2>1 DEF Expects
  <2> QED BY <2>1, <2>2, <1>2
<1> QED BY <1>2, <1>3, <1>4, <1>5

LEMMA QuestionsStep == ThTypeOK /\ Questions /\ [ThNext]_thVars => Questions'
<1> SUFFICES ASSUME ThTypeOK, Questions, [ThNext]_thVars, late' = 0
             PROVE  OneAnswer' /\ OwnBit' /\ IdleIsTrue'
  BY DEF Questions
<1> USE DEF flagVars, cardVars, watchVars, dogVars, thRest, cardRest, dogRest, At, Goto, Alive
<1>0. ASSUME answers' = <<>>, th_done' \subseteq {"RUNNING"},
             th_pc' # "wait", th_pc' = "set" => card' \in {"idle", "dead"}
      PROVE  OneAnswer' /\ OwnBit' /\ IdleIsTrue'
  BY <1>0 DEF OneAnswer, OwnBit, IdleIsTrue
<1>a. ASSUME late = 0, th_pc \notin {"wait", "wait_method"}
      PROVE  answers = <<>> /\ th_done \subseteq {"RUNNING"}
  BY <1>a DEF Questions, OneAnswer, OwnBit, Expects
<1>1. CASE LoopReset
  <2>1. late = 0 /\ th_pc = "loop_reset" /\ th_pc' = "reset_mode"
        /\ answers' = answers /\ th_done' = th_done
    BY <1>1 DEF LoopReset
  <2> QED BY <2>1, <1>a, <1>0
<1>m. CASE ChooseMode
  <2>1. late = 0 /\ th_pc \in {"reset_mode", "run_mode"} /\ th_pc' \in {"ask", "running"}
        /\ answers' = answers /\ th_done' = th_done
    BY <1>m DEF ChooseMode
  <2> QED BY <2>1, <1>a, <1>0
<1>2. CASE AskStatus
  <2>1. late = 0 /\ th_pc = "ask" /\ th_pc' = "wait" /\ th_done' = th_done
        /\ card' = card /\ status' = "unknown"
        /\ Asked([bit |-> "STATUS_DONE", value |-> CardStatus])
    BY <1>2 DEF AskStatus
  <2>2. answers = <<>> /\ th_done \subseteq {"RUNNING"}
    BY <2>1, <1>a
  <2>3. CASE card = "dead"
    BY <2>1, <2>2, <2>3 DEF Asked, OneAnswer, OwnBit, IdleIsTrue
  <2>4. CASE card # "dead"
    <3>1. answers' = <<[bit |-> "STATUS_DONE", value |-> CardStatus]>>
      BY <2>1, <2>2, <2>4 DEF Asked
    <3>2. Len(answers') = 1 /\ Head(answers') = [bit |-> "STATUS_DONE", value |-> CardStatus]
      BY <3>1
    <3>3. OneAnswer' /\ OwnBit'
      BY <3>2, <2>1, <2>2, <2>4 DEF OneAnswer, OwnBit, Expects
    <3>4. IdleIsTrue'
      BY <3>2, <2>1 DEF IdleIsTrue, CardStatus
    <3> QED BY <3>3, <3>4
  <2> QED BY <2>3, <2>4
<1>3. CASE StatusKnown
  <2>1. th_pc = "wait" /\ BitOrTimeout("STATUS_DONE") /\ answers' = answers
    BY <1>3 DEF StatusKnown
  <2>2. late = 0 /\ answers' = <<>> /\ th_done' \subseteq {"RUNNING"}
    BY <2>1, TakesOwnBit DEF Expects
  <2>3. \/ status = "idle" /\ th_pc' \in {"ask_method", "set"} /\ card' = card
        \/ th_pc' = "ask"
    BY <1>3 DEF StatusKnown
  <2>4. status = "idle" => card \in {"idle", "dead"}
    BY <2>1, <2>2 DEF Questions, IdleIsTrue
  <2> QED BY <2>2, <2>3, <2>4, <1>0
<1>4. CASE AskMethod
  <2>1. late = 0 /\ th_pc = "ask_method" /\ th_pc' = "wait_method" /\ th_done' = th_done
        /\ card' = card /\ Asked([bit |-> "METHOD_DONE", value |-> upgrades_by])
    BY <1>4 DEF AskMethod
  <2>2. answers = <<>> /\ th_done \subseteq {"RUNNING"}
    BY <2>1, <1>a
  <2>3. CASE card = "dead"
    BY <2>1, <2>2, <2>3, <1>0 DEF Asked
  <2>4. CASE card # "dead"
    <3>1. answers' = <<[bit |-> "METHOD_DONE", value |-> upgrades_by]>>
      BY <2>1, <2>2, <2>4 DEF Asked
    <3>2. Len(answers') = 1 /\ Head(answers') = [bit |-> "METHOD_DONE", value |-> upgrades_by]
      BY <3>1
    <3>3. OneAnswer' /\ OwnBit'
      BY <3>2, <2>1, <2>2, <2>4 DEF OneAnswer, OwnBit, Expects
    <3>4. IdleIsTrue'
      BY <3>2, <2>1 DEF IdleIsTrue
    <3> QED BY <3>3, <3>4
  <2> QED BY <2>3, <2>4
<1>5. CASE MethodKnown
  <2>1. th_pc = "wait_method" /\ BitOrTimeout("METHOD_DONE") /\ answers' = answers
        /\ th_pc' \in {"dfu", "start"}
    BY <1>5 DEF MethodKnown
  <2> QED BY <2>1, TakesOwnBit, <1>0 DEF Expects
<1>6. CASE DfuOver
  <2>1. late = 0 /\ th_pc = "dfu" /\ th_pc' \in {"dfu", "start"}
        /\ answers' = answers /\ th_done' = th_done
    BY <1>6 DEF DfuOver
  <2> QED BY <2>1, <1>a, <1>0
<1>7. CASE StartCard
  <2>1. late = 0 /\ th_pc = "start" /\ th_pc' \in {"ask", "ended"}
        /\ answers' = answers /\ th_done' = th_done
    BY <1>7 DEF StartCard
  <2> QED BY <2>1, <1>a, <1>0
<1>8. CASE SetParams
  <2>1. late = 0 /\ th_pc = "set" /\ th_pc' = "wait_running"
        /\ answers' = answers /\ th_done' = th_done
    BY <1>8 DEF SetParams
  <2> QED BY <2>1, <1>a, <1>0
<1>9. CASE VersionKnown
  <2>1. late = 0 /\ th_pc = "wait_running" /\ th_pc' \in {"loop_reset", "run_mode"}
        /\ answers' = answers /\ th_done' \subseteq th_done
    BY <1>9 DEF VersionKnown
  <2> QED BY <2>1, <1>a, <1>0
<1>10. CASE MessageCallback
  <2>1. late = 0 /\ answers # <<>> /\ th_pc' = th_pc /\ card' = card
        /\ answers' = Tail(answers) /\ th_done' = th_done \cup {Head(answers).bit}
    BY <1>10 DEF MessageCallback
  <2>2. OneAnswer /\ OwnBit /\ IdleIsTrue
    BY <2>1 DEF Questions
  <2>3. answers' = <<>>
    BY <2>1, <2>2 DEF OneAnswer, ThTypeOK
  <2>4. OneAnswer' /\ OwnBit'
    BY <2>1, <2>2, <2>3 DEF OneAnswer, OwnBit, Expects
  <2>5. ASSUME th_pc = "wait", status' = "idle" PROVE card \in {"idle", "dead"}
    <3>1. Head(answers).bit = "STATUS_DONE"
      BY <2>1, <2>2, <2>5 DEF OneAnswer, Expects
    <3>2. status' = Head(answers).value
      BY <3>1, <1>10 DEF MessageCallback
    <3>3. Head(answers) \in Answer
      BY <2>1 DEF ThTypeOK
    <3>4. Head(answers) = [bit |-> "STATUS_DONE", value |-> "idle"]
      BY <3>1, <3>2, <3>3, <2>5 DEF Answer
    <3> QED BY <2>1, <2>2, <3>4 DEF IdleIsTrue
  <2>6. th_pc = "set" => card \in {"idle", "dead"}
    BY <2>2 DEF IdleIsTrue
  <2>7. IdleIsTrue'
    BY <2>1, <2>3, <2>5, <2>6 DEF IdleIsTrue
  <2> QED BY <2>4, <2>7
<1>11. CASE FwVersion
  BY <1>11 DEF FwVersion, Questions, OneAnswer, OwnBit, IdleIsTrue, Expects
<1>14. CASE CardStops
  BY <1>14 DEF CardStops, Questions, OneAnswer, OwnBit, IdleIsTrue, Expects
<1>15. CASE CardDies
  BY <1>15 DEF CardDies, Questions, OneAnswer, OwnBit, IdleIsTrue, Expects
<1>16. CASE UpgradeCallback \/ OriginCallback \/ AudioCounted \/ Dog \/ UNCHANGED thVars
  <2>1. UNCHANGED <<late, th_pc, answers, th_done, card, status>>
    BY <1>16 DEF UpgradeCallback, OriginCallback, AudioCounted, Dog, DogReads, DogCounts,
                 DogComparesFlag, DogComparesRun, thVars
  <2> QED BY <2>1 DEF Questions, OneAnswer, OwnBit, IdleIsTrue, Expects
<1> QED BY <1>1, <1>2, <1>3, <1>4, <1>5, <1>6, <1>7, <1>8, <1>9, <1>10, <1>11, <1>14, <1>15,
           <1>16, <1>m DEF ThNext, ThRun, Card

(***************************************************************************)
(* th_set_info sets the parameters of an idle card (or a dead one), as     *)
(* long as no answer comes after get_th_status gave its question up.       *)
(***************************************************************************)
THEOREM SetWhenIdleAlways == ThSpec => []SetWhenIdle
<1>1. ThInit => Questions
  BY DEF ThInit, Questions, OneAnswer, OwnBit, IdleIsTrue
<1>2. Questions => SetWhenIdle
  BY DEF Questions, IdleIsTrue, SetWhenIdle
<1> QED BY <1>1, <1>2, QuestionsStep, ThTypeAlways, PTL DEF ThSpec
===============================================================================
