------------------------------ MODULE VoiceCache ------------------------------
(***************************************************************************)
(* The suppression of repeated phrases (app/src/voice_message_prase.c).    *)
(* voice_on_prase runs on the main loop for results of the cloud and on    *)
(* the sound card's thread for results of the card; voice_sleep_cheak      *)
(* forgets the last phrase two seconds after it.  They share tmp_voice and *)
(* last_voice_time behind voice_ache_flag, which is tested and set in two  *)
(* steps; who finds it set goes on without.                                *)
(*                                                                         *)
(* Every phrase but Miss matches a rule.  A second is a round of the       *)
(* thread that sleeps for one.                                             *)
(***************************************************************************)
EXTENDS Naturals

CONSTANTS
    Voices,   \* the phrases a rule matches
    Miss,     \* a phrase no rule matches
    None,     \* the empty tmp_voice
    MaxVoices \* how many phrases are recognised

ASSUME VoicesAssumption == Miss \notin Voices /\ None \notin Voices \cup {Miss}
ASSUME VoiceBound       == MaxVoices \in Nat

Callers == {"main", "th"}
Window  == 2 \* seconds a phrase is remembered
Unset   == Window + 1

VARIABLES
    voice_ache_flag, \* the flag
    tmp_voice,       \* the last phrase
    last_voice_time, \* the seconds since it was stored, up to Window, or Unset
    caller_pc,       \* where the callers are in voice_on_prase
    voice,           \* their phrases
    cheak_at,        \* where voice_sleep_cheak is
    since,           \* the seconds since a phrase was cached last, up to Unset
    busy,            \* has anyone found the flag set and gone on without?
    flag_raced,      \* have two been between the test of the flag and its release?
    calls_overlap,   \* has a call begun before another was over?
    voices           \* the number of phrases recognised

callerVars == <<caller_pc, voice, calls_overlap, voices>>
voiceVars  == <<voice_ache_flag, tmp_voice, last_voice_time, callerVars, cheak_at,
                since, busy, flag_raced>>

InCallerFlag == {"leave_skip", "leave_go", "store_time"}
InCheakFlag  == {"forget", "unset", "leave"}

VoiceTypeOK ==
    /\ voice_ache_flag \in {0, 1}
    /\ tmp_voice \in Voices \cup {None}
    /\ last_voice_time \in 0 .. Unset
    /\ caller_pc \in [Callers -> {"idle", "test", "set", "act", "test_cache", "set_cache"}
                                 \cup InCallerFlag]
    /\ voice \in [Callers -> Voices \cup {Miss}]
    /\ cheak_at \in {"test", "set", "sleep"} \cup InCheakFlag
    /\ since \in [Voices -> 0 .. Unset]
    /\ busy \in BOOLEAN /\ flag_raced \in BOOLEAN /\ calls_overlap \in BOOLEAN
    /\ voices \in 0 .. MaxVoices

VoiceInit ==
    /\ voice_ache_flag = 0 /\ tmp_voice = None /\ last_voice_time = Unset
    /\ caller_pc = [c \in Callers |-> "idle"] /\ voice = [c \in Callers |-> Miss]
    /\ cheak_at = "test"
    /\ since = [v \in Voices |-> Unset]
    /\ busy = FALSE /\ flag_raced = FALSE /\ calls_overlap = FALSE /\ voices = 0
-------------------------------------------------------------------------------
\* Is anyone between a successful test of the flag and its release?
Holding == \/ \E c \in Callers : caller_pc[c] \in InCallerFlag \cup {"set", "set_cache"}
           \/ cheak_at \in InCheakFlag \cup {"set"}

CallerGoto(c, pc) == caller_pc' = [caller_pc EXCEPT ![c] = pc]

\* The flag is 0: c goes on to set it.  It is 1: c goes where it goes without.
TestFlag(c, free, taken) ==
    \/ /\ voice_ache_flag = 0
       /\ CallerGoto(c, free)
       /\ flag_raced' = (flag_raced \/ Holding)
       /\ UNCHANGED busy
    \/ /\ voice_ache_flag = 1
       /\ CallerGoto(c, taken)
       /\ busy' = TRUE
       /\ UNCHANGED flag_raced

cache == <<voice_ache_flag, tmp_voice, last_voice_time>>

\* A result with the phrase v reaches voice_on_prase.
Recognised(c, v) ==
    /\ caller_pc[c] = "idle" /\ voices < MaxVoices
    /\ voices' = voices + 1
    /\ voice' = [voice EXCEPT ![c] = v]
    /\ CallerGoto(c, "test")
    /\ calls_overlap' = (calls_overlap \/ \E d \in Callers : caller_pc[d] # "idle")
    /\ UNCHANGED <<cache, cheak_at, since, busy, flag_raced>>

callerRest == <<voice, calls_overlap, voices, cheak_at>>

\* voice_cheak_skip
CheakTest(c) ==
    /\ caller_pc[c] = "test"
    /\ TestFlag(c, "set", "act")
    /\ UNCHANGED <<cache, callerRest, since>>

\* The flag is set and the phrases are compared.
CheakSet(c) ==
    /\ caller_pc[c] = "set"
    /\ voice_ache_flag' = 1
    /\ CallerGoto(c, IF tmp_voice = voice[c] THEN "leave_skip" ELSE "leave_go")
    /\ UNCHANGED <<tmp_voice, last_voice_time, callerRest, since, busy, flag_raced>>

\* The flag is given back, also by the return of -3.
CheakLeave(c) ==
    /\ caller_pc[c] \in {"leave_skip", "leave_go"}
    /\ voice_ache_flag' = 0
    /\ CallerGoto(c, IF caller_pc[c] = "leave_go" THEN "act" ELSE "idle")
    /\ UNCHANGED <<tmp_voice, last_voice_time, callerRest, since, busy, flag_raced>>

\* voice_on_prase: the first rule that matches has the phrase cached; the actions follow.
Act(c) ==
    /\ caller_pc[c] = "act"
    /\ CallerGoto(c, IF voice[c] = Miss THEN "idle" ELSE "test_cache")
    /\ UNCHANGED <<cache, callerRest, since, busy, flag_raced>>

\* cache_voice_on
CacheTest(c) ==
    /\ caller_pc[c] = "test_cache"
    /\ TestFlag(c, "set_cache", "idle")
    /\ UNCHANGED <<cache, callerRest, since>>

CacheSet(c) ==
    /\ caller_pc[c] = "set_cache"
    /\ voice_ache_flag' = 1
    /\ tmp_voice' = voice[c]
    /\ CallerGoto(c, "store_time")
    /\ UNCHANGED <<last_voice_time, callerRest, since, busy, flag_raced>>

\* Slip: the time is not stored.
StoreNoTime(c) ==
    /\ caller_pc[c] = "store_time"
    /\ since' = [since EXCEPT ![voice[c]] = 0]
    /\ voice_ache_flag' = 0
    /\ CallerGoto(c, "idle")
    /\ UNCHANGED <<tmp_voice, last_voice_time, callerRest, busy, flag_raced>>

\* Slip: the flag is not given back.
StoreKeepsFlag(c) ==
    /\ caller_pc[c] = "store_time"
    /\ last_voice_time' = 0
    /\ since' = [since EXCEPT ![voice[c]] = 0]
    /\ CallerGoto(c, "idle")
    /\ UNCHANGED <<voice_ache_flag, tmp_voice, callerRest, busy, flag_raced>>

CacheStoreTime(c) ==
    /\ caller_pc[c] = "store_time"
    /\ last_voice_time' = 0
    /\ since' = [since EXCEPT ![voice[c]] = 0]
    /\ voice_ache_flag' = 0
    /\ CallerGoto(c, "idle")
    /\ UNCHANGED <<tmp_voice, callerRest, busy, flag_raced>>

Caller(c) == \/ CheakTest(c) \/ CheakSet(c) \/ CheakLeave(c) \/ Act(c)
             \/ CacheTest(c) \/ CacheSet(c) \/ CacheStoreTime(c)
-------------------------------------------------------------------------------
\* The half of voice_sleep_cheak that forgets the last phrase.
ResetTest ==
    /\ cheak_at = "test"
    /\ \/ /\ voice_ache_flag = 0
          /\ cheak_at' = "set"
          /\ flag_raced' = (flag_raced \/ Holding)
          /\ UNCHANGED busy
       \/ /\ voice_ache_flag = 1
          /\ cheak_at' = "sleep"
          /\ busy' = TRUE
          /\ UNCHANGED flag_raced
    /\ UNCHANGED <<cache, callerVars, since>>

resetRest == <<callerVars, since, busy, flag_raced>>

\* Slip: the time is not looked at.
ResetAnyTime ==
    /\ cheak_at = "set"
    /\ voice_ache_flag' = 1
    /\ cheak_at' = "forget"
    /\ UNCHANGED <<tmp_voice, last_voice_time, resetRest>>

\* The flag is set and the time is looked at.
ResetSet ==
    /\ cheak_at = "set"
    /\ voice_ache_flag' = 1
    /\ cheak_at' = IF last_voice_time = Window THEN "forget" ELSE "leave"
    /\ UNCHANGED <<tmp_voice, last_voice_time, resetRest>>

ResetForget ==
    /\ cheak_at = "forget"
    /\ tmp_voice' = None /\ cheak_at' = "unset"
    /\ UNCHANGED <<voice_ache_flag, last_voice_time, resetRest>>

\* The time is unset, if the phrase was forgotten, and the flag given back.
ResetLeave ==
    /\ cheak_at \in {"unset", "leave"}
    /\ last_voice_time' = IF cheak_at = "unset" THEN Unset ELSE last_voice_time
    /\ voice_ache_flag' = 0 /\ cheak_at' = "sleep"
    /\ UNCHANGED <<tmp_voice, resetRest>>

\* sleep(1): the clock goes on.
SecondPasses ==
    /\ cheak_at = "sleep"
    /\ cheak_at' = "test"
    /\ last_voice_time' = IF last_voice_time < Window THEN last_voice_time + 1
                                                                 ELSE last_voice_time
    /\ since' = [v \in Voices |-> IF since[v] < Unset THEN since[v] + 1 ELSE since[v]]
    /\ UNCHANGED <<voice_ache_flag, tmp_voice, callerVars, busy, flag_raced>>

Reset == ResetTest \/ ResetSet \/ ResetForget \/ ResetLeave \/ SecondPasses

VoiceNext ==
    \/ \E c \in Callers : Caller(c) \/ \E v \in Voices \cup {Miss} : Recognised(c, v)
    \/ Reset

VoiceSpec == VoiceInit /\ [][VoiceNext]_voiceVars
-------------------------------------------------------------------------------
(***************************************************************************)
(* As long as no two were inside at once the flag is a lock: who is inside *)
(* finds it set, and nobody else is.                                       *)
(***************************************************************************)
FlagExcludes ==
    ~flag_raced =>
        /\ \A c, d \in Callers :
              caller_pc[c] \in InCallerFlag /\ caller_pc[d] \in InCallerFlag => c = d
        /\ ~ (\E c \in Callers : caller_pc[c] \in InCallerFlag) \/ cheak_at \notin InCheakFlag
        /\ (\E c \in Callers : caller_pc[c] \in InCallerFlag) \/ cheak_at \in InCheakFlag
              => voice_ache_flag = 1

(***************************************************************************)
(* A phrase is suppressed only if it was acted upon within the last two    *)
(* seconds; a round missed for the flag, or a race, may make it longer.    *)
(***************************************************************************)
SkipJustified ==
    \A c \in Callers :
        caller_pc[c] = "leave_skip" /\ ~busy /\ ~flag_raced => since[voice[c]] <= Window

(***************************************************************************)
(* A phrase is not acted upon twice within a second, unless the flag was   *)
(* found set, or the calls were under way together: the second is checked  *)
(* before the first is cached; or unless another phrase came since, for    *)
(* only the last one is remembered.                                        *)
(***************************************************************************)
Recent(v) == since[v] < Window /\ \A w \in Voices \ {v} : since[w] > since[v]

RepeatSuppressed ==
    [][\A c \in Callers :
          caller_pc[c] = "act" /\ caller_pc'[c] = "test_cache" /\ Recent(voice[c])
          => busy \/ flag_raced \/ calls_overlap]_voiceVars

(***************************************************************************)
(* What was said is forgotten: no phrase is suppressed for good.  A race   *)
(* is excepted: when the thread unsets the time of a phrase that has just  *)
(* replaced the one it forgot, only another phrase ends the suppression.   *)
(***************************************************************************)
PhraseForgotten == tmp_voice # None ~> tmp_voice = None \/ flag_raced
===============================================================================
