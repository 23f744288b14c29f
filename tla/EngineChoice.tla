----------------------------- MODULE EngineChoice -----------------------------
(***************************************************************************)
(* Who chooses the recogniser (component/aispeech/asr_processor/src/       *)
(* asr_processor.c): the thread net_check probes the network and sets      *)
(* asr_type, until asr_set_dui_or_local takes the choice away from it and  *)
(* asr_restore_net_check gives it back.  A probe takes its time, so that   *)
(* the taker waits for the sign that no probe is under way any more.       *)
(***************************************************************************)
EXTENDS Naturals

CONSTANT MaxChoices \* how often the engine is set by hand

ASSUME ChoicesAssumption == MaxChoices \in Nat

Engines == {"local", "dui"}

VARIABLES
    asr_type,          \* the recogniser in use
    net_check_running, \* s_ap.net_check_running
    choice_lock,       \* s_ap.net_status_check_lock: no dialogue is under way
    or_asr_done,       \* the bit BIT_DDS_OR_ASR_DONE
    net_pc,            \* the thread net_check
    choice_pc,         \* the console in asr_set_dui_or_local
    choice,            \* the engine it asks for
    updates,           \* the CMD_NETWORK_UPDATE process has not handled yet
    pinned,            \* the engine set by hand and not given up since, or "none"
    choices            \* how often it was set

engineVars == <<asr_type, net_check_running, choice_lock, or_asr_done, net_pc, choice_pc,
                choice, updates, pinned, choices>>

EngineTypeOK ==
    /\ asr_type \in Engines
    /\ net_check_running \in BOOLEAN /\ choice_lock \in BOOLEAN /\ or_asr_done \in BOOLEAN
    /\ net_pc \in {"running", "lock", "probe", "apply_local", "apply_dui", "tell"}
    /\ choice_pc \in {"idle", "stop", "clear", "wait", "assign"}
    /\ choice \in Engines
    /\ updates \in 0 .. 2
    /\ pinned \in Engines \cup {"none"}
    /\ choices \in 0 .. MaxChoices

\* process and main send a CMD_NETWORK_UPDATE each at start-up.
EngineInit ==
    /\ asr_type = "local"
    /\ net_check_running = TRUE /\ choice_lock = TRUE /\ or_asr_done = FALSE
    /\ net_pc = "running" /\ choice_pc = "idle" /\ choice = "local"
    /\ updates = 2 /\ pinned = "none" /\ choices = 0
-------------------------------------------------------------------------------
choiceVars == <<choice_pc, choice, pinned, choices>>

NetGoto(from, to) == net_pc = from /\ net_pc' = to

\* net_check_run: is the check on?
NetReadsRunning ==
    /\ NetGoto("running", IF net_check_running THEN "lock" ELSE "tell")
    /\ UNCHANGED <<asr_type, net_check_running, choice_lock, or_asr_done, updates, choiceVars>>

NetReadsLock ==
    /\ NetGoto("lock", IF choice_lock THEN "probe" ELSE "running")
    /\ UNCHANGED <<asr_type, net_check_running, choice_lock, or_asr_done, updates, choiceVars>>

\* net_status_check
NetProbes ==
    /\ \E answer \in {"apply_local", "apply_dui"} : NetGoto("probe", answer)
    /\ UNCHANGED <<asr_type, net_check_running, choice_lock, or_asr_done, updates, choiceVars>>

NetApplies ==
    /\ \/ NetGoto("apply_local", "running") /\ asr_type' = "local"
       \/ NetGoto("apply_dui", "running") /\ asr_type' = "dui"
    /\ UNCHANGED <<net_check_running, choice_lock, or_asr_done, updates, choiceVars>>

\* Slip: the sign is not given in a dialogue.
TellUnlocked ==
    /\ NetGoto("tell", "running")
    /\ or_asr_done' = (or_asr_done \/ choice_lock)
    /\ UNCHANGED <<asr_type, net_check_running, choice_lock, updates, choiceVars>>

\* The check is off: no probe is under way.
NetTells ==
    /\ NetGoto("tell", "running")
    /\ or_asr_done' = TRUE
    /\ UNCHANGED <<asr_type, net_check_running, choice_lock, updates, choiceVars>>

NetCheck == NetReadsRunning \/ NetReadsLock \/ NetProbes \/ NetApplies \/ NetTells
-------------------------------------------------------------------------------
ChoiceGoto(from, to) == choice_pc = from /\ choice_pc' = to

\* asr_set_dui_or_local refuses in a dialogue.
ChoiceBegins(e) ==
    /\ choices < MaxChoices /\ choices' = choices + 1
    /\ choice' = e
    /\ ChoiceGoto("idle", IF choice_lock THEN "stop" ELSE "idle")
    /\ UNCHANGED <<asr_type, net_check_running, choice_lock, or_asr_done, net_pc, updates,
                   pinned>>

ChoiceStopsCheck ==
    /\ ChoiceGoto("stop", "clear")
    /\ net_check_running' = FALSE
    /\ UNCHANGED <<asr_type, choice_lock, or_asr_done, net_pc, updates, choice, pinned, choices>>

\* Slip: a sign of an earlier time is not cleared.
ClearNothing ==
    /\ ChoiceGoto("clear", "wait")
    /\ UNCHANGED <<asr_type, net_check_running, choice_lock, or_asr_done, net_pc, updates,
                   choice, pinned, choices>>

ChoiceClearsBit ==
    /\ ChoiceGoto("clear", "wait")
    /\ or_asr_done' = FALSE
    /\ UNCHANGED <<asr_type, net_check_running, choice_lock, net_pc, updates, choice, pinned,
                   choices>>

ChoiceWaits ==
    /\ ChoiceGoto("wait", "assign") /\ or_asr_done
    /\ or_asr_done' = FALSE
    /\ UNCHANGED <<asr_type, net_check_running, choice_lock, net_pc, updates, choice, pinned,
                   choices>>

ChoiceAssigns ==
    /\ ChoiceGoto("assign", "idle")
    /\ asr_type' = choice /\ pinned' = choice
    /\ UNCHANGED <<net_check_running, choice_lock, or_asr_done, net_pc, updates, choice, choices>>

Choice == ChoiceStopsCheck \/ ChoiceClearsBit \/ ChoiceWaits \/ ChoiceAssigns

\* asr_restore_net_check
RestoreNetCheck ==
    /\ choice_pc = "idle" /\ ~net_check_running
    /\ net_check_running' = TRUE /\ pinned' = "none"
    /\ UNCHANGED <<asr_type, choice_lock, or_asr_done, net_pc, updates, choice_pc, choice, choices>>

\* process_run handles a CMD_NETWORK_UPDATE.
NetworkUpdate ==
    /\ updates > 0 /\ updates' = updates - 1
    /\ asr_type' = "dui" /\ pinned' = "none"
    /\ UNCHANGED <<net_check_running, choice_lock, or_asr_done, net_pc, choice_pc, choice, choices>>

\* A dialogue begins or ends.
LockChanges ==
    /\ choice_lock' = ~choice_lock
    /\ UNCHANGED <<asr_type, net_check_running, or_asr_done, net_pc, updates, choiceVars>>

EngineNext == \/ NetCheck \/ Choice \/ RestoreNetCheck \/ NetworkUpdate \/ LockChanges
              \/ \E e \in Engines : ChoiceBegins(e)

EngineSpec == EngineInit /\ [][EngineNext]_engineVars
-------------------------------------------------------------------------------
(***************************************************************************)
(* An engine set by hand stays: no probe that was under way, or begun      *)
(* between two settings, overwrites it.                                    *)
(***************************************************************************)
EnginePinned == pinned # "none" => asr_type = pinned

(***************************************************************************)
(* asr_set_dui_or_local, which waits without limit, returns: the check     *)
(* comes to its idle branch whatever the dialogues do to its lock.         *)
(***************************************************************************)
ChoiceReturns == choice_pc # "idle" ~> choice_pc = "idle"
===============================================================================
