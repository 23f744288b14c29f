------------------------------ MODULE DdsSession ------------------------------
(***************************************************************************)
(* Changing between half and full duplex (set_dds_type, dds_reload and     *)
(* dds_run of component/aispeech/asr_processor/src/asr_processor.c).  The  *)
(* thread dds runs one session after another in dds_start, which uses the  *)
(* object s_ap.dds; whoever changes the type sends DDS_EV_IN_EXIT, waits   *)
(* for the session's end, deletes the object and builds the next one.  Two *)
(* event bits hand the object over.                                        *)
(*                                                                         *)
(* The callers are main, which at start-up insists on full duplex before   *)
(* it reads its first message, and the console of test_run.                *)
(***************************************************************************)
EXTENDS Naturals

CONSTANT MaxSets \* how often the console sets the type

ASSUME SetsAssumption == MaxSets \in Nat

Setters == {"main", "console"}
Types   == {"half", "full"}

VARIABLES
    dds_type,   \* the type wanted
    dds_lock,   \* net_status_check_lock: no dialogue is under way
    dds_bits,   \* READY_DONE and CHANGE_MODE of s_ap.done
    dds_pc,     \* the thread dds
    session,    \* dds_start: is the session up, and was it told to exit?
    dds_object, \* s_ap.dds: the type it was built for, or "deleted"
    setter_pc,  \* where the callers are in set_dds_type
    wanted,     \* the type they ask for
    login,      \* BIT_DDS_READY: has a session come up, or ended before any did?
    missed,     \* has a DDS_EV_IN_EXIT met no session, or one told before?
    sets        \* the number of types the console set

ddsVars == <<dds_type, dds_lock, dds_bits, dds_pc, session, dds_object, setter_pc, wanted,
             login, missed, sets>>

DdsTypeOK ==
    /\ dds_type \in Types
    /\ dds_lock \in BOOLEAN
    /\ dds_bits \subseteq {"READY_DONE", "CHANGE_MODE"}
    /\ dds_pc \in {"wait", "in_start", "over"}
    /\ session \in {"none", "up", "told"}
    /\ dds_object \in Types \cup {"deleted"}
    /\ setter_pc \in [Setters -> {"login", "idle", "assign", "exit", "await", "delete", "build",
                                  "ready", "messages"}]
    /\ wanted \in [Setters -> Types]
    /\ login \in {"not_yet", "done", "failed"} /\ missed \in BOOLEAN
    /\ sets \in 0 .. MaxSets

\* do_dds_auth has built the first object; dds_run sets READY_DONE before its loop.
DdsInit ==
    /\ dds_type \in Types /\ dds_object = dds_type
    /\ dds_lock = TRUE
    /\ dds_bits = {"READY_DONE"}
    /\ dds_pc = "wait" /\ session = "none"
    /\ setter_pc = [c \in Setters |-> IF c = "main" THEN "login" ELSE "idle"]
    /\ wanted = [c \in Setters |-> "full"]
    /\ login = "not_yet" /\ missed = FALSE /\ sets = 0
-------------------------------------------------------------------------------
SetterGoto(c, pc) == setter_pc' = [setter_pc EXCEPT ![c] = pc]

\* main has waited for BIT_DDS_READY: a session has come up.
LoginDone ==
    /\ setter_pc["main"] = "login" /\ login = "done"
    /\ SetterGoto("main", "idle")
    /\ UNCHANGED <<dds_type, dds_lock, dds_bits, dds_pc, session, dds_object, wanted, login,
                   missed, sets>>

\* main's loop: another round for full duplex, or on to the messages.
MainInsists ==
    /\ setter_pc["main"] = "idle"
    /\ SetterGoto("main", CASE dds_type = "full" -> "messages"
                            [] dds_type # "full" /\ dds_lock -> "assign"
                            [] OTHER -> "idle")
    /\ UNCHANGED <<dds_type, dds_lock, dds_bits, dds_pc, session, dds_object, wanted, login,
                   missed, sets>>

\* The console sets a type; set_dds_type refuses in a dialogue.
ConsoleSets(t) ==
    /\ setter_pc["console"] = "idle" /\ sets < MaxSets
    /\ sets' = sets + 1
    /\ wanted' = [wanted EXCEPT !["console"] = t]
    /\ SetterGoto("console", IF dds_lock THEN "assign" ELSE "idle")
    /\ UNCHANGED <<dds_type, dds_lock, dds_bits, dds_pc, session, dds_object, login, missed>>

AssignType(c) ==
    /\ setter_pc[c] = "assign"
    /\ dds_type' = wanted[c]
    /\ SetterGoto(c, "exit")
    /\ UNCHANGED <<dds_lock, dds_bits, dds_pc, session, dds_object, wanted, login, missed, sets>>

\* dds_send of DDS_EV_IN_EXIT (external): it reaches the session that is up, or nobody.
SendExit(c) ==
    /\ setter_pc[c] = "exit"
    /\ \/ session = "up" /\ session' = "told" /\ UNCHANGED missed
       \/ session # "up" /\ missed' = TRUE /\ UNCHANGED session
    /\ SetterGoto(c, "await")
    /\ UNCHANGED <<dds_type, dds_lock, dds_bits, dds_pc, dds_object, wanted, login, sets>>

\* Slip: the session's end is not waited for.
AwaitNothing(c) ==
    /\ setter_pc[c] = "await"
    /\ SetterGoto(c, "delete")
    /\ UNCHANGED <<dds_type, dds_lock, dds_bits, dds_pc, session, dds_object, wanted, login,
                   missed, sets>>

AwaitChangeMode(c) ==
    /\ setter_pc[c] = "await" /\ "CHANGE_MODE" \in dds_bits
    /\ dds_bits' = dds_bits \ {"CHANGE_MODE"}
    /\ SetterGoto(c, "delete")
    /\ UNCHANGED <<dds_type, dds_lock, dds_pc, session, dds_object, wanted, login, missed, sets>>

DeleteObject(c) ==
    /\ setter_pc[c] = "delete"
    /\ dds_object' = "deleted"
    /\ SetterGoto(c, "build")
    /\ UNCHANGED <<dds_type, dds_lock, dds_bits, dds_pc, session, wanted, login, missed, sets>>

\* Slip: the caller's type is taken, not the last one that was set.
BuildWanted(c) ==
    /\ setter_pc[c] = "build"
    /\ dds_object' = wanted[c]
    /\ SetterGoto(c, "ready")
    /\ UNCHANGED <<dds_type, dds_lock, dds_bits, dds_pc, session, wanted, login, missed, sets>>

BuildObject(c) ==
    /\ setter_pc[c] = "build"
    /\ dds_object' = dds_type
    /\ SetterGoto(c, "ready")
    /\ UNCHANGED <<dds_type, dds_lock, dds_bits, dds_pc, session, wanted, login, missed, sets>>

SetReady(c) ==
    /\ setter_pc[c] = "ready"
    /\ dds_bits' = dds_bits \cup {"READY_DONE"}
    /\ SetterGoto(c, "idle")
    /\ UNCHANGED <<dds_type, dds_lock, dds_pc, session, dds_object, wanted, login, missed, sets>>

Setter(c) == \/ AssignType(c) \/ SendExit(c) \/ AwaitChangeMode(c) \/ DeleteObject(c)
             \/ BuildObject(c) \/ SetReady(c)
-------------------------------------------------------------------------------
ddsRest == <<dds_type, dds_lock, dds_object, setter_pc, wanted, missed, sets>>

\* dds_run: the next object is handed over, and dds_start called.
DdsStart ==
    /\ dds_pc = "wait" /\ "READY_DONE" \in dds_bits
    /\ dds_bits' = dds_bits \ {"READY_DONE"}
    /\ dds_pc' = "in_start"
    /\ UNCHANGED <<session, login, ddsRest>>

\* dds_start (external): the session comes up, which the application is told ...
SessionUp ==
    /\ dds_pc = "in_start" /\ session = "none"
    /\ session' = "up" /\ login' = "done"
    /\ UNCHANGED <<dds_pc, dds_bits, ddsRest>>

\* ... and ends when it is told, or by itself.
SessionEnds ==
    /\ dds_pc = "in_start"
    /\ session' = "none" /\ dds_pc' = "over"
    /\ login' = IF session = "none" /\ login = "not_yet" THEN "failed" ELSE login
    /\ UNCHANGED <<dds_bits, ddsRest>>

SessionObeys == session = "told" /\ SessionEnds

\* Slip: the end of the session is not announced.
OverSilently ==
    /\ dds_pc = "over"
    /\ dds_pc' = "wait"
    /\ UNCHANGED <<dds_bits, session, login, ddsRest>>

DdsOver ==
    /\ dds_pc = "over"
    /\ dds_bits' = dds_bits \cup {"CHANGE_MODE"}
    /\ dds_pc' = "wait"
    /\ UNCHANGED <<session, login, ddsRest>>

Dds == DdsStart \/ SessionUp \/ SessionObeys \/ DdsOver

\* A dialogue begins or ends: only main's messages lead to one.
DialogueChanges ==
    /\ setter_pc["main"] = "messages"
    /\ dds_lock' = ~dds_lock
    /\ UNCHANGED <<dds_type, dds_bits, dds_pc, session, dds_object, setter_pc, wanted, login,
                   missed, sets>>

DdsNext ==
    \/ LoginDone \/ MainInsists \/ DialogueChanges
    \/ \E t \in Types : ConsoleSets(t)
    \/ \E c \in Setters : Setter(c)
    \/ Dds \/ SessionEnds

DdsSpec == DdsInit /\ [][DdsNext]_ddsVars
-------------------------------------------------------------------------------
(***************************************************************************)
(* Nobody deletes or rebuilds s_ap.dds while dds_start uses it, and it     *)
(* exists as long as it does: however often the type is set, by whom, and  *)
(* wherever the session ends by itself and leaves its bit behind.          *)
(***************************************************************************)
DdsExclusive ==
    dds_pc = "in_start" =>
        /\ dds_object # "deleted"
        /\ \A c \in Setters : setter_pc[c] \notin {"delete", "build", "ready"}

(***************************************************************************)
(* When no change is under way the object has the type that was set last,  *)
(* though two callers may have set it together.                            *)
(***************************************************************************)
ModeAgrees ==
    (\A c \in Setters : setter_pc[c] \in {"login", "idle", "messages"})
        => dds_object = dds_type

(***************************************************************************)
(* Once a session is up main comes to its messages, in full duplex, unless *)
(* an exit was missed: the console's, sent before the session was up or    *)
(* together with main's, or main's own to one that has just ended.         *)
(***************************************************************************)
MainStarts == session = "up" ~> setter_pc["main"] = "messages" \/ missed
===============================================================================
