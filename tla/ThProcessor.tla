----------------------------- MODULE ThProcessor -----------------------------
(***************************************************************************)
(* The driver of the sound card (component/aispeech/th_processor/src/      *)
(* TH_process.c) from power-up on: the thread TH upgrades the card's       *)
(* firmware and starts it (th_run, start_dfu, th_set_info), asking it over *)
(* and over with get_th_status; the thread th_watch_dog counts the steps   *)
(* without a sign of life and ends the process, which the daemon starts    *)
(* again; the card's callbacks come on the library's thread, one at a      *)
(* time.                                                                   *)
(*                                                                         *)
(* dfu_enable is 1, as in app_cfg.json.  The configured firmware is "new". *)
(* need_download is 0: nothing sets it, so a card that wants a download    *)
(* gets none.                                                              *)
(***************************************************************************)
EXTENDS Naturals, Sequences

CONSTANTS
    Limit,   \* the steps the watch dog waits in each of its three modes
    Methods, \* the ways to upgrade a card may name
    MaxLate, \* how many answers may come after get_th_status gave up
    MaxCount \* up to which counter of the watch dog audio may still come: one race after the
             \* other can raise it without end

Mode == 1 .. 3

ASSUME LimitAssumption  == /\ Limit \in [Mode -> Nat]
                           /\ Limit[3] <= Limit[2] /\ Limit[1] <= Limit[2]
ASSUME MethodAssumption == Methods \subseteq {"dfu", "download"}
ASSUME LateAssumption   == MaxLate \in Nat /\ MaxCount \in Nat

VARIABLES
    th_pc,          \* the thread TH
    goal,           \* what it waits for the card to be idle for
    status,         \* th_flag_t.status as the last answer left it
    method,         \* th_flag_t.method
    th_done,        \* the bits set in s_th.done
    dfu_finish,     \* th_flag_t.dfu_finish
    get_thversion,  \* th_flag_t.get_thversion
    need_reset,     \* th_flag_t.need_reset
    version,        \* is s_th.version set?
    card,           \* the sound card
    fw,             \* its firmware
    upgrades_by,    \* the way it wants to be upgraded
    answers,        \* its answers under way
    late,           \* the number of answers given up that were under way
    watch_dog_flag, \* th_flag_t.watch_dog_flag
    watch_dog_run,  \* th_flag_t.watch_dog_run, the watch dog's mode or 0
    dog_pc,         \* the thread th_watch_dog
    dog_seen,       \* the value its increment has read
    dog_mode,       \* the mode it compares with
    feeding,        \* is origin_callback between its two writes?
    quiet,          \* steps of the watch dog since the last sign of life
    dog_raced,      \* has that one come between two accesses of the watch dog, or an access
                    \* between the two writes of origin_callback?
    exited          \* the exit(0) that ended the process, or "no"

flagVars  == <<status, method, dfu_finish, get_thversion, need_reset, version>>
cardVars  == <<card, fw, upgrades_by, answers, late>>
watchVars == <<watch_dog_flag, watch_dog_run, feeding, quiet, dog_raced>>
dogVars   == <<dog_pc, dog_seen, dog_mode>>
thVars == <<th_pc, goal, flagVars, th_done, cardVars, watchVars, dogVars, exited>>

Status == {"unknown", "idle", "running"}
Answer == [bit : {"STATUS_DONE"}, value : {"idle", "running"}] \cup
          [bit : {"METHOD_DONE"}, value : {"dfu", "download"}]

ThTypeOK ==
    /\ th_pc \in {"loop_reset", "reset_mode", "run_mode", "ask", "wait", "ask_method", "wait_method", "dfu",
                  "start", "set", "wait_running", "running", "ended"}
    /\ goal \in {"dfu", "set"}
    /\ status \in Status
    /\ method \in {"unknown", "dfu", "download"}
    /\ th_done \subseteq {"STATUS_DONE", "METHOD_DONE", "RUNNING"}
    /\ dfu_finish \in 0 .. 2
    /\ get_thversion \in BOOLEAN /\ need_reset \in BOOLEAN /\ version \in BOOLEAN
    /\ card \in {"idle", "running", "stopping", "dead"}
    /\ fw \in {"old", "new"}
    /\ upgrades_by \in Methods
    /\ answers \in Seq(Answer)
    /\ late \in 0 .. MaxLate
    /\ watch_dog_flag \in Nat /\ watch_dog_run \in 0 .. 3
    /\ dog_pc \in {"loop", "increment", "read_flag", "read_run"}
    /\ dog_seen \in Nat /\ dog_mode \in Mode
    /\ feeding \in BOOLEAN /\ quiet \in Nat /\ dog_raced \in BOOLEAN
    /\ exited \in {"no", "dfu_failed", "watch_dog"}

ThInit ==
    /\ th_pc = "loop_reset" /\ goal = "dfu"
    /\ status = "unknown" /\ method = "unknown" /\ th_done = {}
    /\ dfu_finish = 0 /\ get_thversion = FALSE /\ need_reset = FALSE /\ version = FALSE
    /\ card \in {"idle", "running"} /\ fw \in {"old", "new"} /\ upgrades_by \in Methods
    /\ answers = <<>> /\ late = 0
    /\ watch_dog_flag = 0 /\ watch_dog_run = 0
    /\ dog_pc = "loop" /\ dog_seen = 0 /\ dog_mode = 3
    /\ feeding = FALSE /\ quiet = 0 /\ dog_raced = FALSE /\ exited = "no"
-------------------------------------------------------------------------------
(***************************************************************************)
(* A sign of life is two writes, the counter set back and the mode chosen, *)
(* and neither excludes the watch dog: watch_timeout, a time of 1970 to    *)
(* pthread_mutex_timedlock, makes the lock a try whose result nobody looks *)
(* at, and TH does not even try.                                           *)
(***************************************************************************)
Outdated == dog_pc \in {"increment", "read_run"}

CounterReset == watch_dog_flag' = 0 /\ quiet' = 0 /\ dog_raced' = Outdated

Alive    == exited = "no"
At(pc)    == th_pc = pc /\ Alive
Goto(pc)  == th_pc' = pc
thRest    == <<dogVars, exited>>

\* loop_reset, up to start_dfu: TH sets the counter back ...
LoopReset ==
    /\ At("loop_reset")
    /\ CounterReset
    /\ Goto("reset_mode")
    /\ UNCHANGED <<watch_dog_run, feeding, goal, flagVars, th_done, cardVars, thRest>>

\* ... and chooses the mode, here and when the card runs.
ChooseMode ==
    /\ \/ At("reset_mode") /\ watch_dog_run' = 2 /\ goal' = "dfu" /\ Goto("ask")
       \/ At("run_mode") /\ watch_dog_run' = 1 /\ Goto("running") /\ UNCHANGED goal
    /\ UNCHANGED <<watch_dog_flag, feeding, quiet, dog_raced, flagVars, th_done, cardVars, thRest>>

\* The card answers what is true when it is asked; a dead one does not answer.
Asked(a) == answers' = IF card = "dead" THEN answers ELSE Append(answers, a)

CardStatus == IF card = "idle" THEN "idle" ELSE "running"

\* get_th_status, up to its wait.
AskStatus ==
    /\ At("ask")
    /\ status' = "unknown"
    /\ Asked([bit |-> "STATUS_DONE", value |-> CardStatus])
    /\ Goto("wait")
    /\ UNCHANGED <<goal, method, dfu_finish, get_thversion, need_reset, version, th_done,
                   card, fw, upgrades_by, late, watchVars, thRest>>

(***************************************************************************)
(* gh_event_group_wait_bits(bit, clear, 3000): the bit is there and taken, *)
(* be it an earlier answer's, or the wait is given up.                     *)
(***************************************************************************)
BitOrTimeout(bit) ==
    \/ /\ bit \in th_done
       /\ th_done' = th_done \ {bit} /\ UNCHANGED late
    \/ /\ bit \notin th_done
       /\ card # "dead" => late < MaxLate
       /\ late' = IF card = "dead" THEN late ELSE late + 1
       /\ UNCHANGED th_done

Stopped == IF card = "running" THEN "stopping" ELSE card

\* Slip: one thfesp_stop is trusted.
StoppedOnce ==
    /\ At("wait")
    /\ BitOrTimeout("STATUS_DONE")
    /\ Goto(IF goal = "dfu" THEN "ask_method" ELSE "set")
    /\ card' = IF status = "idle" THEN card ELSE Stopped
    /\ UNCHANGED <<goal, flagVars, fw, upgrades_by, answers, watchVars, thRest>>

\* The loops of start_dfu and th_set_info: not idle, or no answer, and the card is stopped.
StatusKnown ==
    /\ At("wait")
    /\ BitOrTimeout("STATUS_DONE")
    /\ \/ /\ status = "idle"
          /\ Goto(IF goal = "dfu" THEN "ask_method" ELSE "set")
          /\ UNCHANGED card
       \/ /\ status # "idle"
          /\ card' = Stopped
          /\ Goto("ask")
    /\ UNCHANGED <<goal, flagVars, fw, upgrades_by, answers, watchVars, thRest>>

\* get_th_upload_mothed, up to its wait.
AskMethod ==
    /\ At("ask_method")
    /\ method' = "unknown"
    /\ Asked([bit |-> "METHOD_DONE", value |-> upgrades_by])
    /\ Goto("wait_method")
    /\ UNCHANGED <<goal, status, dfu_finish, get_thversion, need_reset, version, th_done,
                   card, fw, upgrades_by, late, watchVars, thRest>>

\* start_dfu upgrades for TH_DFU_MODE only.
MethodKnown ==
    /\ At("wait_method")
    /\ BitOrTimeout("METHOD_DONE")
    /\ Goto(IF method = "dfu" THEN "dfu" ELSE "start")
    /\ version' = IF method = "dfu" THEN version ELSE TRUE
    /\ UNCHANGED <<goal, status, method, dfu_finish, get_thversion, need_reset,
                   card, fw, upgrades_by, answers, watchVars, thRest>>

\* upgrade_callback has told the result: start_dfu is over, or exit(0).
DfuOver ==
    /\ At("dfu") /\ dfu_finish # 0
    /\ \/ /\ dfu_finish = 1
          /\ Goto("start")
          /\ dfu_finish' = 0 /\ version' = TRUE
          /\ UNCHANGED exited
       \/ /\ dfu_finish = 2
          /\ exited' = "dfu_failed"
          /\ UNCHANGED <<th_pc, dfu_finish, version>>
    /\ UNCHANGED <<goal, status, method, get_thversion, need_reset, th_done, cardVars,
                   watchVars, dogVars>>

Started == IF card = "dead" THEN card ELSE "running"

\* thfesp_start: th_set_info follows, or the thread ends.
StartCard ==
    /\ At("start")
    /\ \/ goal' = "set" /\ Goto("ask") /\ card' = Started
       \/ Goto("ended") /\ card' = Stopped /\ UNCHANGED goal
    /\ UNCHANGED <<flagVars, th_done, fw, upgrades_by, answers, late, watchVars, thRest>>

\* th_set_info sets the parameters and starts the card again.
SetParams ==
    /\ At("set")
    /\ card' = Started
    /\ Goto("wait_running")
    /\ UNCHANGED <<goal, flagVars, th_done, fw, upgrades_by, answers, late, watchVars, thRest>>

\* Slip: need_reset is not cleared.
NeedResetKept ==
    /\ At("wait_running") /\ "RUNNING" \in th_done
    /\ th_done' = th_done \ {"RUNNING"}
    /\ \/ /\ need_reset
          /\ card' = IF card = "dead" THEN card ELSE "idle"
          /\ get_thversion' = FALSE
          /\ Goto("loop_reset")
          /\ UNCHANGED <<need_reset, watchVars>>
       \/ /\ ~need_reset
          /\ CounterReset /\ UNCHANGED <<watch_dog_run, feeding>>
          /\ Goto("run_mode")
          /\ UNCHANGED <<card, get_thversion, need_reset>>
    /\ UNCHANGED <<goal, status, method, dfu_finish, version, fw, upgrades_by, answers, late,
                   thRest>>

\* The wait without limit for BIT_RUNNING, and what follows it in th_run.
VersionKnown ==
    /\ At("wait_running") /\ "RUNNING" \in th_done
    /\ th_done' = th_done \ {"RUNNING"}
    /\ \/ /\ need_reset
          /\ card' = IF card = "dead" THEN card ELSE "idle"
          /\ get_thversion' = FALSE /\ need_reset' = FALSE
          /\ Goto("loop_reset")
          /\ UNCHANGED watchVars
       \/ /\ ~need_reset
          /\ CounterReset /\ UNCHANGED <<watch_dog_run, feeding>>
          /\ Goto("run_mode")
          /\ UNCHANGED <<card, get_thversion, need_reset>>
    /\ UNCHANGED <<goal, status, method, dfu_finish, version, fw, upgrades_by, answers, late,
                   thRest>>

ThRun == LoopReset \/ ChooseMode \/ AskStatus \/ StatusKnown \/ AskMethod \/ MethodKnown
         \/ DfuOver \/ StartCard \/ SetParams \/ VersionKnown
-------------------------------------------------------------------------------
\* The card (external) and its callbacks.
cardRest == <<th_pc, goal, dogVars, exited>>
Answering == card # "dead" /\ Alive
Calling   == Answering /\ ~feeding

\* Slip: message_callback stores every answer as the status.
AnswerStoredAsStatus ==
    /\ Calling /\ answers # <<>>
    /\ answers' = Tail(answers)
    /\ th_done' = th_done \cup {Head(answers).bit}
    /\ status' = Head(answers).value
    /\ UNCHANGED <<method, dfu_finish, get_thversion, need_reset, version, card, fw,
                   upgrades_by, late, watchVars, cardRest>>

\* message_callback for thfespStatus and thupgradeMethod.
MessageCallback ==
    /\ Calling /\ answers # <<>>
    /\ answers' = Tail(answers)
    /\ th_done' = th_done \cup {Head(answers).bit}
    /\ \/ /\ Head(answers).bit = "STATUS_DONE"
          /\ status' = Head(answers).value /\ UNCHANGED method
       \/ /\ Head(answers).bit = "METHOD_DONE"
          /\ method' = Head(answers).value /\ UNCHANGED status
    /\ UNCHANGED <<dfu_finish, get_thversion, need_reset, version, card, fw, upgrades_by,
                   late, watchVars, cardRest>>

(***************************************************************************)
(* message_callback for fwVersion, until one was taken: the version, which *)
(* is compared with s_th.version, or an error.                             *)
(***************************************************************************)
FwVersion ==
    /\ card = "running" /\ Calling /\ ~get_thversion
    /\ get_thversion' = TRUE
    /\ \/ /\ need_reset' = (need_reset \/ ~(version /\ fw = "new"))
          /\ th_done' = th_done \cup {"RUNNING"}
       \/ UNCHANGED <<need_reset, th_done>>
    /\ UNCHANGED <<status, method, dfu_finish, version, cardVars, watchVars, cardRest>>

\* upgrade_callback: thfesp_dfu has succeeded or failed.
UpgradeCallback ==
    /\ Calling /\ th_pc = "dfu" /\ dfu_finish = 0
    /\ \/ dfu_finish' = 1 /\ fw' = "new"
       \/ dfu_finish' = 2 /\ UNCHANGED fw
    /\ UNCHANGED <<status, method, get_thversion, need_reset, version, th_done, card,
                   upgrades_by, answers, late, watchVars, cardRest>>

\* Slip: the audio does not set the counter back.
AudioWithoutReset ==
    /\ feeding /\ Alive
    /\ feeding' = FALSE /\ quiet' = 0 /\ dog_raced' = Outdated
    /\ UNCHANGED <<watch_dog_flag, watch_dog_run, flagVars, th_done, cardVars, cardRest>>

\* origin_callback: audio is the sign of life; the mode is chosen ...
OriginCallback ==
    /\ card = "running" /\ Calling /\ watch_dog_flag <= MaxCount
    /\ watch_dog_run' = 3 /\ feeding' = TRUE
    /\ quiet' = 0 /\ dog_raced' = (dog_raced \/ Outdated)
    /\ UNCHANGED <<watch_dog_flag, flagVars, th_done, cardVars, cardRest>>

\* ... and the counter set back, also when the card is no longer there.
AudioCounted ==
    /\ feeding /\ Alive
    /\ CounterReset /\ feeding' = FALSE
    /\ UNCHANGED <<watch_dog_run, flagVars, th_done, cardVars, cardRest>>

CardStops ==
    /\ card = "stopping" /\ Alive
    /\ card' = "idle"
    /\ UNCHANGED <<flagVars, th_done, fw, upgrades_by, answers, late, watchVars, cardRest>>

\* The card may die: it delivers no audio and answers no question.
CardDies ==
    /\ Answering
    /\ card' = "dead" /\ answers' = <<>>
    /\ UNCHANGED <<flagVars, th_done, fw, upgrades_by, late, watchVars, cardRest>>

Card == MessageCallback \/ FwVersion \/ UpgradeCallback \/ OriginCallback \/ AudioCounted
        \/ CardStops \/ CardDies
-------------------------------------------------------------------------------
\* The thread th_watch_dog (watch_dog_run), one access of shared memory a step.
dogRest == <<th_pc, goal, flagVars, th_done, cardVars, watch_dog_run, feeding>>

Accesses == Alive /\ dog_raced' = (dog_raced \/ feeding)

\* The inner loop goes round; its counter is read ...
DogReads ==
    /\ dog_pc = "loop" /\ Accesses /\ watch_dog_run # 0
    /\ dog_seen' = watch_dog_flag
    /\ dog_pc' = "increment"
    /\ UNCHANGED <<dogRest, watch_dog_flag, quiet, dog_mode, exited>>

\* ... and written; then two seconds pass.
DogCounts ==
    /\ dog_pc = "increment" /\ Accesses
    /\ watch_dog_flag' = dog_seen + 1
    /\ quiet' = quiet + 1
    /\ dog_pc' = "read_flag" /\ dog_mode' = 3 /\ dog_seen' = 0
    /\ UNCHANGED <<dogRest, exited>>

\* The three comparisons are made in the order of the modes 3, 2 and 1.
NextComparison ==
    /\ dog_pc' = IF dog_mode = 1 THEN "loop" ELSE "read_flag"
    /\ dog_mode' = IF dog_mode = 1 THEN 3 ELSE dog_mode - 1

DogComparesFlag ==
    /\ dog_pc = "read_flag" /\ Accesses
    /\ \/ /\ watch_dog_flag > Limit[dog_mode]
          /\ dog_pc' = "read_run" /\ UNCHANGED dog_mode
       \/ /\ watch_dog_flag <= Limit[dog_mode]
          /\ NextComparison
    /\ UNCHANGED <<dogRest, watch_dog_flag, quiet, dog_seen, exited>>

\* Slip: the limit without audio is tested in the wrong mode.
DogConfusesModes ==
    /\ dog_pc = "read_run" /\ Accesses
    /\ \/ /\ watch_dog_run = dog_mode /\ dog_mode # 1
          /\ exited' = "watch_dog"
          /\ UNCHANGED <<dog_pc, dog_mode>>
       \/ /\ watch_dog_run # dog_mode \/ dog_mode = 1
          /\ NextComparison
          /\ UNCHANGED exited
    /\ UNCHANGED <<dogRest, watch_dog_flag, quiet, dog_seen>>

DogComparesRun ==
    /\ dog_pc = "read_run" /\ Accesses
    /\ \/ /\ watch_dog_run = dog_mode
          /\ exited' = "watch_dog"
          /\ UNCHANGED <<dog_pc, dog_mode>>
       \/ /\ watch_dog_run # dog_mode
          /\ NextComparison
          /\ UNCHANGED exited
    /\ UNCHANGED <<dogRest, watch_dog_flag, quiet, dog_seen>>

Dog == DogReads \/ DogCounts \/ DogComparesFlag \/ DogComparesRun
-------------------------------------------------------------------------------
ThNext == ThRun \/ Card \/ Dog

ThSpec == ThInit /\ [][ThNext]_thVars

(***************************************************************************)
(* The watch dog ends the process no sooner than its limit allows, unless  *)
(* the last sign of life came between two of its accesses, or one of them  *)
(* between the two writes of origin_callback: then the increment undoes    *)
(* the reset, or an old counter meets a new mode.  Of TH's writes, in the  *)
(* other order, none needs the second exception; a later sign of life that *)
(* is not raced ends both.                                                 *)
(***************************************************************************)
DogPatient == exited = "watch_dog" /\ ~dog_raced => quiet > Limit[watch_dog_run]

(***************************************************************************)
(* It never lets more steps pass than the longest limit and one, whatever  *)
(* the callbacks and the races do: a card that died is noticed.            *)
(***************************************************************************)
SilenceBounded == quiet <= Limit[2] + 1

(***************************************************************************)
(* Parameters are set on an idle card, unless an answer came after its     *)
(* question had been given up: then an old "idle" can stand for a card     *)
(* that was started since.                                                 *)
(***************************************************************************)
SetWhenIdle == th_pc = "set" /\ late = 0 => card \in {"idle", "dead"}

(***************************************************************************)
(* The start-up of a card that upgrades by DFU does not hang: TH gets it   *)
(* running or audio flows, or the watch dog ends the process.  One answer  *)
(* that comes late is excepted: its bit answers the next question, whose   *)
(* own bit answers the one after, and the upgrade is passed by every time. *)
(***************************************************************************)
BootWatched ==
    upgrades_by = "dfu" ~>
        th_pc = "running" \/ watch_dog_run = 3 \/ exited # "no" \/ late > 0
===============================================================================
