----------------------------- MODULE AsrProcessor -----------------------------
(***************************************************************************)
(* The speech recognition scheduler of the SDK                             *)
(* (component/aispeech/asr_processor/src/asr_processor.c): the thread      *)
(* "process" runs a state machine over the messages of q_process and       *)
(* commands the threads "vad", "asr" and "ddsh" through bounded queues,    *)
(* ring buffers and an event group.  Application calls, cloud callbacks,   *)
(* the dialogue timer and the network check run on threads of their own.   *)
(*                                                                         *)
(* A step is the code between two blocking calls.  Every gh_queue_send of  *)
(* the file waits without a limit, so a send is a step that is enabled     *)
(* when the queue has room.  Audio is not represented, except that an open *)
(* ring buffer delivers it.                                                *)
(***************************************************************************)
EXTENDS Ghost

CONSTANTS
    Engines,    \* the values asr_type may have at the start
    Duplexes,   \* the values dds_type may have at the start
    Calls,      \* the calls the application makes
    MaxCalls,   \* how many of them it makes
    MaxReplies, \* how many callbacks the cloud makes
    NetCheck,   \* net_check_running: may the network check choose the engine?
    Prompt,     \* do the threads keep up with timeouts of seconds?
    Cap         \* the capacity of each queue

Queues == {"q_process", "q_vad", "q_asr", "q_dds_helper"}
Rings  == {"rb_local_vad", "rb_dds", "rb_asr"}

ASSUME EnginesAssumption  == Engines \subseteq {"LOCAL", "DUI"}
ASSUME DuplexesAssumption == Duplexes \subseteq {"HALF", "FULL"}
ASSUME CallsAssumption    == Calls \subseteq {"start", "stop", "reset", "network"}
ASSUME MaxCallsAssumption == MaxCalls \in Nat /\ MaxReplies \in Nat
ASSUME NetCheckAssumption == NetCheck \in BOOLEAN /\ Prompt \in BOOLEAN
ASSUME CapAssumption      == Cap \in [Queues -> Nat \ {0}]

NoMsg == "none"

\* The messages some thread sends; INFO_SPEECH_END and INFO_ASR_CLOUD have no sender.
Msg == {"CMD_VAD_RUN", "CMD_ASR_RUN", "CMD_ASR_STOP", "CMD_ASR_RESET",
        "CMD_NETWORK_UPDATE", "CMD_DDS_FULL", "INFO_ASR_ERROR", "INFO_ASR_LOCAL",
        "INFO_ASR_DM", "INFO_ASR_FULL_DM", "INFO_SPEECH_BEGIN",
        "INFO_SPEECH_BEGIN_TIMEOUT", "INFO_SPEECH_END_TIMEOUT"}

\* What event_cb reports to the application.
Event == {"ASR_EV_LOCAL", "ASR_EV_DM", "ASR_EV_ERROR", "ASR_EV_TIMEOUT",
          "ASR_VAD_BEGIN_TIMEOUT", "CMD_IGNORE"}

\* The threads that send to q_process, beside process itself.
Sender == {"app", "dds", "timer", "vad", "asr"}

\* What is left of asr_processor_reset after its message has been queued.
OpenRing == "gh_ringbuf_start"

VARIABLES
    state,       \* process_run's local state
    process_pc,  \* where the thread process is blocked
    in,          \* the message it is handling
    event,       \* what its last step reported to the application, if it did
    queue,       \* the contents of the four queues
    rb,          \* the condition of the three ring buffers
    done,        \* the bits that are set in the event group
    lock,        \* s_ap.net_status_check_lock
    asr_type,    \* the engine in use
    dds_type,    \* half or full duplex
    dds_timeout, \* s_ap.dds_timeout: 0 once the dialogue timer has expired
    dds_timer,   \* is the dialogue timer running?
    net_pc,      \* the thread net_check
    vad_pc,      \* the thread vad
    ddsh_pc,     \* the thread ddsh
    asr_pc,      \* the thread asr
    session,     \* the cloud's view of the speech session
    outbox,      \* what each sender is busy sending, or has still to do
    calls,       \* the number of calls made by the application
    replies      \* the number of callbacks made by the cloud

processVars == <<state, process_pc, in>>
engineVars  == <<asr_type, dds_type, net_pc>>
timerVars   == <<dds_timeout, dds_timer>>
vars == <<processVars, event, queue, rb, done, lock, engineVars, timerVars,
          vad_pc, ddsh_pc, asr_pc, session, outbox, calls, replies>>
-------------------------------------------------------------------------------
TypeOK ==
    /\ state \in {"IDLE", "SPEECHING", "WAIT_FOR_ASR"}
    /\ process_pc \in {"read", "send_vad", "send_ddsh", "send_asr", "send_self",
                       "wait_vad", "wait_dds", "wait_asr"}
    /\ in \in Msg \cup {NoMsg}
    /\ event \in Event \cup {NoMsg}
    /\ queue \in [Queues -> Seq(Msg)]
    /\ \A n \in Queues : Len(queue[n]) <= Cap[n]
    /\ rb \in [Rings -> RingStatus]
    /\ done \subseteq {"VAD_DONE", "DDS_DONE", "ASR_DONE"}
    /\ lock \in {0, 1}
    /\ asr_type \in {"LOCAL", "DUI"}
    /\ dds_type \in {"HALF", "FULL"}
    /\ dds_timeout \in {0, 1}
    /\ dds_timer \in BOOLEAN
    /\ net_pc \in {"delay", "net_status_check"}
    /\ vad_pc \in {"wait", "silence", "speech", "ended", "timed_out"}
    /\ ddsh_pc \in {"wait", "half", "full"}
    /\ asr_pc \in {"wait", "read", "stopped"}
    /\ session \in {"none", "open", "ended"}
    /\ outbox \in [Sender -> Msg \cup {OpenRing, NoMsg}]
    /\ calls \in 0 .. MaxCalls
    /\ replies \in 0 .. MaxReplies

(***************************************************************************)
(* The state asr_processor_init leaves once the boot-time network updates  *)
(* are handled: every thread waits, nothing has been started.              *)
(***************************************************************************)
Init ==
    /\ state = "IDLE" /\ process_pc = "read" /\ in = NoMsg /\ event = NoMsg
    /\ queue = [n \in Queues |-> <<>>]
    /\ rb = [r \in Rings |-> "closed"]
    /\ done = {}
    /\ lock = 1
    /\ asr_type \in Engines /\ dds_type \in Duplexes
    /\ dds_timeout = 0 /\ dds_timer = FALSE
    /\ net_pc = "delay"
    /\ vad_pc = "wait" /\ ddsh_pc = "wait" /\ asr_pc = "wait"
    /\ session = "none"
    /\ outbox = [s \in Sender |-> NoMsg]
    /\ calls = 0 /\ replies = 0
-------------------------------------------------------------------------------
Room(n)        == Len(queue[n]) < Cap[n]
Push(n, m)     == queue' = [queue EXCEPT ![n] = Append(@, m)]
Pop(n)         == queue' = [queue EXCEPT ![n] = Tail(@)]
EngineRing     == IF asr_type = "DUI" THEN "rb_dds" ELSE "rb_asr"

threadVars == <<vad_pc, ddsh_pc, asr_pc, session, outbox, calls, replies>>

(***************************************************************************)
(* The thread process (process_run and its table of handlers).             *)
(***************************************************************************)
\* gh_queue_read delivers m while the table's row is s.
Receive(s, m) ==
    /\ process_pc = "read"
    /\ state \in s
    /\ queue["q_process"] # <<>>
    /\ Head(queue["q_process"]) \in m
    /\ Pop("q_process")

\* The handler returns s; it has called event_cb with ev, or not at all.
Return(s, ev) == state' = s /\ process_pc' = "read" /\ in' = NoMsg /\ event' = ev

\* The handler of message m blocks at pc before it returns.
BlockAt(pc, m) == process_pc' = pc /\ in' = m /\ event' = NoMsg /\ UNCHANGED state

Received == Head(queue["q_process"])

\* Slip: the engine lock is not taken.
VadRunWithoutLock ==
    /\ Receive({"IDLE"}, {"CMD_VAD_RUN", "CMD_ASR_RESET"})
    /\ rb' = [rb EXCEPT !["rb_local_vad"] = RingStart(@)]
    /\ BlockAt("send_vad", Received)
    /\ UNCHANGED <<done, lock, engineVars, timerVars, threadVars>>

\* cmd_vad_run_when_wait_for_idle, up to its gh_queue_send(q_vad).
VadRunWhenIdle ==
    /\ Receive({"IDLE"}, {"CMD_VAD_RUN", "CMD_ASR_RESET"})
    /\ lock' = 0
    /\ rb' = [rb EXCEPT !["rb_local_vad"] = RingStart(@)]
    /\ BlockAt("send_vad", Received)
    /\ UNCHANGED <<done, engineVars, timerVars, threadVars>>

\* cmd_vad_run_when_wait_for_speeching, up to its gh_queue_send(q_vad).
VadRunWhenSpeeching ==
    /\ Receive({"SPEECHING"}, {"CMD_VAD_RUN"})
    /\ lock' = 0
    /\ rb' = [rb EXCEPT !["rb_local_vad"] = RingStart(@), ![EngineRing] = RingStart(@)]
    /\ BlockAt("send_vad", Received)
    /\ UNCHANGED <<done, engineVars, timerVars, threadVars>>

\* Slip: the engine's buffer keeps the abort of the dialogue before.
SendVadOnly ==
    /\ process_pc = "send_vad"
    /\ Room("q_vad")
    /\ Push("q_vad", in)
    /\ Return("SPEECHING", NoMsg)
    /\ UNCHANGED <<rb, done, lock, engineVars, timerVars, threadVars>>

\* Both handlers send the message they got; the one of IDLE then opens the engine's buffer.
SendVad ==
    /\ process_pc = "send_vad"
    /\ Room("q_vad")
    /\ Push("q_vad", in)
    /\ rb' = IF state = "IDLE" THEN [rb EXCEPT ![EngineRing] = RingStart(@)] ELSE rb
    /\ Return("SPEECHING", NoMsg)
    /\ UNCHANGED <<done, lock, engineVars, timerVars, threadVars>>

\* cmd_vad_run_when_wait_for_asr
VadRunWhenWaitForAsr ==
    /\ Receive({"WAIT_FOR_ASR"}, {"CMD_VAD_RUN"})
    /\ Return("IDLE", "CMD_IGNORE")
    /\ UNCHANGED <<rb, done, lock, engineVars, timerVars, threadVars>>

\* cmd_dds_full_when_wait_for_idle, up to its gh_queue_send(q_dds_helper).
DdsFullWhenIdle ==
    /\ Receive({"IDLE"}, {"CMD_DDS_FULL"})
    /\ lock' = 0
    /\ rb' = [rb EXCEPT !["rb_local_vad"] = RingStart(@)]
    /\ BlockAt("send_ddsh", Received)
    /\ UNCHANGED <<done, engineVars, timerVars, threadVars>>

\* cmd_asr_run_when_speeching: the engine of the moment gets the message.
AsrRunWhenSpeeching ==
    /\ Receive({"SPEECHING"}, {"CMD_ASR_RUN"})
    /\ BlockAt(IF asr_type = "DUI" THEN "send_ddsh" ELSE "send_asr", Received)
    /\ UNCHANGED <<rb, done, lock, engineVars, timerVars, threadVars>>

SendEngine ==
    /\ \/ process_pc = "send_ddsh" /\ Room("q_dds_helper") /\ Push("q_dds_helper", in)
       \/ process_pc = "send_asr" /\ Room("q_asr") /\ Push("q_asr", in)
    /\ Return(IF in = "CMD_DDS_FULL" THEN "IDLE" ELSE "WAIT_FOR_ASR", NoMsg)
    /\ UNCHANGED <<rb, done, lock, engineVars, timerVars, threadVars>>

\* cmd_asr_run_when_wait_for_asr
AsrRunWhenWaitForAsr ==
    /\ Receive({"WAIT_FOR_ASR"}, {"CMD_ASR_RUN"})
    /\ Return("WAIT_FOR_ASR", NoMsg)
    /\ UNCHANGED <<rb, done, lock, engineVars, timerVars, threadVars>>

(***************************************************************************)
(* The engine's half of ringbuf_done: if can_read shows its buffer alive,  *)
(* the buffer becomes r and the engine is waited for; else go on.          *)
(***************************************************************************)
EndEngineRing(m, r, goOn) ==
    \/ /\ CanReadAlive(rb[EngineRing])
       /\ rb' = [rb EXCEPT ![EngineRing] = r]
       /\ BlockAt(IF asr_type = "DUI" THEN "wait_dds" ELSE "wait_asr", m)
       /\ UNCHANGED lock
    \/ /\ CanReadOver(rb[EngineRing])
       /\ UNCHANGED rb
       /\ goOn

ReleaseAndReturn(s) == lock' = 1 /\ Return(s, NoMsg)

\* cmd_asr_stop_when_speeching and cmd_asr_stop_when_wait_for_asr: ringbuf_done(1).
AsrStop ==
    /\ Receive({"SPEECHING", "WAIT_FOR_ASR"}, {"CMD_ASR_STOP"})
    /\ EndEngineRing(Received, RingFinish(rb[EngineRing]), ReleaseAndReturn("WAIT_FOR_ASR"))
    /\ UNCHANGED <<done, engineVars, timerVars, threadVars>>

\* cmd_dds_full_stop_when_wait_for_idle, up to its wait for BIT_VAD_DONE.
AsrStopWhenIdle ==
    /\ Receive({"IDLE"}, {"CMD_ASR_STOP"})
    /\ rb' = [rb EXCEPT !["rb_local_vad"] = RingAbort(@)]
    /\ BlockAt("wait_vad", Received)
    /\ UNCHANGED <<done, lock, engineVars, timerVars, threadVars>>

\* cmd_asr_reset_when_speeching and _when_wait_for_asr: ringbuf_done(0) up to its first wait.
AsrReset ==
    /\ Receive({"SPEECHING", "WAIT_FOR_ASR"}, {"CMD_ASR_RESET"})
    /\ rb' = [rb EXCEPT !["rb_local_vad"] = RingAbort(@)]
    /\ BlockAt("wait_vad", Received)
    /\ UNCHANGED <<done, lock, engineVars, timerVars, threadVars>>

\* Slip: a wait without a limit.
WaitBitForever(bit) == bit \in done /\ done' = done \ {bit}

(***************************************************************************)
(* gh_event_group_wait_bits(bit, clear, WAIT_DELAY): the bit is there and  *)
(* is taken, or the 100 ms pass without it.                                *)
(***************************************************************************)
WaitBit(bit) == \/ bit \in done /\ done' = done \ {bit}
                \/ bit \notin done /\ UNCHANGED done

\* After the wait for the reader of rb_local_vad.
VadWaitOver ==
    /\ process_pc = "wait_vad"
    /\ WaitBit("VAD_DONE")
    /\ \/ /\ in = "CMD_ASR_STOP"
          /\ ReleaseAndReturn("IDLE")
          /\ UNCHANGED rb
       \/ /\ in = "CMD_ASR_RESET"
          /\ EndEngineRing(in, RingAbort(rb[EngineRing]), BlockAt("send_self", in) /\ UNCHANGED lock)
    /\ UNCHANGED <<queue, engineVars, timerVars, threadVars>>

\* After the wait for the engine that was told to end.
EngineWaitOver ==
    /\ \/ process_pc = "wait_dds" /\ WaitBit("DDS_DONE")
       \/ process_pc = "wait_asr" /\ WaitBit("ASR_DONE")
    /\ \/ in = "CMD_ASR_STOP" /\ ReleaseAndReturn("WAIT_FOR_ASR")
       \/ in = "CMD_ASR_RESET" /\ BlockAt("send_self", in) /\ UNCHANGED lock
    /\ UNCHANGED <<queue, rb, engineVars, timerVars, threadVars>>

\* info_speech_begin_when_speeching, up to its gh_queue_send(q_process).
SpeechBeginWhenSpeeching ==
    /\ Receive({"SPEECHING"}, {"INFO_SPEECH_BEGIN"})
    /\ BlockAt("send_self", Received)
    /\ UNCHANGED <<rb, done, lock, engineVars, timerVars, threadVars>>

\* The handlers of a reset and of the begin of speech end by sending to process's own queue.
SendSelf ==
    /\ process_pc = "send_self"
    /\ Room("q_process")
    /\ Push("q_process", IF in = "CMD_ASR_RESET" THEN "CMD_VAD_RUN" ELSE "CMD_ASR_RUN")
    /\ Return("SPEECHING", NoMsg)
    /\ UNCHANGED <<rb, done, lock, engineVars, timerVars, threadVars>>

DmEvent == IF dds_timeout = 1 THEN "ASR_EV_DM" ELSE "ASR_EV_TIMEOUT"

\* info_asr_dm_when_speeching, info_asr_dm_when_wait_for_asr, info_asr_local_when_wait_for_asr
Result ==
    /\ \/ Receive({"SPEECHING", "WAIT_FOR_ASR"}, {"INFO_ASR_DM"}) /\ Return("IDLE", DmEvent)
       \/ Receive({"WAIT_FOR_ASR"}, {"INFO_ASR_LOCAL"}) /\ Return("IDLE", "ASR_EV_LOCAL")
    /\ lock' = 1
    /\ UNCHANGED <<rb, done, engineVars, timerVars, threadVars>>

\* info_asr_dm_when_idle and info_asr_full_dm_when_idle
ResultWhenIdle ==
    /\ \/ Receive({"IDLE"}, {"INFO_ASR_DM"}) /\ Return("IDLE", DmEvent)
       \/ Receive({"IDLE"}, {"INFO_ASR_FULL_DM"}) /\ Return("IDLE", "ASR_EV_DM")
    /\ UNCHANGED <<rb, done, lock, engineVars, timerVars, threadVars>>

(***************************************************************************)
(* The ends of a dialogue that leave the lock as it is:                    *)
(* info_asr_error_when_speeching and _when_wait_for_asr (s_ap.status is 1  *)
(* from boot on), info_speech_begin_timeout_when_wait_for_speeching and    *)
(* info_speech_end_timeout_when_wait_for_asr.                              *)
(***************************************************************************)
Failure ==
    /\ \/ /\ Receive({"SPEECHING", "WAIT_FOR_ASR"}, {"INFO_ASR_ERROR"})
          /\ Return("IDLE", "ASR_EV_ERROR")
       \/ /\ Receive({"SPEECHING"}, {"INFO_SPEECH_BEGIN_TIMEOUT"})
          /\ Return("IDLE", "ASR_VAD_BEGIN_TIMEOUT")
       \/ /\ Receive({"WAIT_FOR_ASR"}, {"INFO_SPEECH_END_TIMEOUT"})
          /\ Return("IDLE", NoMsg)
    /\ UNCHANGED <<rb, done, lock, engineVars, timerVars, threadVars>>

\* CMD_NETWORK_UPDATE is handled before the table is consulted.
NetworkUpdate ==
    /\ Receive({"IDLE", "SPEECHING", "WAIT_FOR_ASR"}, {"CMD_NETWORK_UPDATE"})
    /\ asr_type' = "DUI"
    /\ Return(state, NoMsg)
    /\ UNCHANGED <<rb, done, lock, dds_type, net_pc, timerVars, threadVars>>

\* The rows of process_run_table that have no handler.
Unhandled(s) ==
    CASE s = "IDLE" -> {"CMD_ASR_RUN", "INFO_ASR_ERROR", "INFO_ASR_LOCAL", "INFO_SPEECH_BEGIN",
                        "INFO_SPEECH_BEGIN_TIMEOUT", "INFO_SPEECH_END_TIMEOUT"}
      [] s = "SPEECHING" -> {"CMD_DDS_FULL", "INFO_ASR_LOCAL", "INFO_ASR_FULL_DM",
                             "INFO_SPEECH_END_TIMEOUT"}
      [] s = "WAIT_FOR_ASR" -> {"CMD_DDS_FULL", "INFO_ASR_FULL_DM", "INFO_SPEECH_BEGIN",
                                "INFO_SPEECH_BEGIN_TIMEOUT"}

Refused ==
    /\ Receive({"IDLE", "SPEECHING", "WAIT_FOR_ASR"}, Unhandled(state))
    /\ Return(state, NoMsg)
    /\ UNCHANGED <<rb, done, lock, engineVars, timerVars, threadVars>>

Process ==
    \/ VadRunWhenIdle \/ VadRunWhenSpeeching \/ VadRunWhenWaitForAsr \/ SendVad
    \/ DdsFullWhenIdle \/ AsrRunWhenSpeeching \/ AsrRunWhenWaitForAsr \/ SendEngine
    \/ AsrStop \/ AsrStopWhenIdle \/ AsrReset \/ VadWaitOver \/ EngineWaitOver
    \/ SpeechBeginWhenSpeeching \/ SendSelf
    \/ Result \/ ResultWhenIdle \/ Failure \/ NetworkUpdate \/ Refused
-------------------------------------------------------------------------------
(***************************************************************************)
(* Sending to q_process from another thread.  Behind its send              *)
(* asr_processor_stop stops the timer and asr_processor_start starts it.   *)
(* asr_processor_reset opens the engine's buffer in a step of its own,     *)
(* because process may handle the reset before.                            *)
(***************************************************************************)
Send(s) ==
    /\ outbox[s] \in Msg
    /\ Room("q_process")
    /\ Push("q_process", outbox[s])
    /\ outbox' = [outbox EXCEPT ![s] = IF @ = "CMD_ASR_RESET" THEN OpenRing ELSE NoMsg]
    /\ \/ /\ outbox[s] = "CMD_ASR_STOP"
          /\ dds_timer' = FALSE
          /\ UNCHANGED dds_timeout
       \/ /\ outbox[s] = "CMD_VAD_RUN"
          /\ dds_timer' = TRUE /\ dds_timeout' = 1
       \/ outbox[s] \notin {"CMD_ASR_STOP", "CMD_VAD_RUN"} /\ UNCHANGED timerVars
    /\ event' = NoMsg
    /\ UNCHANGED <<processVars, rb, done, lock, engineVars,
                   vad_pc, ddsh_pc, asr_pc, session, calls, replies>>

ResetOpensRing ==
    /\ outbox["app"] = OpenRing
    /\ outbox' = [outbox EXCEPT !["app"] = NoMsg]
    /\ rb' = [rb EXCEPT ![EngineRing] = RingStart(@)]
    /\ event' = NoMsg
    /\ UNCHANGED <<processVars, queue, done, lock, engineVars, timerVars,
                   vad_pc, ddsh_pc, asr_pc, session, calls, replies>>

Free(s)    == outbox[s] = NoMsg
Post(s, m) == outbox' = [outbox EXCEPT ![s] = m]

\* asr_processor_start, _stop, _reset and _update_network_status up to gh_queue_send.
Call(c) ==
    /\ c \in Calls /\ calls < MaxCalls /\ Free("app")
    /\ calls' = calls + 1
    /\ \/ /\ c = "start"
          /\ Post("app", IF asr_type = "DUI" /\ dds_type = "FULL"
                         THEN "CMD_DDS_FULL" ELSE "CMD_VAD_RUN")
          /\ UNCHANGED dds_timer
       \/ c = "stop" /\ Post("app", "CMD_ASR_STOP") /\ UNCHANGED dds_timer
       \/ /\ c = "reset" /\ dds_type = "HALF"
          /\ dds_timer' = TRUE
          /\ Post("app", "CMD_ASR_RESET")
       \/ c = "network" /\ Post("app", "CMD_NETWORK_UPDATE") /\ UNCHANGED dds_timer
    /\ event' = NoMsg
    /\ UNCHANGED <<processVars, queue, rb, done, lock, engineVars, dds_timeout,
                   vad_pc, ddsh_pc, asr_pc, session, replies>>

(***************************************************************************)
(* The timeouts of this file take seconds (15 for the dialogue, 5 and 10   *)
(* by default for the VAD).  If the threads are prompt, none runs out      *)
(* while a message is under way.                                           *)
(***************************************************************************)
CaughtUp == /\ process_pc = "read" /\ queue["q_process"] = <<>>
            /\ \A s \in Sender : outbox[s] = NoMsg

\* dds_timer_cb: the one-shot timer runs out; the begin of speech is not awaited so long.
TimerExpires ==
    /\ dds_timer /\ Free("timer")
    /\ Prompt => CaughtUp /\ vad_pc # "silence" /\ queue["q_vad"] = <<>>
    /\ dds_timer' = FALSE
    /\ dds_timeout' = 0
    /\ lock' = 1
    /\ Post("timer", "CMD_ASR_STOP")
    /\ event' = NoMsg
    /\ UNCHANGED <<processVars, queue, rb, done, engineVars, vad_pc, ddsh_pc, asr_pc,
                   session, calls, replies>>
-------------------------------------------------------------------------------
(***************************************************************************)
(* The thread vad (local_vad_run, vad_callback).  "silence", "speech" and  *)
(* "ended" are info.status 0, 1 and 2; a thread whose callback is sending  *)
(* does not read on.                                                       *)
(***************************************************************************)
vadRest == <<processVars, lock, engineVars, timerVars, ddsh_pc, asr_pc, session, calls, replies>>

\* Only CMD_VAD_RUN starts a run; another message is read and dropped.
VadReceive ==
    /\ vad_pc = "wait" /\ queue["q_vad"] # <<>>
    /\ Pop("q_vad")
    /\ vad_pc' = IF Head(queue["q_vad"]) = "CMD_VAD_RUN" THEN "silence" ELSE "wait"
    /\ event' = NoMsg
    /\ UNCHANGED <<vadRest, rb, done, outbox>>

\* gh_ringbuf_blocked_read returns GH_ERR_ABORT.
VadAborted ==
    /\ vad_pc \in {"silence", "speech"} /\ Free("vad")
    /\ rb["rb_local_vad"] = "aborted"
    /\ vad_pc' = "wait"
    /\ done' = done \cup {"VAD_DONE"}
    /\ event' = NoMsg
    /\ UNCHANGED <<vadRest, queue, rb, outbox>>

\* The engine finds speech: its first audio is announced with INFO_SPEECH_BEGIN.
VadSpeech ==
    /\ vad_pc = "silence" /\ Free("vad") /\ rb["rb_local_vad"] = "open"
    /\ vad_pc' = "speech"
    /\ Post("vad", "INFO_SPEECH_BEGIN")
    /\ event' = NoMsg
    /\ UNCHANGED <<vadRest, queue, rb, done>>

\* The engine finds the end of speech: the callback calls asr_processor_stop.
VadSilence ==
    /\ vad_pc = "speech" /\ Free("vad") /\ rb["rb_local_vad"] = "open"
    /\ vad_pc' = "ended"
    /\ Post("vad", "CMD_ASR_STOP")
    /\ event' = NoMsg
    /\ UNCHANGED <<vadRest, queue, rb, done>>

\* Slip: the timeout leaves the buffer open.
VadTimeoutKeepsRing ==
    /\ vad_pc \in {"silence", "speech"} /\ Free("vad") /\ rb["rb_local_vad"] = "open"
    /\ Post("vad", IF vad_pc = "silence" THEN "INFO_SPEECH_BEGIN_TIMEOUT"
                                         ELSE "INFO_SPEECH_END_TIMEOUT")
    /\ vad_pc' = "timed_out"
    /\ event' = NoMsg
    /\ UNCHANGED <<vadRest, queue, rb, done>>

\* vad_begin_timeout or vad_end_timeout has passed since the run or the speech began.
VadTimeout ==
    /\ vad_pc \in {"silence", "speech"} /\ Free("vad") /\ rb["rb_local_vad"] = "open"
    /\ Prompt => CaughtUp
    /\ rb' = [rb EXCEPT !["rb_local_vad"] = RingAbort(@)]
    /\ Post("vad", IF vad_pc = "silence" THEN "INFO_SPEECH_BEGIN_TIMEOUT"
                                         ELSE "INFO_SPEECH_END_TIMEOUT")
    /\ vad_pc' = "timed_out"
    /\ event' = NoMsg
    /\ UNCHANGED <<vadRest, queue, done>>

\* The run ends: after the callback's stop the buffer is aborted here, after a timeout it was.
VadRunOver ==
    /\ vad_pc \in {"ended", "timed_out"} /\ Free("vad")
    /\ rb' = IF vad_pc = "ended" THEN [rb EXCEPT !["rb_local_vad"] = RingAbort(@)] ELSE rb
    /\ vad_pc' = "wait"
    /\ done' = done \cup {"VAD_DONE"}
    /\ event' = NoMsg
    /\ UNCHANGED <<vadRest, queue, outbox>>

Vad == VadReceive \/ VadAborted \/ VadSpeech \/ VadSilence \/ VadTimeout \/ VadRunOver
-------------------------------------------------------------------------------
(***************************************************************************)
(* The thread ddsh (dds_helper_run).  Its loops also test s_ap.running,    *)
(* which only this thread clears, when it leaves them: the test never ends *)
(* a loop.                                                                 *)
(***************************************************************************)
ddshRest == <<processVars, rb, lock, engineVars, timerVars, vad_pc, asr_pc, outbox, calls, replies>>

\* asr_dds_start opens a session with the cloud.
DdshReceive ==
    /\ ddsh_pc = "wait" /\ queue["q_dds_helper"] # <<>>
    /\ Pop("q_dds_helper")
    /\ ddsh_pc' = IF Head(queue["q_dds_helper"]) = "CMD_DDS_FULL" THEN "full" ELSE "half"
    /\ session' = "open"
    /\ event' = NoMsg
    /\ UNCHANGED <<ddshRest, done>>

\* The CMD_ASR_RUN loop ends: an abort resets the session, a finish ends it.
DdshHalfOver ==
    /\ ddsh_pc = "half"
    /\ \/ rb["rb_dds"] = "aborted" /\ session' = "none"
       \/ rb["rb_dds"] = "finished" /\ session' = "ended"
    /\ ddsh_pc' = "wait"
    /\ done' = done \cup {"DDS_DONE"}
    /\ event' = NoMsg
    /\ UNCHANGED <<ddshRest, queue>>

\* Slip: an abort does not end the loop.
DdshFullOnlyFinished ==
    /\ ddsh_pc = "full"
    /\ rb["rb_local_vad"] = "finished"
    /\ session' = "ended"
    /\ ddsh_pc' = "wait"
    /\ done' = done \cup {"VAD_DONE"}
    /\ event' = NoMsg
    /\ UNCHANGED <<ddshRest, queue>>

\* The CMD_DDS_FULL loop reads the microphone's buffer and ends with it.
DdshFullOver ==
    /\ ddsh_pc = "full"
    /\ rb["rb_local_vad"] \in {"aborted", "finished"}
    /\ session' = "ended"
    /\ ddsh_pc' = "wait"
    /\ done' = done \cup {"VAD_DONE"}
    /\ event' = NoMsg
    /\ UNCHANGED <<ddshRest, queue>>

Ddsh == DdshReceive \/ DdshHalfOver \/ DdshFullOver

\* The thread asr (asr_run); its engine answers a stop with one result (asr_callback).
asrRest == <<processVars, rb, lock, engineVars, timerVars, vad_pc, ddsh_pc, session, calls, replies>>

AsrReceive ==
    /\ asr_pc = "wait" /\ queue["q_asr"] # <<>>
    /\ Pop("q_asr")
    /\ asr_pc' = "read"
    /\ event' = NoMsg
    /\ UNCHANGED <<asrRest, done, outbox>>

\* An abort cancels the engine, which then has no result.
AsrCancel ==
    /\ asr_pc = "read" /\ rb["rb_asr"] = "aborted"
    /\ asr_pc' = "wait"
    /\ done' = done \cup {"ASR_DONE"}
    /\ event' = NoMsg
    /\ UNCHANGED <<asrRest, queue, outbox>>

\* The finish stops the engine, which has its result first.
AsrFinish ==
    /\ asr_pc = "read" /\ Free("asr")
    /\ rb["rb_asr"] = "finished"
    /\ Post("asr", "INFO_ASR_LOCAL")
    /\ asr_pc' = "stopped"
    /\ event' = NoMsg
    /\ UNCHANGED <<asrRest, queue, done>>

AsrDone ==
    /\ asr_pc = "stopped"
    /\ asr_pc' = "wait"
    /\ done' = done \cup {"ASR_DONE"}
    /\ event' = NoMsg
    /\ UNCHANGED <<asrRest, queue, outbox>>

Asr == AsrReceive \/ AsrCancel \/ AsrFinish \/ AsrDone
-------------------------------------------------------------------------------
(***************************************************************************)
(* The callbacks of the dds library (dds_handler), on its own thread: the  *)
(* answer to a session, the end of speech heard by the cloud, an error.    *)
(***************************************************************************)
ddsRest == <<processVars, queue, rb, done, lock, engineVars, timerVars,
             vad_pc, ddsh_pc, asr_pc, calls>>

Reply(m) == /\ Free("dds") /\ replies < MaxReplies
            /\ replies' = replies + 1
            /\ Post("dds", m)

DdsResponse ==
    /\ session # "none"
    /\ Reply(IF dds_type = "FULL" THEN "INFO_ASR_FULL_DM" ELSE "INFO_ASR_DM")
    /\ session' = IF dds_type = "FULL" THEN session ELSE "none"
    /\ event' = NoMsg
    /\ UNCHANGED ddsRest

DdsVadResult ==
    /\ session = "open"
    /\ Reply("CMD_ASR_STOP")
    /\ event' = NoMsg
    /\ UNCHANGED <<ddsRest, session>>

DdsError ==
    /\ session # "none"
    /\ Reply("INFO_ASR_ERROR")
    /\ session' = "none"
    /\ event' = NoMsg
    /\ UNCHANGED ddsRest

Dds == DdsResponse \/ DdsVadResult \/ DdsError

(***************************************************************************)
(* The thread net_check (net_check_run): the lock is tested before the     *)
(* slow net_status_check, asr_type is written after it.                    *)
(***************************************************************************)
netRest == <<processVars, queue, rb, done, lock, dds_type, timerVars, threadVars>>

NetProbe ==
    /\ NetCheck /\ net_pc = "delay" /\ lock = 1
    /\ net_pc' = "net_status_check"
    /\ event' = NoMsg
    /\ UNCHANGED <<netRest, asr_type>>

NetApply ==
    /\ net_pc = "net_status_check"
    /\ net_pc' = "delay"
    /\ \E net_ret \in {0, 1} : asr_type' = IF net_ret = 1 THEN "DUI" ELSE "LOCAL"
    /\ event' = NoMsg
    /\ UNCHANGED netRest
-------------------------------------------------------------------------------
Next ==
    \/ Process
    \/ \E s \in Sender : Send(s)
    \/ ResetOpensRing
    \/ \E c \in Calls : Call(c)
    \/ TimerExpires
    \/ Vad \/ Ddsh \/ Asr
    \/ Dds
    \/ NetProbe \/ NetApply

Spec == Init /\ [][Next]_vars

(***************************************************************************)
(* The scheduler runs every thread of the SDK, gh_timer fires, and the     *)
(* local VAD's two timeouts pass as long as audio is read.  Nothing makes  *)
(* the application call, the network fail or the cloud answer.             *)
(***************************************************************************)
Fairness ==
    /\ WF_vars(Process)
    /\ \A s \in Sender : WF_vars(Send(s))
    /\ WF_vars(ResetOpensRing)
    /\ WF_vars(TimerExpires)
    /\ WF_vars(Vad) /\ WF_vars(Ddsh) /\ WF_vars(Asr)
    /\ WF_vars(NetApply)

FairSpec == Spec /\ Fairness
-------------------------------------------------------------------------------
(***************************************************************************)
(* The lock keeps net_check from changing the engine under a dialogue.  In *)
(* SPEECHING it is taken, unless the message that takes it again           *)
(* (CMD_VAD_RUN after a reset) or that ends SPEECHING (CMD_ASR_STOP after  *)
(* the timer's callback released it) is already on its way.                *)
(***************************************************************************)
EngineLockHeld ==
    state = "SPEECHING" /\ lock = 1 =>
        \/ In("CMD_VAD_RUN", queue["q_process"])
        \/ In("CMD_ASR_STOP", queue["q_process"])
        \/ outbox["timer"] = "CMD_ASR_STOP"
        \/ process_pc \in {"wait_dds", "wait_asr"} /\ in = "CMD_ASR_STOP"

(***************************************************************************)
(* With the engine pinned: whenever process may dispatch CMD_ASR_RUN, the  *)
(* buffer the engine will read is open, or the CMD_VAD_RUN that reopens it *)
(* after a reset is queued: speech is never announced to an engine whose   *)
(* buffer refuses the audio for the rest of the dialogue.                  *)
(***************************************************************************)
EngineRingReady ==
    state = "SPEECHING" /\ process_pc = "read" =>
        \/ rb[EngineRing] = "open"
        \/ In("CMD_VAD_RUN", queue["q_process"])

(***************************************************************************)
(* A microphone buffer that accepts audio has a reader, or the message     *)
(* that starts one is queued or being sent: no dialogue is begun that      *)
(* nobody listens to.                                                      *)
(***************************************************************************)
VadStreamServed ==
    rb["rb_local_vad"] = "open" =>
        \/ vad_pc \in {"silence", "speech", "ended"}
        \/ In("CMD_VAD_RUN", queue["q_vad"])
        \/ ddsh_pc = "full"
        \/ In("CMD_DDS_FULL", queue["q_dds_helper"])
        \/ process_pc = "send_vad" /\ in = "CMD_VAD_RUN"
        \/ process_pc = "send_ddsh" /\ in = "CMD_DDS_FULL"

(***************************************************************************)
(* The thread process, the only one that ends an engine's buffer, is not   *)
(* blocked for good: on its own full queue, or on the full queue of a      *)
(* thread that reads a buffer nobody else will end.                        *)
(***************************************************************************)
NoWedge ==
    ~ \/ process_pc = "send_self" /\ ~Room("q_process")
      \/ /\ process_pc = "send_ddsh" /\ ~Room("q_dds_helper")
         /\ \/ ddsh_pc = "half" /\ ReaderStays(rb["rb_dds"])
            \/ ddsh_pc = "full" /\ ReaderStays(rb["rb_local_vad"])
      \/ /\ process_pc = "send_asr" /\ ~Room("q_asr")
         /\ asr_pc = "read" /\ ReaderStays(rb["rb_asr"])

(***************************************************************************)
(* The comment on net_status_check_lock (asr_processor.c:69): once         *)
(* recognition has begun the engine is not switched until the dialogue is  *)
(* over.                                                                   *)
(***************************************************************************)
EngineFixedInDialogue ==
    [][state # "IDLE" /\ state' # "IDLE" => asr_type' = asr_type]_vars

(***************************************************************************)
(* asr_processor.h describes asr_processor_stop as "wait for the result":  *)
(* a dialogue that waits for its result gets one, or is given up.          *)
(***************************************************************************)
WaitEnds == state = "WAIT_FOR_ASR" ~> state # "WAIT_FOR_ASR"

\* Listening ends: by speech, by a timeout, by a stop or by an error.
SpeechingEnds == state = "SPEECHING" ~> state # "SPEECHING"

(***************************************************************************)
(* A stop ends full duplex for good: once the microphone's buffer is       *)
(* aborted the helper works off every session that was still queued,       *)
(* unless a new dialogue opens the buffer again or the helper is held up   *)
(* in a half-duplex recognition.                                           *)
(***************************************************************************)
StopDrainsFull ==
    rb["rb_local_vad"] = "aborted" ~>
        \/ rb["rb_local_vad"] = "open"
        \/ ddsh_pc = "half"
        \/ ddsh_pc = "wait" /\ ~In("CMD_DDS_FULL", queue["q_dds_helper"])
===============================================================================
