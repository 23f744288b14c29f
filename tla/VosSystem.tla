------------------------------- MODULE VosSystem -------------------------------
(***************************************************************************)
(* The application and the recogniser together: AppFsm with its reduced    *)
(* recogniser replaced by AsrProcessor.  The main loop is the recogniser's *)
(* caller "app", and event_cb sends to s_app.q on the thread process,      *)
(* which handles no message meanwhile.                                     *)
(***************************************************************************)
EXTENDS Naturals, Sequences

CONSTANTS
    Duplex, Results, AppCap, StackSize, Cap,
    MaxOutside, \* how much comes from outside: a wakeup counts for two, a cloud's reply for one
    MaxInfos    \* more than the messages the recogniser then sends

VARIABLES
    \* the application
    app_state, main_pc, call, q, fsm_stack, report, requests, playing, callback, ended,
    prompts, wakeups, handled,
    \* the recogniser
    state, process_pc, in, event, queue, rb, done, lock, asr_type, dds_type, dds_timeout,
    dds_timer, net_pc, vad_pc, ddsh_pc, asr_pc, session, outbox, calls, replies,
    \* both: who sent each message of q_process, and how many the recogniser sent itself
    q_process, infos,
    untold  \* was the last dialogue given up without an event?

App == INSTANCE AppFsm WITH
          Engines <- {"DUI"}, AsrCap <- Cap["q_process"], MaxWakeups <- MaxOutside,
          state <- app_state
Asr == INSTANCE AsrProcessor WITH
          Engines <- {"DUI"}, Duplexes <- {Duplex}, Calls <- {"start", "stop", "reset"},
          MaxCalls <- MaxInfos, MaxReplies <- MaxOutside, NetCheck <- FALSE, Prompt <- TRUE

appRest == <<app_state, main_pc, call, q, fsm_stack, requests, playing, callback, ended,
             prompts, wakeups, handled>>
appVars == <<appRest, report, q_process, infos>>
asrVars == <<state, process_pc, in, event, queue, rb, done, lock, asr_type, dds_type,
             dds_timeout, dds_timer, net_pc, vad_pc, ddsh_pc, asr_pc, session, outbox,
             calls, replies>>
systemVars == <<appVars, asrVars, untold>>

Init == App!Init /\ Asr!Init /\ untold = FALSE
-------------------------------------------------------------------------------
\* The main loop, except for its calls: it is not inside one.
MainAlone ==
    /\ outbox["app"] = "none"
    /\ \/ App!Wakeup \/ App!WakeupWhenWaitForAsr \/ App!AsrDm \/ App!AsrOver \/ App!AsrError
       \/ App!PromptComplete \/ App!Refused \/ App!RunJob \/ App!RunTtsPlay \/ App!NoJob
    /\ UNCHANGED <<asrVars, untold>>

\* asr_processor_start, _stop and _reset up to their message ...
MainCalls ==
    /\ main_pc = "asr_call" /\ Asr!Call(call.do)
    /\ UNCHANGED <<appVars, untold>>

\* ... the message, sent when q_process has room ...
MainSends == Asr!Send("app") /\ App!AsrCall /\ UNCHANGED untold

\* ... and what is left of a reset.
MainOpensRing == Asr!ResetOpensRing /\ UNCHANGED <<appVars, untold>>

Environment ==
    /\ \/ 2 * wakeups + replies + 2 <= MaxOutside /\ App!HearWakeup
       \/ App!Player
    /\ UNCHANGED <<asrVars, untold>>

\* Slip: an ignored start is not reported.
ReportedNotIgnored(ev) ==
    CASE ev \in {"none", "CMD_IGNORE"} -> {{}}
      [] ev = "ASR_EV_DM"    -> {{[type |-> "ASR_DM", result |-> r]} : r \in Results}
      [] ev = "ASR_EV_ERROR" -> {{App!Msg("ASR_ERROR")}}
      [] OTHER               -> {{App!Msg("ASR_OVER")}}

\* What asr_event_callback makes of an event.
Reported(ev) ==
    CASE ev = "none"         -> {{}}
      [] ev = "ASR_EV_DM"    -> {{[type |-> "ASR_DM", result |-> r]} : r \in Results}
      [] ev = "ASR_EV_ERROR" -> {{App!Msg("ASR_ERROR")}}
      [] OTHER               -> {{App!Msg("ASR_OVER")}}

\* Slip: the next message is handled while event_cb still sends.
ProcessDoesNotWait ==
    /\ process_pc = "read"
    /\ Asr!Process
    /\ q_process' = Tail(q_process)
    /\ report' \in Reported(event')
    /\ untold' = IF state # "IDLE" /\ state' = "IDLE" THEN event' = "none"
                 ELSE untold /\ state' = "IDLE"
    /\ UNCHANGED <<appRest, infos>>

ProcessReceives ==
    /\ process_pc = "read" /\ report = {}
    /\ Asr!Process
    /\ q_process' = Tail(q_process)
    /\ report' \in Reported(event')
    /\ untold' = IF state # "IDLE" /\ state' = "IDLE" THEN event' = "none"
                 ELSE untold /\ state' = "IDLE"
    /\ UNCHANGED <<appRest, infos>>

ProcessSendsSelf ==
    /\ process_pc = "send_self" /\ Asr!SendSelf
    /\ q_process' = Append(q_process, "info") /\ infos' = infos + 1
    /\ untold' = FALSE
    /\ UNCHANGED <<appRest, report>>

ProcessGoesOn ==
    /\ process_pc \notin {"read", "send_self"} /\ Asr!Process
    /\ untold' = (untold /\ state' = "IDLE")
    /\ UNCHANGED appVars

\* The other threads of the recogniser send ...
SenderSends(s) ==
    /\ Asr!Send(s)
    /\ q_process' = Append(q_process, "info") /\ infos' = infos + 1
    /\ UNCHANGED <<appRest, report, untold>>

ThreadSends == \E s \in Asr!Sender \ {"app"} : SenderSends(s)

\* ... or go on by themselves.
ThreadGoesOn ==
    /\ \/ Asr!TimerExpires \/ Asr!Vad \/ Asr!Ddsh \/ Asr!Asr
       \/ 2 * wakeups + replies < MaxOutside /\ Asr!Dds
    /\ UNCHANGED <<appVars, untold>>

EventSent == App!RecogniserReports /\ UNCHANGED <<asrVars, untold>>

Next == \/ MainAlone \/ MainCalls \/ MainSends \/ MainOpensRing \/ Environment
        \/ ProcessReceives \/ ProcessSendsSelf \/ ProcessGoesOn
        \/ ThreadSends \/ ThreadGoesOn \/ EventSent

Main == MainAlone \/ MainCalls \/ MainSends \/ MainOpensRing

Process == ProcessReceives \/ ProcessSendsSelf \/ ProcessGoesOn

Spec == Init /\ [][Next]_systemVars

\* The threads run, as in the two parts; the cloud, the speaker and the network need not.
Fairness ==
    /\ WF_systemVars(Main) /\ WF_systemVars(Process) /\ WF_systemVars(EventSent)
    /\ WF_systemVars(App!Player /\ UNCHANGED <<asrVars, untold>>)
    /\ \A s \in Asr!Sender \ {"app"} : WF_systemVars(SenderSends(s))
    /\ WF_systemVars((Asr!TimerExpires \/ Asr!Vad \/ Asr!Ddsh \/ Asr!Asr)
                        /\ UNCHANGED <<appVars, untold>>)

FairSpec == Spec /\ Fairness
-------------------------------------------------------------------------------
(***************************************************************************)
(* AppFsm's reduced recogniser is AsrProcessor's: it sends and reports     *)
(* what AppFsm says, no more, in particular nothing for a stop or a reset. *)
(***************************************************************************)
AppSpec == App!Spec

\* Nobody listens, and no timer ends that: the thread vad has dropped CMD_ASR_RESET (see
\* AsrReset), or aborted the buffer that process had opened for its next run, and a stop
\* that met the reset has stopped its timer.
Deaf == state = "SPEECHING" /\ vad_pc = "wait" /\ ~dds_timer

(***************************************************************************)
(* An application that waits for a result for good has a recogniser that   *)
(* waits for good too (for the cloud, or as AsrNoResult shows), that gave  *)
(* the dialogue up without an event, as END_TIMEOUT does, or that a reset  *)
(* has left deaf: every other end of a dialogue reaches the main loop,     *)
(* whatever it is doing.                                                   *)
(***************************************************************************)
DialogueEnds ==
    <>[](app_state = "WAIT_FOR_ASR") => <>[](state = "WAIT_FOR_ASR" \/ untold \/ Deaf)
===============================================================================
