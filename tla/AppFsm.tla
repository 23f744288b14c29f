-------------------------------- MODULE AppFsm --------------------------------
(***************************************************************************)
(* The application (app/src/main.c): the main loop runs a state machine    *)
(* over the messages of s_app.q, calls the recogniser and the player, and  *)
(* defers work on the stack fsm_stack (app/src/taskstack.c).  Wakeups come *)
(* from the wakeup processor's thread, recognition results from the        *)
(* recogniser's thread "process", completed prompts from the player's.     *)
(*                                                                         *)
(* The recogniser is reduced to what it does to the application: it reads  *)
(* q_process, where its own threads send too, and may report a result for  *)
(* anything but a stop or a reset.                                         *)
(*                                                                         *)
(* The states WAIT_FOR_SPEECHING and SPEECHING and the messages of their   *)
(* rows are left out: no handler leads there and nothing sends them.       *)
(***************************************************************************)
EXTENDS Naturals, Sequences, FiniteSets

CONSTANTS
    Engines,    \* the values asr_type may have when a handler reads it
    Duplex,     \* asr_get_duplex_type()
    Results,    \* the dialogue results the cloud sends
    MaxWakeups, \* how many wakeups are heard
    MaxInfos,   \* how many messages the recogniser's own threads send it
    AppCap,     \* the capacity of s_app.q
    AsrCap,     \* the capacity of q_process
    StackSize   \* the size of fsm_stack

(***************************************************************************)
(* What app_do_parse_dui and asr_result_process_job tell apart in a        *)
(* result: is there a speakUrl to play, and does the session end, go on or *)
(* neither (a media list, a native skill, a local rule, no shouldEndSession)*)
(***************************************************************************)
Result == [speak : BOOLEAN, then : {"stop", "continue", "nothing"}]

ASSUME EnginesAssumption == Engines \subseteq {"LOCAL", "DUI"} /\ Engines # {}
ASSUME DuplexAssumption  == Duplex \in {"HALF", "FULL"}
ASSUME ResultsAssumption == Results \subseteq Result
ASSUME BoundsAssumption  == MaxWakeups \in Nat /\ MaxInfos \in Nat
ASSUME CapAssumption     == {AppCap, AsrCap, StackSize} \subseteq Nat \ {0}

VARIABLES
    state,     \* the state of the main loop
    main_pc,   \* "read", in an "asr_call", or looking for a "pending" job
    call,      \* the recogniser's function being called and where it leads
    q,         \* s_app.q
    fsm_stack, \* the deferred jobs, the last one on top
    q_process, \* the recogniser's queue
    report,    \* what the recogniser's event_cb is sending, as a set of at most one
    requests,  \* what the player was asked to do and has not done
    playing,   \* the prompt that is played, as a set of at most one
    callback,  \* is asr_tts_play_cb busy sending?
    ended,     \* the prompts that are over
    prompts,   \* the number of prompts begun by the application, and the last one's name
    wakeups,   \* the number of wakeups
    handled,   \* the number of wakeups the main loop has handled
    infos      \* the number of messages the recogniser's threads have sent

mainVars   == <<state, main_pc, call>>
playerVars == <<playing, callback, ended>>
vars == <<mainVars, q, fsm_stack, q_process, report, requests, playerVars,
          prompts, wakeups, handled, infos>>

State  == {"WAIT_FOR_WAKEUP", "WAIT_FOR_ASR", "PLAYING"}
Call   == {"start", "stop", "reset"}

\* ASR_OVER stands for ASR_LOCAL, ASR_TIMEOUT and VAD_BEGIN_TIMEOUT: in every state the
\* three are handled alike.  WAKEUP is the major and the minor wakeup.
AppEv  == {"WAKEUP", "ASR_DM", "ASR_OVER", "ASR_ERROR", "PROMPT_COMPLETE"}
Silent == [speak |-> FALSE, then |-> "nothing"]
AppMsg == [type : AppEv, result : Result]
Msg(t) == [type |-> t, result |-> Silent]

\* A prompt is its number; the audio of a wakeup is prompt 0, which has no callback.
Request == [op : {"play", "stop"}, prompt : Nat]
Play(p) == [op |-> "play", prompt |-> p]
Stop    == [op |-> "stop", prompt |-> 0]

\* A job remembers the prompt it follows and how many wakeups were handled before.
Job == [do : {"speech_continue", "asr_tts_play", "asr_result_process"},
        then : {"stop", "continue", "nothing"}, prompt : Nat, wakeup : Nat]

AtMostOne(set, S) == set \subseteq S /\ \A x, y \in set : x = y

TypeOK ==
    /\ state \in State
    /\ main_pc \in {"read", "asr_call", "pending"}
    /\ call \in [do : Call, state : State, pc : {"read", "pending"}]
    /\ q \in Seq(AppMsg) /\ Len(q) <= AppCap
    /\ fsm_stack \in Seq(Job) /\ Len(fsm_stack) <= StackSize
    /\ q_process \in Seq(Call \cup {"info"}) /\ Len(q_process) <= AsrCap
    /\ AtMostOne(report, AppMsg)
    /\ requests \in Seq(Request)
    /\ AtMostOne(playing, Nat)
    /\ callback \in BOOLEAN
    /\ ended \subseteq Nat
    /\ prompts \in Nat /\ handled \in Nat
    /\ wakeups \in 0 .. MaxWakeups
    /\ infos \in 0 .. MaxInfos

NoCall == [do |-> "start", state |-> "WAIT_FOR_WAKEUP", pc |-> "read"]

\* After the start-up: full duplex is set, the queue and the stack are new.
Init ==
    /\ state = "WAIT_FOR_WAKEUP" /\ main_pc = "read"
    /\ call = NoCall
    /\ q = <<>> /\ fsm_stack = <<>>
    /\ q_process = <<>> /\ report = {}
    /\ requests = <<>> /\ playing = {} /\ callback = FALSE /\ ended = {}
    /\ prompts = 0 /\ wakeups = 0 /\ handled = 0 /\ infos = 0
-------------------------------------------------------------------------------
(***************************************************************************)
(* The main loop.  A handler runs to its end, or to the call of the        *)
(* recogniser that may block on q_process.                                 *)
(***************************************************************************)
restVars == <<q_process, report, playerVars, wakeups, infos>>

\* The handler returns s; then a job is looked for.
Return(s) == state' = s /\ main_pc' = "pending" /\ UNCHANGED call

\* c is called; afterwards the state is s and the loop goes on at pc.
CallAsr(c, s, pc) == /\ main_pc' = "asr_call"
                     /\ call' = [do |-> c, state |-> s, pc |-> pc]
                     /\ UNCHANGED state

\* gh_queue_read delivers a message of type t in one of the states s.
Receive(s, t) == /\ main_pc = "read" /\ state \in s
                 /\ q # <<>> /\ Head(q).type = t
                 /\ q' = Tail(q)

\* taskstack_push drops the job when the stack is full.
Pushed(stack, job) == IF Len(stack) < StackSize THEN Append(stack, job) ELSE stack

NewJob(do, then) == [do |-> do, then |-> then, prompt |-> prompts, wakeup |-> handled]

\* Slip: task_stack_clean is forgotten.
WakeupKeepsJobs == /\ requests' = requests \o <<Stop, Play(0)>>
                   /\ handled' = handled + 1
                   /\ UNCHANGED <<fsm_stack, prompts>>

\* do_wakeup: the prompt is stopped, the jobs are dropped, the wakeup's audio is played.
DoWakeup == /\ requests' = requests \o <<Stop, Play(0)>>
            /\ fsm_stack' = <<>>
            /\ handled' = handled + 1
            /\ UNCHANGED prompts

\* wakeup_major_when_wait_for_wakeup, wakeup_major_when_playing and their minor twins.
Wakeup ==
    /\ Receive({"WAIT_FOR_WAKEUP", "PLAYING"}, "WAKEUP")
    /\ DoWakeup
    /\ \E asr_type \in Engines :
          IF asr_type = "LOCAL" THEN Return("WAIT_FOR_WAKEUP")
                                ELSE CallAsr("start", "WAIT_FOR_ASR", "pending")
    /\ UNCHANGED restVars

\* wakeup_major_when_wait_for_asr; asr_processor_reset does nothing in full duplex.
WakeupWhenWaitForAsr ==
    /\ Receive({"WAIT_FOR_ASR"}, "WAKEUP")
    /\ DoWakeup
    /\ IF Duplex = "FULL" THEN Return("WAIT_FOR_ASR")
                          ELSE CallAsr("reset", "WAIT_FOR_ASR", "pending")
    /\ UNCHANGED restVars

\* asr_dm_when_wait_for_asr, in every state: app_do_parse_dui, then WAIT_FOR_WAKEUP.
AsrDm ==
    /\ Receive(State, "ASR_DM")
    /\ LET r == Head(q).result IN
       \/ /\ r.speak
          /\ fsm_stack' = Pushed(fsm_stack, NewJob("asr_tts_play", r.then))
          /\ Return("WAIT_FOR_WAKEUP")
       \/ /\ ~r.speak /\ r.then = "continue"
          /\ fsm_stack' = Pushed(fsm_stack, NewJob("speech_continue", r.then))
          /\ Return("WAIT_FOR_WAKEUP")
       \/ /\ ~r.speak /\ r.then = "stop"
          /\ CallAsr("stop", "WAIT_FOR_WAKEUP", "pending")
          /\ UNCHANGED fsm_stack
       \/ /\ ~r.speak /\ r.then = "nothing"
          /\ Return("WAIT_FOR_WAKEUP")
          /\ UNCHANGED fsm_stack
    /\ UNCHANGED <<requests, prompts, handled, restVars>>

\* asr_local_, asr_timeout_ and vad_begin_time_out_when_wait_for_asr.
AsrOver ==
    /\ Receive({"WAIT_FOR_ASR"}, "ASR_OVER")
    /\ Return("WAIT_FOR_WAKEUP")
    /\ UNCHANGED <<fsm_stack, requests, prompts, handled, restVars>>

\* Slip: the error prompt is played without asr_tts_play_cb.
ErrorWithoutCallback ==
    /\ Receive({"WAIT_FOR_ASR"}, "ASR_ERROR")
    /\ requests' = Append(requests, Play(0))
    /\ Return("PLAYING")
    /\ UNCHANGED <<fsm_stack, prompts, handled, restVars>>

\* asr_error_when_wait_for_asr plays the error prompt.
AsrError ==
    /\ Receive({"WAIT_FOR_ASR"}, "ASR_ERROR")
    /\ prompts' = prompts + 1
    /\ requests' = Append(requests, Play(prompts'))
    /\ Return("PLAYING")
    /\ UNCHANGED <<fsm_stack, handled, restVars>>

\* prompt_complete_when_playing
PromptComplete ==
    /\ Receive({"PLAYING"}, "PROMPT_COMPLETE")
    /\ Return("WAIT_FOR_WAKEUP")
    /\ UNCHANGED <<fsm_stack, requests, prompts, handled, restVars>>

\* The rows of app_run_table without a handler; a job is looked for all the same.
NoHandler == [WAIT_FOR_WAKEUP |-> {"ASR_OVER", "ASR_ERROR", "PROMPT_COMPLETE"},
              WAIT_FOR_ASR    |-> {"PROMPT_COMPLETE"},
              PLAYING         |-> {"ASR_OVER", "ASR_ERROR"}]

Refused ==
    /\ \E t \in NoHandler[state] : Receive(State, t)
    /\ Return(state)
    /\ UNCHANGED <<fsm_stack, requests, prompts, handled, restVars>>

\* gh_queue_send of asr_processor_start, _stop or _reset.
AsrCall ==
    /\ main_pc = "asr_call"
    /\ Len(q_process) < AsrCap
    /\ q_process' = Append(q_process, call.do)
    /\ state' = call.state /\ main_pc' = call.pc /\ call' = NoCall
    /\ UNCHANGED <<q, fsm_stack, requests, prompts, handled, report, playerVars,
                   wakeups, infos>>

Ready == main_pc = "pending" /\ state # "PLAYING" /\ fsm_stack # <<>>
Top   == fsm_stack[Len(fsm_stack)]
Below == SubSeq(fsm_stack, 1, Len(fsm_stack) - 1)

\* The job returns s; the loop reads the next message.
JobReturns(s) == state' = s /\ main_pc' = "read" /\ UNCHANGED call

\* Full duplex never stopped listening; half duplex starts again.
Continue ==
    \E asr_type \in Engines :
        IF asr_type = "DUI" /\ Duplex = "FULL"
        THEN JobReturns("WAIT_FOR_WAKEUP") ELSE CallAsr("start", "WAIT_FOR_ASR", "read")

\* speech_continue_job and asr_result_process_job
RunJob ==
    /\ Ready /\ Top.do # "asr_tts_play"
    /\ fsm_stack' = Below
    /\ \/ Top.then = "continue" /\ Continue
       \/ Top.then = "stop" /\ CallAsr("stop", "WAIT_FOR_WAKEUP", "read")
       \/ Top.then = "nothing" /\ JobReturns("WAIT_FOR_WAKEUP")
    /\ UNCHANGED <<q, requests, prompts, handled, restVars>>

\* Slip: the answer is played without asr_tts_play_cb.
TtsPlayWithoutCallback ==
    /\ Ready /\ Top.do = "asr_tts_play"
    /\ requests' = Append(requests, Play(0))
    /\ fsm_stack' = Pushed(Below, [Top EXCEPT !.do = "asr_result_process"])
    /\ JobReturns("PLAYING")
    /\ UNCHANGED <<q, prompts, handled, restVars>>

\* asr_tts_play_job plays the answer and defers the rest of the result behind it.
RunTtsPlay ==
    /\ Ready /\ Top.do = "asr_tts_play"
    /\ prompts' = prompts + 1
    /\ requests' = Append(requests, Play(prompts'))
    /\ fsm_stack' = Pushed(Below, [Top EXCEPT !.do = "asr_result_process", !.prompt = prompts'])
    /\ JobReturns("PLAYING")
    /\ UNCHANGED <<q, handled, restVars>>

NoJob ==
    /\ main_pc = "pending" /\ ~Ready
    /\ main_pc' = "read"
    /\ UNCHANGED <<state, call, q, fsm_stack, requests, prompts, handled, restVars>>

Main == \/ Wakeup \/ WakeupWhenWaitForAsr \/ AsrDm \/ AsrOver \/ AsrError
        \/ PromptComplete \/ Refused \/ AsrCall \/ RunJob \/ RunTtsPlay \/ NoJob
-------------------------------------------------------------------------------
appVars == <<mainVars, fsm_stack, prompts, handled>>

\* th_event_callback
HearWakeup ==
    /\ wakeups < MaxWakeups /\ Len(q) < AppCap
    /\ wakeups' = wakeups + 1
    /\ q' = Append(q, Msg("WAKEUP"))
    /\ UNCHANGED <<appVars, q_process, report, requests, playerVars, infos>>

(***************************************************************************)
(* The player (external; player_manager.h): one thread works off the       *)
(* requests, a new prompt ends the one before, and it calls                *)
(* asr_tts_play_cb for a prompt that is over, played to its end or not.    *)
(***************************************************************************)
Over == /\ ended' = ended \cup playing
        /\ callback' = (playing \ {0} # {})
        /\ UNCHANGED <<appVars, q, q_process, report, wakeups, infos>>

PlayerObeys ==
    /\ ~callback /\ requests # <<>>
    /\ requests' = Tail(requests)
    /\ playing' = IF Head(requests).op = "play" THEN {Head(requests).prompt} ELSE {}
    /\ Over

PlayerDone ==
    /\ ~callback /\ playing # {}
    /\ playing' = {}
    /\ UNCHANGED requests
    /\ Over

\* asr_tts_play_cb
PlayerReports ==
    /\ callback /\ Len(q) < AppCap
    /\ callback' = FALSE
    /\ q' = Append(q, Msg("PROMPT_COMPLETE"))
    /\ UNCHANGED <<appVars, q_process, report, requests, playing, ended, wakeups, infos>>

Player == PlayerObeys \/ PlayerDone \/ PlayerReports

(***************************************************************************)
(* The recogniser.  In full duplex process stays in IDLE, where it reports *)
(* nothing but results.  Else it reports what a dialogue came to, and      *)
(* CMD_IGNORE for a start that comes while it waits for a result;          *)
(* asr_event_callback assigns where it means to compare (else if (ev =     *)
(* ASR_VAD_BEGIN_TIMEOUT)), so that CMD_IGNORE arrives as                  *)
(* VAD_BEGIN_TIMEOUT too.                                                  *)
(***************************************************************************)
OnlyResults == Duplex = "FULL" /\ Engines = {"DUI"}

Reports == [type : {"ASR_DM"}, result : Results] \cup
           {Msg(t) : t \in IF OnlyResults THEN {} ELSE {"ASR_OVER", "ASR_ERROR"}}

\* What process may report when it handles the message m of q_process.
ReportsFor(m) ==
    {{}} \cup (CASE m = "info"                   -> {{r} : r \in Reports}
                  [] m = "start" /\ ~OnlyResults -> {{Msg("ASR_OVER")}}
                  [] OTHER                       -> {})

recogniserRest == <<appVars, requests, playerVars, wakeups>>

\* A thread of the recogniser (vad, ddsh, asr, the cloud's, the timer's) sends to process;
\* none does before the first wakeup's start.
RecogniserInfo ==
    /\ handled > 0 /\ infos < MaxInfos /\ Len(q_process) < AsrCap
    /\ infos' = infos + 1
    /\ q_process' = Append(q_process, "info")
    /\ UNCHANGED <<recogniserRest, q, report>>

\* process handles a message, and reports at most one event for it.
RecogniserHandles ==
    /\ report = {} /\ q_process # <<>>
    /\ q_process' = Tail(q_process)
    /\ report' \in ReportsFor(Head(q_process))
    /\ UNCHANGED <<recogniserRest, q, infos>>

\* asr_event_callback's gh_queue_send, on the thread process.
RecogniserReports ==
    /\ report # {} /\ Len(q) < AppCap
    /\ \E m \in report : q' = Append(q, m)
    /\ report' = {}
    /\ UNCHANGED <<recogniserRest, q_process, infos>>

Recogniser == RecogniserInfo \/ RecogniserHandles \/ RecogniserReports
-------------------------------------------------------------------------------
Next == Main \/ HearWakeup \/ Player \/ Recogniser

Spec == Init /\ [][Next]_vars

(***************************************************************************)
(* The threads run; the player plays a prompt to its end.  Nobody has to   *)
(* speak, and the recogniser's threads need not send anything.             *)
(***************************************************************************)
Fairness == /\ WF_vars(Main) /\ WF_vars(Player)
            /\ WF_vars(RecogniserHandles \/ RecogniserReports)

FairSpec == Spec /\ Fairness
-------------------------------------------------------------------------------
(***************************************************************************)
(* What a wakeup finds deferred belongs to the dialogue it interrupts and  *)
(* must not run in the new one, where it could stop or restart listening.  *)
(***************************************************************************)
NoStaleJob == \A i \in 1 .. Len(fsm_stack) : fsm_stack[i].wakeup = handled

\* Completions the main loop has not read yet.
Completing == {i \in 1 .. Len(q) : q[i].type = "PROMPT_COMPLETE"}
Unplayed   == {i \in 1 .. Len(requests) : requests[i].op = "play" /\ requests[i].prompt > 0}
Outstanding == Cardinality(Completing) + Cardinality(Unplayed) + Cardinality(playing \ {0})
               + (IF callback THEN 1 ELSE 0)

(***************************************************************************)
(* Between two messages every deferred result still has a prompt whose     *)
(* completion will release it, and the state PLAYING one that will end it: *)
(* no dialogue hangs on a prompt nobody plays.                             *)
(***************************************************************************)
JobsBacked ==
    main_pc = "read" => /\ Len(fsm_stack) <= Outstanding
                        /\ state = "PLAYING" => Outstanding > 0

\* The deferred results are worked off, or dropped by a wakeup.
JobsWorkedOff == fsm_stack # <<>> ~> fsm_stack = <<>>

(***************************************************************************)
(* The comment at main.c:696: the result is to be processed at the regular *)
(* end of the prompt that speaks the answer.                               *)
(***************************************************************************)
ResultAfterPrompt ==
    [][RunJob /\ Top.do = "asr_result_process" => Top.prompt \in ended]_vars
===============================================================================
