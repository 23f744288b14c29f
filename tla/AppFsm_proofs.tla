---------------------------- MODULE AppFsm_proofs ----------------------------
(***************************************************************************)
(* Theorems about AppFsm, for any capacities of the queues and the stack,  *)
(* any number of wakeups and messages, every result and both duplexes.     *)
(***************************************************************************)
EXTENDS AppFsm, SequenceTheorems, FiniteSetTheorems, TLAPS

(***************************************************************************)
(* The stack: what a push and a pop leave of a sequence of jobs.           *)
(***************************************************************************)
LEMMA PushedOK ==
    ASSUME NEW stack \in Seq(Job), Len(stack) <= StackSize, NEW job \in Job
    PROVE  /\ Pushed(stack, job) \in Seq(Job)
           /\ Len(Pushed(stack, job)) <= StackSize
<1>1. /\ Append(stack, job) \in Seq(Job)
      /\ Len(Append(stack, job)) = Len(stack) + 1
  BY AppendProperties
<1>2. Len(stack) \in Nat /\ StackSize \in Nat
  BY LenProperties, CapAssumption
<1> QED BY <1>1, <1>2 DEF Pushed

LEMMA PopOK ==
    ASSUME fsm_stack \in Seq(Job), Len(fsm_stack) <= StackSize, fsm_stack # <<>>
    PROVE  /\ Top \in Job
           /\ Below \in Seq(Job) /\ Len(Below) <= StackSize /\ Len(Below) = Len(fsm_stack) - 1
           /\ \A i \in 1 .. Len(Below) : i \in 1 .. Len(fsm_stack) /\ Below[i] = fsm_stack[i]
           /\ Len(fsm_stack) \in 1 .. Len(fsm_stack)
<1>1. Len(fsm_stack) \in Nat \ {0} /\ StackSize \in Nat
  BY LenProperties, EmptySeq, CapAssumption
<1>2. Top \in Job
  BY <1>1, ElementOfSeq DEF Top
<1>3. /\ 1 \in Int /\ Len(fsm_stack) - 1 \in Int
      /\ \A i \in 1 .. Len(fsm_stack) - 1 : fsm_stack[i] \in Job
  BY <1>1, ElementOfSeq
<1>4. /\ Below \in Seq(Job)
      /\ Len(Below) = IF 1 <= Len(fsm_stack) - 1 THEN (Len(fsm_stack) - 1) - 1 + 1 ELSE 0
      /\ \A i \in 1 .. (Len(fsm_stack) - 1) - 1 + 1 : Below[i] = fsm_stack[1 + i - 1]
  BY <1>3, SubSeqProperties DEF Below
<1>5. Len(Below) = Len(fsm_stack) - 1
  <2>1. ASSUME NEW n \in Nat \ {0}
        PROVE  (IF 1 <= n - 1 THEN (n - 1) - 1 + 1 ELSE 0) = n - 1
    OBVIOUS
  <2> QED BY <1>1, <1>4, <2>1
<1>6. ASSUME NEW i \in 1 .. Len(fsm_stack) - 1 PROVE Below[i] = fsm_stack[i]
  <2>1. 1 + i - 1 = i /\ i \in 1 .. (Len(fsm_stack) - 1) - 1 + 1
    BY <1>1
  <2> QED BY <1>4, <2>1
<1> QED BY <1>1, <1>2, <1>4, <1>5, <1>6

\* A job that has come onto the stack is the new one, or was there before.
LEMMA InPushed ==
    ASSUME NEW stack \in Seq(Job), NEW job \in Job,
           NEW i \in 1 .. Len(Pushed(stack, job))
    PROVE  \/ Pushed(stack, job)[i] = job
           \/ i \in 1 .. Len(stack) /\ Pushed(stack, job)[i] = stack[i]
<1>1. /\ Len(stack) \in Nat
      /\ Len(Append(stack, job)) = Len(stack) + 1
      /\ \A k \in 1 .. Len(stack) : Append(stack, job)[k] = stack[k]
      /\ Append(stack, job)[Len(stack) + 1] = job
  BY AppendProperties, LenProperties
<1> QED BY <1>1 DEF Pushed
-------------------------------------------------------------------------------
LEMMA InitType == Init => TypeOK
<1> SUFFICES ASSUME Init PROVE TypeOK
  OBVIOUS
<1>1. state \in State /\ main_pc \in {"read", "asr_call", "pending"}
  BY DEF Init, State
<1>2. call \in [do : Call, state : State, pc : {"read", "pending"}]
  BY DEF Init, NoCall, State, Call
<1>3. /\ q \in Seq(AppMsg) /\ Len(q) <= AppCap
      /\ fsm_stack \in Seq(Job) /\ Len(fsm_stack) <= StackSize
      /\ q_process \in Seq(Call \cup {"info"}) /\ Len(q_process) <= AsrCap
      /\ requests \in Seq(Request)
  BY EmptySeq, CapAssumption DEF Init
<1>4. /\ wakeups \in 0 .. MaxWakeups /\ infos \in 0 .. MaxInfos
      /\ prompts \in Nat /\ handled \in Nat
  BY BoundsAssumption DEF Init
<1>5. /\ AtMostOne(report, AppMsg) /\ AtMostOne(playing, Nat)
      /\ ended \subseteq Nat /\ callback \in BOOLEAN
  BY DEF Init, AtMostOne
<1> QED BY <1>1, <1>2, <1>3, <1>4, <1>5 DEF TypeOK

(***************************************************************************)
(* The queues: q and q_process stay in their bounds.                       *)
(***************************************************************************)
LEMMA ReceiveOK ==
    ASSUME TypeOK, NEW s, NEW t, Receive(s, t)
    PROVE  /\ q' \in Seq(AppMsg) /\ Len(q') <= AppCap
           /\ Head(q) \in AppMsg
           /\ main_pc = "read" /\ state \in s
<1>1. q \in Seq(AppMsg) /\ Len(q) <= AppCap /\ q # <<>> /\ AppCap \in Nat
  BY CapAssumption DEF TypeOK, Receive
<1>2. Tail(q) \in Seq(AppMsg) /\ Len(Tail(q)) = Len(q) - 1 /\ Head(q) \in AppMsg
  BY <1>1, HeadTailProperties
<1>3. Len(q) \in Nat
  BY <1>1, LenProperties
<1> QED BY <1>1, <1>2, <1>3 DEF Receive

LEMMA SendOK ==
    ASSUME TypeOK, NEW m \in AppMsg, Len(q) < AppCap, q' = Append(q, m)
    PROVE  q' \in Seq(AppMsg) /\ Len(q') <= AppCap
<1>1. q' \in Seq(AppMsg) /\ Len(q') = Len(q) + 1
  BY AppendProperties DEF TypeOK
<1>2. Len(q) \in Nat /\ AppCap \in Nat
  BY LenProperties, CapAssumption DEF TypeOK
<1> QED BY <1>1, <1>2

LEMMA SendProcessOK ==
    ASSUME TypeOK, NEW m \in Call \cup {"info"}, Len(q_process) < AsrCap,
           q_process' = Append(q_process, m)
    PROVE  q_process' \in Seq(Call \cup {"info"}) /\ Len(q_process') <= AsrCap
<1>1. q_process' \in Seq(Call \cup {"info"}) /\ Len(q_process') = Len(q_process) + 1
  BY AppendProperties DEF TypeOK
<1>2. Len(q_process) \in Nat /\ AsrCap \in Nat
  BY LenProperties, CapAssumption DEF TypeOK
<1> QED BY <1>1, <1>2

LEMMA ReadProcessOK ==
    ASSUME TypeOK, q_process # <<>>, q_process' = Tail(q_process)
    PROVE  /\ q_process' \in Seq(Call \cup {"info"}) /\ Len(q_process') <= AsrCap
           /\ Head(q_process) \in Call \cup {"info"}
<1>1. /\ Tail(q_process) \in Seq(Call \cup {"info"})
      /\ Len(Tail(q_process)) = Len(q_process) - 1
      /\ Head(q_process) \in Call \cup {"info"}
  BY HeadTailProperties DEF TypeOK
<1>2. Len(q_process) \in Nat /\ AsrCap \in Nat /\ Len(q_process) <= AsrCap
  BY LenProperties, CapAssumption DEF TypeOK
<1> QED BY <1>1, <1>2

\* Another request for the player.
LEMMA RequestOK ==
    ASSUME TypeOK, NEW p \in Nat
    PROVE  /\ Append(requests, Play(p)) \in Seq(Request)
           /\ requests \o <<Stop, Play(p)>> \in Seq(Request)
<1>1. Play(p) \in Request /\ Stop \in Request
  BY DEF Play, Stop, Request
<1>2. <<Stop, Play(p)>> \in Seq(Request)
  BY <1>1
<1> QED BY <1>1, <1>2, AppendProperties, ConcatProperties DEF TypeOK
-------------------------------------------------------------------------------
(***************************************************************************)
(* Type correctness, one step per action.                                  *)
(***************************************************************************)
LEMMA NextType == TypeOK /\ [Next]_vars => TypeOK'
<1> SUFFICES ASSUME TypeOK, [Next]_vars PROVE TypeOK'
  OBVIOUS
<1> USE DEF restVars, playerVars, mainVars, appVars, recogniserRest
<1>w. ASSUME DoWakeup
      PROVE  /\ requests' \in Seq(Request)
             /\ fsm_stack' \in Seq(Job) /\ Len(fsm_stack') <= StackSize
             /\ handled' \in Nat /\ prompts' \in Nat
  BY <1>w, RequestOK, EmptySeq, CapAssumption DEF DoWakeup, TypeOK
<1>c. ASSUME NEW c \in Call, NEW s \in State, NEW pc \in {"read", "pending"}, CallAsr(c, s, pc)
      PROVE  /\ state' \in State /\ main_pc' \in {"read", "asr_call", "pending"}
             /\ call' \in [do : Call, state : State, pc : {"read", "pending"}]
  BY <1>c DEF CallAsr, TypeOK
<1>r. ASSUME NEW s \in State, Return(s) \/ JobReturns(s)
      PROVE  /\ state' \in State /\ main_pc' \in {"read", "asr_call", "pending"}
             /\ call' \in [do : Call, state : State, pc : {"read", "pending"}]
  BY <1>r DEF Return, JobReturns, TypeOK
<1>1. CASE Wakeup
  <2>1. q' \in Seq(AppMsg) /\ Len(q') <= AppCap
    BY <1>1, ReceiveOK DEF Wakeup
  <2>2. Return("WAIT_FOR_WAKEUP") \/ CallAsr("start", "WAIT_FOR_ASR", "pending")
    BY <1>1 DEF Wakeup
  <2>3. /\ state' \in State /\ main_pc' \in {"read", "asr_call", "pending"}
        /\ call' \in [do : Call, state : State, pc : {"read", "pending"}]
    BY <2>2, <1>c, <1>r DEF State, Call
  <2> QED BY <1>1, <1>w, <2>1, <2>3 DEF Wakeup, TypeOK
<1>2. CASE WakeupWhenWaitForAsr
  <2>1. q' \in Seq(AppMsg) /\ Len(q') <= AppCap
    BY <1>2, ReceiveOK DEF WakeupWhenWaitForAsr
  <2>2. Return("WAIT_FOR_ASR") \/ CallAsr("reset", "WAIT_FOR_ASR", "pending")
    BY <1>2 DEF WakeupWhenWaitForAsr
  <2>3. /\ state' \in State /\ main_pc' \in {"read", "asr_call", "pending"}
        /\ call' \in [do : Call, state : State, pc : {"read", "pending"}]
    BY <2>2, <1>c, <1>r DEF State, Call
  <2> QED BY <1>2, <1>w, <2>1, <2>3 DEF WakeupWhenWaitForAsr, TypeOK
<1>3. CASE AsrDm
  <2>1. q' \in Seq(AppMsg) /\ Len(q') <= AppCap /\ Head(q).result.then \in {"stop", "continue", "nothing"}
    BY <1>3, ReceiveOK DEF AsrDm, AppMsg, Result
  <2>2. \A do \in {"speech_continue", "asr_tts_play"} : NewJob(do, Head(q).result.then) \in Job
    BY <2>1 DEF NewJob, Job, TypeOK
  <2>3. fsm_stack' \in Seq(Job) /\ Len(fsm_stack') <= StackSize
    BY <1>3, <2>2, PushedOK DEF AsrDm, TypeOK
  <2>4. Return("WAIT_FOR_WAKEUP") \/ CallAsr("stop", "WAIT_FOR_WAKEUP", "pending")
    BY <1>3 DEF AsrDm
  <2>5. /\ state' \in State /\ main_pc' \in {"read", "asr_call", "pending"}
        /\ call' \in [do : Call, state : State, pc : {"read", "pending"}]
    BY <2>4, <1>c, <1>r DEF State, Call
  <2> QED BY <1>3, <2>1, <2>3, <2>5 DEF AsrDm, TypeOK
<1>4. CASE AsrOver \/ PromptComplete \/ Refused
  <2>1. q' \in Seq(AppMsg) /\ Len(q') <= AppCap
    BY <1>4, ReceiveOK DEF AsrOver, PromptComplete, Refused
  <2>2. Return("WAIT_FOR_WAKEUP") \/ Return(state)
    BY <1>4 DEF AsrOver, PromptComplete, Refused
  <2>3. /\ state' \in State /\ main_pc' \in {"read", "asr_call", "pending"}
        /\ call' \in [do : Call, state : State, pc : {"read", "pending"}]
    BY <2>2, <1>r DEF State, TypeOK
  <2> QED BY <1>4, <2>1, <2>3 DEF AsrOver, PromptComplete, Refused, TypeOK
<1>5. CASE AsrError
  <2>1. q' \in Seq(AppMsg) /\ Len(q') <= AppCap
    BY <1>5, ReceiveOK DEF AsrError
  <2>2. prompts' \in Nat /\ requests' \in Seq(Request)
    BY <1>5, RequestOK DEF AsrError, TypeOK
  <2>3. /\ state' \in State /\ main_pc' \in {"read", "asr_call", "pending"}
        /\ call' \in [do : Call, state : State, pc : {"read", "pending"}]
    BY <1>5, <1>r DEF State, AsrError
  <2> QED BY <1>5, <2>1, <2>2, <2>3 DEF AsrError, TypeOK
<1>6. CASE AsrCall
  <2>1. q_process' \in Seq(Call \cup {"info"}) /\ Len(q_process') <= AsrCap
    BY <1>6, SendProcessOK DEF AsrCall, TypeOK
  <2>2. NoCall \in [do : Call, state : State, pc : {"read", "pending"}]
    BY DEF NoCall, Call, State
  <2> QED BY <1>6, <2>1, <2>2 DEF AsrCall, TypeOK
<1>7. CASE RunJob
  <2>1. fsm_stack' \in Seq(Job) /\ Len(fsm_stack') <= StackSize
    BY <1>7, PopOK DEF RunJob, Ready, TypeOK
  <2>2. \/ JobReturns("WAIT_FOR_WAKEUP")
        \/ CallAsr("start", "WAIT_FOR_ASR", "read")
        \/ CallAsr("stop", "WAIT_FOR_WAKEUP", "read")
    BY <1>7 DEF RunJob, Continue
  <2>3. /\ state' \in State /\ main_pc' \in {"read", "asr_call", "pending"}
        /\ call' \in [do : Call, state : State, pc : {"read", "pending"}]
    BY <2>2, <1>c, <1>r DEF State, Call
  <2> QED BY <1>7, <2>1, <2>3 DEF RunJob, TypeOK
<1>8. CASE RunTtsPlay
  <2>1. prompts' \in Nat /\ requests' \in Seq(Request)
    BY <1>8, RequestOK DEF RunTtsPlay, TypeOK
  <2>2. /\ Below \in Seq(Job) /\ Len(Below) <= StackSize /\ Top \in Job
    BY <1>8, PopOK DEF RunTtsPlay, Ready, TypeOK
  <2>3. [Top EXCEPT !.do = "asr_result_process", !.prompt = prompts'] \in Job
    BY <2>1, <2>2 DEF Job
  <2>4. fsm_stack' \in Seq(Job) /\ Len(fsm_stack') <= StackSize
    BY <1>8, <2>2, <2>3, PushedOK DEF RunTtsPlay
  <2>5. /\ state' \in State /\ main_pc' \in {"read", "asr_call", "pending"}
        /\ call' \in [do : Call, state : State, pc : {"read", "pending"}]
    BY <1>8, <1>r DEF State, RunTtsPlay
  <2> QED BY <1>8, <2>1, <2>4, <2>5 DEF RunTtsPlay, TypeOK
<1>9. CASE NoJob
  BY <1>9 DEF NoJob, TypeOK
<1>10. CASE HearWakeup
  <2>1. Msg("WAKEUP") \in AppMsg
    BY DEF Msg, Silent, AppMsg, AppEv, Result
  <2>2. q' \in Seq(AppMsg) /\ Len(q') <= AppCap
    BY <1>10, <2>1, SendOK DEF HearWakeup
  <2>3. wakeups' \in 0 .. MaxWakeups
    BY <1>10, BoundsAssumption DEF HearWakeup, TypeOK
  <2> QED BY <1>10, <2>2, <2>3 DEF HearWakeup, TypeOK
<1>11. CASE PlayerObeys \/ PlayerDone
  <2>1. requests' \in Seq(Request) /\ AtMostOne(playing', Nat)
    <3>1. CASE PlayerObeys
      <4>1. Tail(requests) \in Seq(Request) /\ Head(requests) \in Request
        BY <3>1, HeadTailProperties DEF PlayerObeys, TypeOK
      <4>2. Head(requests).prompt \in Nat
        BY <4>1 DEF Request
      <4> QED BY <3>1, <4>1, <4>2 DEF PlayerObeys, AtMostOne
    <3>2. CASE PlayerDone
      BY <3>2 DEF PlayerDone, TypeOK, AtMostOne
    <3> QED BY <1>11, <3>1, <3>2
  <2>2. playing \subseteq Nat
    BY DEF TypeOK, AtMostOne
  <2>3. /\ ended' \subseteq Nat /\ callback' \in BOOLEAN
        /\ UNCHANGED <<appVars, q, q_process, report, wakeups, infos>>
    BY <1>11, <2>2 DEF PlayerObeys, PlayerDone, Over, TypeOK
  <2> QED BY <2>1, <2>3 DEF TypeOK
<1>12. CASE PlayerReports
  <2>1. Msg("PROMPT_COMPLETE") \in AppMsg
    BY DEF Msg, Silent, AppMsg, AppEv, Result
  <2>2. q' \in Seq(AppMsg) /\ Len(q') <= AppCap
    BY <1>12, <2>1, SendOK DEF PlayerReports
  <2> QED BY <1>12, <2>2 DEF PlayerReports, TypeOK
<1>13. CASE RecogniserInfo
  <2>1. q_process' \in Seq(Call \cup {"info"}) /\ Len(q_process') <= AsrCap
    BY <1>13, SendProcessOK DEF RecogniserInfo
  <2>2. infos' \in 0 .. MaxInfos
    BY <1>13, BoundsAssumption DEF RecogniserInfo, TypeOK
  <2> QED BY <1>13, <2>1, <2>2 DEF RecogniserInfo, TypeOK
<1>14. CASE RecogniserHandles
  <2>1. q_process' \in Seq(Call \cup {"info"}) /\ Len(q_process') <= AsrCap
    BY <1>14, ReadProcessOK DEF RecogniserHandles
  <2>2. \A t \in AppEv : Msg(t) \in AppMsg
    BY DEF Msg, Silent, AppMsg, Result
  <2>3. Reports \subseteq AppMsg
    BY <2>2, ResultsAssumption DEF Reports, AppEv, AppMsg
  <2>4. \A m : ReportsFor(m) \subseteq {{}} \cup {{r} : r \in AppMsg}
    BY <2>2, <2>3 DEF ReportsFor, AppEv
  <2>5. AtMostOne(report', AppMsg)
    BY <1>14, <2>4 DEF RecogniserHandles, AtMostOne
  <2> QED BY <1>14, <2>1, <2>5 DEF RecogniserHandles, TypeOK
<1>15. CASE RecogniserReports
  <2>1. PICK m \in report : q' = Append(q, m)
    BY <1>15 DEF RecogniserReports
  <2>2. m \in AppMsg
    BY <2>1 DEF TypeOK, AtMostOne
  <2>3. q' \in Seq(AppMsg) /\ Len(q') <= AppCap
    BY <1>15, <2>1, <2>2, SendOK DEF RecogniserReports
  <2>4. AtMostOne(report', AppMsg)
    BY <1>15 DEF RecogniserReports, AtMostOne
  <2> QED BY <1>15, <2>3, <2>4 DEF RecogniserReports, TypeOK
<1>16. CASE UNCHANGED vars
  BY <1>16 DEF vars, TypeOK
<1> QED BY <1>1, <1>2, <1>3, <1>4, <1>5, <1>6, <1>7, <1>8, <1>9, <1>10, <1>11, <1>12,
           <1>13, <1>14, <1>15, <1>16 DEF Next, Main, Player, Recogniser

(***************************************************************************)
(* Every queue, stack and set of the application stays in its type and its *)
(* capacity, and the main loop in its states.                              *)
(***************************************************************************)
THEOREM TypeCorrect == Spec => []TypeOK
BY InitType, NextType, PTL DEF Spec
-------------------------------------------------------------------------------
(***************************************************************************)
(* NoStaleJob is inductive: what is pushed is of the current dialogue,     *)
(* what is popped was, and a new dialogue begins with an empty stack.      *)
(***************************************************************************)
LEMMA NoStaleNext == TypeOK /\ NoStaleJob /\ [Next]_vars => NoStaleJob'
<1> SUFFICES ASSUME TypeOK, NoStaleJob, [Next]_vars PROVE NoStaleJob'
  OBVIOUS
<1> USE DEF restVars, playerVars, mainVars, appVars, recogniserRest
<1>1. ASSUME DoWakeup PROVE NoStaleJob'
  BY <1>1, EmptySeq DEF DoWakeup, NoStaleJob
<1>2. CASE Wakeup \/ WakeupWhenWaitForAsr
  BY <1>1, <1>2 DEF Wakeup, WakeupWhenWaitForAsr
<1>3. ASSUME UNCHANGED <<fsm_stack, handled>> PROVE NoStaleJob'
  BY <1>3 DEF NoStaleJob
<1>4. CASE AsrDm
  <2>1. Head(q).result.then \in {"stop", "continue", "nothing"} /\ handled' = handled
    BY <1>4, ReceiveOK DEF AsrDm, AppMsg, Result
  <2>2. \A do \in {"speech_continue", "asr_tts_play"} :
           /\ NewJob(do, Head(q).result.then) \in Job
           /\ NewJob(do, Head(q).result.then).wakeup = handled
    BY <2>1 DEF NewJob, Job, TypeOK
  <2>3. \/ UNCHANGED fsm_stack
        \/ \E do \in {"speech_continue", "asr_tts_play"} :
              fsm_stack' = Pushed(fsm_stack, NewJob(do, Head(q).result.then))
    BY <1>4 DEF AsrDm
  <2>4. ASSUME NEW do \in {"speech_continue", "asr_tts_play"},
               fsm_stack' = Pushed(fsm_stack, NewJob(do, Head(q).result.then)),
               NEW i \in 1 .. Len(fsm_stack')
        PROVE  fsm_stack'[i].wakeup = handled
    BY <2>2, <2>4, InPushed DEF NoStaleJob, TypeOK
  <2> QED BY <1>3, <2>1, <2>3, <2>4 DEF NoStaleJob
<1>5. CASE RunJob
  <2>1. fsm_stack' = Below /\ handled' = handled
    BY <1>5 DEF RunJob
  <2> QED BY <1>5, <2>1, PopOK DEF RunJob, Ready, NoStaleJob, TypeOK
<1>6. CASE RunTtsPlay
  <2> DEFINE job == [Top EXCEPT !.do = "asr_result_process", !.prompt = prompts']
  <2>1. fsm_stack' = Pushed(Below, job) /\ handled' = handled /\ prompts' \in Nat
    BY <1>6 DEF RunTtsPlay, TypeOK
  <2>2. /\ Below \in Seq(Job) /\ Top \in Job /\ Top.wakeup = handled
        /\ \A i \in 1 .. Len(Below) : Below[i].wakeup = handled
    BY <1>6, PopOK DEF RunTtsPlay, Ready, NoStaleJob, TypeOK, Top
  <2>3. job \in Job /\ job.wakeup = handled
    BY <2>1, <2>2 DEF Job
  <2> HIDE DEF job
  <2>4. ASSUME NEW i \in 1 .. Len(Pushed(Below, job)) PROVE Pushed(Below, job)[i].wakeup = handled
    BY <2>2, <2>3, <2>4, InPushed
  <2> QED BY <2>1, <2>4 DEF NoStaleJob
<1>7. CASE AsrOver \/ AsrError \/ PromptComplete \/ Refused \/ AsrCall \/ NoJob
  BY <1>3, <1>7 DEF AsrOver, AsrError, PromptComplete, Refused, AsrCall, NoJob
<1>8. CASE HearWakeup \/ Player \/ Recogniser
  BY <1>3, <1>8 DEF HearWakeup, Player, PlayerObeys, PlayerDone, PlayerReports, Over,
                    Recogniser, RecogniserInfo, RecogniserHandles, RecogniserReports
<1>9. CASE UNCHANGED vars
  BY <1>3, <1>9 DEF vars
<1> QED BY <1>2, <1>4, <1>5, <1>6, <1>7, <1>8, <1>9 DEF Next, Main

(***************************************************************************)
(* No deferred job outlives the wakeup that interrupts its dialogue, for   *)
(* every size of the stack and every number of wakeups and results.        *)
(***************************************************************************)
THEOREM JobsAreCurrent == Spec => []NoStaleJob
<1>1. Init => NoStaleJob
  BY EmptySeq DEF Init, NoStaleJob
<1> QED BY InitType, NextType, <1>1, NoStaleNext, PTL DEF Spec
-------------------------------------------------------------------------------
(***************************************************************************)
(* Counting in a sequence.                                                 *)
(***************************************************************************)
\* The places of a sequence where an element of P is.
Where(s, P) == {i \in 1 .. Len(s) : s[i] \in P}

LEMMA WhereFinite ==
    ASSUME NEW S, NEW s \in Seq(S), NEW P
    PROVE  IsFiniteSet(Where(s, P)) /\ Cardinality(Where(s, P)) \in Nat
<1>1. Len(s) \in Nat
  BY LenProperties
<1>2. IsFiniteSet(1 .. Len(s)) /\ Where(s, P) \in SUBSET (1 .. Len(s))
  BY <1>1, FS_Interval DEF Where
<1> QED BY <1>2, FS_Subset, FS_CardinalityType

\* An element more.
LEMMA WhereAppend ==
    ASSUME NEW S, NEW s \in Seq(S), NEW e \in S, NEW P
    PROVE  Cardinality(Where(Append(s, e), P)) =
               Cardinality(Where(s, P)) + (IF e \in P THEN 1 ELSE 0)
<1>1. /\ Len(s) \in Nat
      /\ Len(Append(s, e)) = Len(s) + 1
      /\ \A i \in 1 .. Len(s) : Append(s, e)[i] = s[i]
      /\ Append(s, e)[Len(s) + 1] = e
  BY AppendProperties, LenProperties
<1>2. IsFiniteSet(Where(s, P)) /\ Cardinality(Where(s, P)) \in Nat
  BY WhereFinite
<1>3. CASE e \in P
  <2>1. Where(Append(s, e), P) = Where(s, P) \cup {Len(s) + 1}
    BY <1>1, <1>3 DEF Where
  <2>2. Len(s) + 1 \notin Where(s, P)
    BY <1>1 DEF Where
  <2> QED BY <1>2, <1>3, <2>1, <2>2, FS_AddElement
<1>4. CASE e \notin P
  <2>1. Where(Append(s, e), P) = Where(s, P)
    BY <1>1, <1>4 DEF Where
  <2> QED BY <1>2, <1>4, <2>1
<1> QED BY <1>3, <1>4

\* The first element less: the places of the others move down by one.
LEMMA WhereTail ==
    ASSUME NEW S, NEW s \in Seq(S), s # <<>>, NEW P
    PROVE  Cardinality(Where(s, P)) =
               Cardinality(Where(Tail(s), P)) + (IF Head(s) \in P THEN 1 ELSE 0)
<1> DEFINE A == Where(s, P) \ {1}
           B == Where(Tail(s), P)
           f == [j \in B |-> j + 1]
<1>1. /\ Len(s) \in Nat \ {0}
      /\ Tail(s) \in Seq(S)
      /\ Len(Tail(s)) = Len(s) - 1
      /\ \A i \in 1 .. Len(Tail(s)) : Tail(s)[i] = s[i + 1]
      /\ Head(s) = s[1]
  BY HeadTailProperties, LenProperties, EmptySeq
<1>2. /\ IsFiniteSet(Where(s, P)) /\ Cardinality(Where(s, P)) \in Nat
      /\ IsFiniteSet(B) /\ Cardinality(B) \in Nat
  BY <1>1, WhereFinite
<1>3. \A j \in B : j \in 1 .. Len(s) - 1 /\ j + 1 \in A
  BY <1>1 DEF Where
<1>4. \A i \in A : i - 1 \in B /\ f[i - 1] = i
  BY <1>1 DEF Where
<1>5. f \in Bijection(B, A)
  <2>1. f \in [B -> A]
    BY <1>3
  <2>2. \A a, b \in B : f[a] = f[b] => a = b
    BY <1>1, <1>3
  <2>3. \A t \in A : \E j \in B : f[j] = t
    BY <1>4
  <2> QED BY <2>1, <2>2, <2>3 DEF Bijection, Injection, Surjection, IsInjective
<1>6. Cardinality(A) = Cardinality(B)
  BY <1>2, <1>5, FS_Bijection DEF ExistsBijection
<1>7. Cardinality(A) = IF 1 \in Where(s, P) THEN Cardinality(Where(s, P)) - 1
                                           ELSE Cardinality(Where(s, P))
  BY <1>2, FS_RemoveElement
<1>8. 1 \in Where(s, P) <=> Head(s) \in P
  BY <1>1 DEF Where
<1> QED BY <1>2, <1>6, <1>7, <1>8

-------------------------------------------------------------------------------
(***************************************************************************)
(* The prompts that are outstanding, counted place by place: a message     *)
(* that is read takes a completion, one that is sent or a new prompt adds  *)
(* one, and the player only moves them from requests to playing, to the    *)
(* callback and to q.                                                      *)
(***************************************************************************)
Completions == {m \in AppMsg : m.type = "PROMPT_COMPLETE"}
RealPrompts == {r \in Request : r.op = "play" /\ r.prompt > 0}

LEMMA CompletingWhere ==
    ASSUME NEW s \in Seq(AppMsg)
    PROVE  {i \in 1 .. Len(s) : s[i].type = "PROMPT_COMPLETE"} = Where(s, Completions)
BY ElementOfSeq DEF Where, Completions

LEMMA UnplayedWhere ==
    ASSUME NEW s \in Seq(Request)
    PROVE  {i \in 1 .. Len(s) : s[i].op = "play" /\ s[i].prompt > 0} = Where(s, RealPrompts)
BY ElementOfSeq DEF Where, RealPrompts

LEMMA PlayingCount ==
    ASSUME NEW S, AtMostOne(S, Nat)
    PROVE  Cardinality(S \ {0}) = IF S \ {0} = {} THEN 0 ELSE 1
<1>1. CASE S \ {0} = {}
  BY <1>1, FS_EmptySet
<1>2. CASE S \ {0} # {}
  <2>1. PICK p : p \in S \ {0}
    BY <1>2
  <2>2. S \ {0} = {p}
    BY <2>1 DEF AtMostOne
  <2> QED BY <1>2, <2>2, FS_Singleton
<1> QED BY <1>1, <1>2

LEMMA CountsOK ==
    ASSUME TypeOK
    PROVE  /\ Cardinality(Completing) \in Nat
           /\ Cardinality(Unplayed) \in Nat
           /\ Cardinality(playing \ {0}) \in Nat
           /\ Outstanding \in Nat
<1>1. Cardinality(Completing) \in Nat
  BY CompletingWhere, WhereFinite DEF TypeOK, Completing
<1>2. Cardinality(Unplayed) \in Nat
  BY UnplayedWhere, WhereFinite DEF TypeOK, Unplayed
<1>3. Cardinality(playing \ {0}) \in Nat
  BY PlayingCount DEF TypeOK
<1> QED BY <1>1, <1>2, <1>3 DEF Outstanding

\* Whatever arrives in q takes no prompt away; asr_tts_play_cb's message counts as one.
LEMMA SendCounts ==
    ASSUME TypeOK, NEW m \in AppMsg, q' = Append(q, m)
    PROVE  Cardinality(Completing)' =
               Cardinality(Completing) + (IF m.type = "PROMPT_COMPLETE" THEN 1 ELSE 0)
<1>1. q' \in Seq(AppMsg) /\ q \in Seq(AppMsg)
  BY AppendProperties DEF TypeOK
<1>2. Completing = Where(q, Completions) /\ Completing' = Where(q', Completions)
  BY <1>1, CompletingWhere DEF Completing
<1>3. m \in Completions <=> m.type = "PROMPT_COMPLETE"
  BY DEF Completions
<1> QED BY <1>1, <1>2, <1>3, WhereAppend

\* The main loop reads a message.
LEMMA ReceiveCounts ==
    ASSUME TypeOK, NEW s, NEW t, Receive(s, t)
    PROVE  Cardinality(Completing)' =
               Cardinality(Completing) - (IF t = "PROMPT_COMPLETE" THEN 1 ELSE 0)
<1>1. q' = Tail(q) /\ q # <<>> /\ Head(q).type = t /\ q \in Seq(AppMsg)
  BY DEF Receive, TypeOK
<1>2. Head(q) \in AppMsg /\ q' \in Seq(AppMsg)
  BY <1>1, HeadTailProperties
<1>3. Completing = Where(q, Completions) /\ Completing' = Where(q', Completions)
  BY <1>1, <1>2, CompletingWhere DEF Completing
<1>4. Head(q) \in Completions <=> t = "PROMPT_COMPLETE"
  BY <1>1, <1>2 DEF Completions
<1>5. Cardinality(Where(q', Completions)) \in Nat
  BY <1>2, WhereFinite
<1>6. Cardinality(Where(q, Completions)) =
          Cardinality(Where(q', Completions)) + (IF Head(q) \in Completions THEN 1 ELSE 0)
  BY <1>1, WhereTail
<1> QED BY <1>3, <1>4, <1>5, <1>6

\* A prompt is begun.
LEMMA PlayCounts ==
    ASSUME TypeOK, NEW p \in Nat \ {0}, requests' = Append(requests, Play(p))
    PROVE  Cardinality(Unplayed)' = Cardinality(Unplayed) + 1
<1>1. Play(p) \in RealPrompts
  BY DEF Play, RealPrompts, Request
<1>2. requests \in Seq(Request) /\ requests' \in Seq(Request) /\ Play(p) \in Request
  BY <1>1, AppendProperties DEF RealPrompts, TypeOK
<1>3. Unplayed = Where(requests, RealPrompts) /\ Unplayed' = Where(requests', RealPrompts)
  BY <1>2, UnplayedWhere DEF Unplayed
<1> QED BY <1>1, <1>2, <1>3, WhereAppend

\* The player works off a request: it plays the prompt it takes, and none that was counted is lost.
LEMMA PlayerKeepsCount ==
    ASSUME TypeOK, TypeOK', Player
    PROVE  Outstanding' = Outstanding
<1> DEFINE C == Cardinality(Completing)
           U == Cardinality(Unplayed)
           P == Cardinality(playing \ {0})
           B == IF callback THEN 1 ELSE 0
<1>0. C \in Nat /\ U \in Nat /\ P \in Nat /\ Outstanding = C + U + P + B
  BY CountsOK DEF Outstanding
<1>1. Outstanding' = C' + U' + P' + B'
  BY DEF Outstanding
<1>p. /\ P = IF playing \ {0} = {} THEN 0 ELSE 1
      /\ P' = IF playing' \ {0} = {} THEN 0 ELSE 1
  BY PlayingCount DEF TypeOK
<1>2. CASE PlayerObeys
  <2>1. /\ requests # <<>> /\ requests' = Tail(requests) /\ ~callback
        /\ callback' = (playing \ {0} # {}) /\ q' = q
        /\ playing' = IF Head(requests).op = "play" THEN {Head(requests).prompt} ELSE {}
    BY <1>2 DEF PlayerObeys, Over
  <2>2. /\ requests \in Seq(Request) /\ requests' \in Seq(Request) /\ Head(requests) \in Request
    BY <2>1, HeadTailProperties DEF TypeOK
  <2>3. Unplayed = Where(requests, RealPrompts) /\ Unplayed' = Where(requests', RealPrompts)
    BY <2>2, UnplayedWhere DEF Unplayed
  <2>4. U = U' + (IF Head(requests) \in RealPrompts THEN 1 ELSE 0)
    BY <2>1, <2>2, <2>3, WhereTail
  <2>5. Head(requests) \in RealPrompts <=> playing' \ {0} # {}
    BY <2>1, <2>2 DEF RealPrompts, Request
  <2>6. U' \in Nat
    BY <2>2, <2>3, WhereFinite
  <2>7. C' = C /\ B = 0 /\ B' = P
    BY <2>1, <1>p DEF Completing
  <2> HIDE DEF C, U, P, B
  <2> QED BY <1>0, <1>1, <1>p, <2>4, <2>5, <2>6, <2>7
<1>3. CASE PlayerDone
  <2>1. /\ ~callback /\ callback' = (playing \ {0} # {}) /\ playing' = {}
        /\ q' = q /\ requests' = requests
    BY <1>3 DEF PlayerDone, Over
  <2>2. C' = C /\ U' = U /\ B = 0 /\ B' = P /\ P' = 0
    BY <2>1, <1>p DEF Completing, Unplayed
  <2> HIDE DEF C, U, P, B
  <2> QED BY <1>0, <1>1, <2>2
<1>4. CASE PlayerReports
  <2>1. /\ callback /\ callback' = FALSE /\ q' = Append(q, Msg("PROMPT_COMPLETE"))
        /\ requests' = requests /\ playing' = playing
    BY <1>4 DEF PlayerReports
  <2>2. Msg("PROMPT_COMPLETE") \in AppMsg /\ Msg("PROMPT_COMPLETE").type = "PROMPT_COMPLETE"
    BY DEF Msg, Silent, AppMsg, AppEv, Result
  <2>3. C' = C + 1
    BY <2>1, <2>2, SendCounts
  <2>4. U' = U /\ P' = P /\ B = 1 /\ B' = 0
    BY <2>1 DEF Unplayed
  <2> HIDE DEF C, U, P, B
  <2> QED BY <1>0, <1>1, <2>3, <2>4
<1> QED BY <1>2, <1>3, <1>4 DEF Player

-------------------------------------------------------------------------------
(***************************************************************************)
(* JobsBacked speaks of main_pc = "read" alone.  While a job is looked     *)
(* for, a prompt's completion has been read and its job is still on the    *)
(* stack, or a result has just been pushed whose prompt is not begun: one  *)
(* job may be ahead of the prompts, unless the state is PLAYING, where no  *)
(* job is taken.  The same holds while a handler waits in the recogniser's *)
(* function, which never leads to PLAYING.                                 *)
(***************************************************************************)
Slack == IF \/ main_pc = "pending" /\ state # "PLAYING"
            \/ main_pc = "asr_call" /\ call.pc = "pending"
         THEN 1 ELSE 0

Backed == /\ Len(fsm_stack) <= Outstanding + Slack
          /\ state = "PLAYING" /\ main_pc # "asr_call" => Outstanding > 0
          /\ main_pc = "asr_call" => call.state # "PLAYING"

LEMMA BackedNext == TypeOK /\ TypeOK' /\ Backed /\ [Next]_vars => Backed'
<1> SUFFICES ASSUME TypeOK, TypeOK', Backed, [Next]_vars PROVE Backed'
  OBVIOUS
<1> USE DEF restVars, playerVars, mainVars, appVars, recogniserRest
<1>n. /\ Outstanding \in Nat /\ Len(fsm_stack) \in Nat /\ Slack \in {0, 1}
      /\ Cardinality(Completing) \in Nat /\ Cardinality(Unplayed) \in Nat
      /\ Cardinality(playing \ {0}) \in Nat
  BY CountsOK, LenProperties DEF TypeOK, Slack
<1>m. Outstanding' \in Nat
  <2>1. Cardinality(Completing') \in Nat
    BY CompletingWhere, WhereFinite DEF TypeOK, Completing
  <2>2. Cardinality(Unplayed') \in Nat
    BY UnplayedWhere, WhereFinite DEF TypeOK, Unplayed
  <2>3. Cardinality(playing' \ {0}) \in Nat
    <3>1. AtMostOne(playing', Nat)
      BY DEF TypeOK, AtMostOne
    <3> QED BY <3>1, PlayingCount
  <2> QED BY <2>1, <2>2, <2>3 DEF Outstanding
\* A message that is received: only a completion is one prompt less.
<1>r. ASSUME NEW s, NEW t, Receive(s, t), UNCHANGED <<requests, playing, callback>>
      PROVE  /\ t # "PROMPT_COMPLETE" => Outstanding' = Outstanding
             /\ Outstanding' >= Outstanding - 1
  <2>1. Cardinality(Completing)' =
            Cardinality(Completing) - (IF t = "PROMPT_COMPLETE" THEN 1 ELSE 0)
    BY <1>r, ReceiveCounts
  <2>2. UNCHANGED <<Unplayed, playing, callback>>
    BY <1>r DEF Unplayed
  <2> QED BY <1>n, <2>1, <2>2 DEF Outstanding
<1>1. CASE Wakeup \/ WakeupWhenWaitForAsr
  <2>1. Len(fsm_stack') = 0
    BY <1>1, EmptySeq DEF Wakeup, WakeupWhenWaitForAsr, DoWakeup
  <2>2. \/ \E s \in {"WAIT_FOR_WAKEUP", "WAIT_FOR_ASR"} : Return(s)
        \/ \E c \in Call : CallAsr(c, "WAIT_FOR_ASR", "pending")
    BY <1>1 DEF Wakeup, WakeupWhenWaitForAsr, Call
  <2>3. /\ state' = "PLAYING" => main_pc' = "asr_call"
        /\ main_pc' = "asr_call" => call'.state # "PLAYING"
        /\ Slack' \in Nat
    BY <1>1, <2>2, ReceiveOK DEF Return, CallAsr, Slack, Wakeup, WakeupWhenWaitForAsr
  <2>4. Len(fsm_stack') <= Outstanding' + Slack'
    <3>1. \A a, b \in Nat : 0 <= a + b
      OBVIOUS
    <3> QED BY <1>m, <2>1, <2>3, <3>1
  <2> QED BY <2>3, <2>4 DEF Backed
<1>2. CASE AsrDm
  <2>1. /\ Receive(State, "ASR_DM") /\ UNCHANGED <<requests, playing, callback>>
        /\ main_pc = "read"
    BY <1>2, ReceiveOK DEF AsrDm
  <2>2. Outstanding' = Outstanding /\ Len(fsm_stack) <= Outstanding
    BY <1>r, <1>n, <2>1 DEF Backed, Slack
  <2>3. Len(fsm_stack') <= Len(fsm_stack) + 1
    <3>1. Head(q).result.then \in {"stop", "continue", "nothing"}
      BY <2>1, ReceiveOK DEF AppMsg, Result
    <3>2. \A do \in {"speech_continue", "asr_tts_play"} : NewJob(do, Head(q).result.then) \in Job
      BY <3>1 DEF NewJob, Job, TypeOK
    <3>3. \/ UNCHANGED fsm_stack
          \/ \E do \in {"speech_continue", "asr_tts_play"} :
                fsm_stack' = Pushed(fsm_stack, NewJob(do, Head(q).result.then))
      BY <1>2 DEF AsrDm
    <3> QED BY <1>n, <3>2, <3>3, AppendProperties DEF Pushed, TypeOK
  <2>4. \/ Return("WAIT_FOR_WAKEUP") \/ CallAsr("stop", "WAIT_FOR_WAKEUP", "pending")
    BY <1>2 DEF AsrDm
  <2>5. /\ state' = "PLAYING" => main_pc' = "asr_call"
        /\ main_pc' = "asr_call" => call'.state # "PLAYING"
        /\ Slack' = 1
    BY <2>1, <2>4 DEF Return, CallAsr, Slack
  <2>6. Len(fsm_stack') \in Nat
    BY LenProperties DEF TypeOK
  <2> QED BY <1>n, <2>2, <2>3, <2>5, <2>6 DEF Backed
<1>3. CASE AsrOver \/ PromptComplete
  <2>1. PICK s, t : Receive(s, t)
    BY <1>3 DEF AsrOver, PromptComplete
  <2>2. /\ UNCHANGED <<requests, playing, callback, fsm_stack>>
        /\ main_pc = "read" /\ Return("WAIT_FOR_WAKEUP")
    BY <1>3, ReceiveOK DEF AsrOver, PromptComplete
  <2>3. Outstanding' >= Outstanding - 1 /\ Len(fsm_stack) <= Outstanding
    BY <1>r, <1>n, <2>1, <2>2 DEF Backed, Slack
  <2>4. Slack' = 1
    BY <2>2 DEF Return, Slack
  <2> QED BY <1>n, <1>m, <2>2, <2>3, <2>4 DEF Backed, Return
<1>4. CASE Refused
  <2>1. PICK t \in NoHandler[state] : Receive(State, t)
    BY <1>4 DEF Refused
  <2>2. /\ UNCHANGED <<requests, playing, callback, fsm_stack>>
        /\ main_pc = "read" /\ Return(state)
    BY <1>4, ReceiveOK DEF Refused
  <2>3. /\ Outstanding' >= Outstanding - 1 /\ Len(fsm_stack) <= Outstanding
        /\ state = "PLAYING" => Outstanding > 0
    BY <1>r, <1>n, <2>1, <2>2 DEF Backed, Slack
  <2>4. CASE state = "PLAYING"
    <3>1. Outstanding' = Outstanding
      BY <1>r, <2>1, <2>2, <2>4 DEF NoHandler
    <3> QED BY <1>n, <2>2, <2>3, <2>4, <3>1 DEF Backed, Slack, Return
  <2>5. CASE state # "PLAYING"
    <3>1. Slack' = 1
      BY <2>2, <2>5 DEF Return, Slack
    <3> QED BY <1>n, <1>m, <2>2, <2>3, <2>5, <3>1 DEF Backed, Return
  <2> QED BY <2>4, <2>5
<1>5. CASE AsrError
  <2>1. /\ Receive({"WAIT_FOR_ASR"}, "ASR_ERROR") /\ UNCHANGED <<playing, callback, fsm_stack>>
        /\ main_pc = "read" /\ Return("PLAYING")
        /\ prompts' = prompts + 1 /\ requests' = Append(requests, Play(prompts'))
    BY <1>5, ReceiveOK DEF AsrError
  <2>0. prompts' \in Nat \ {0}
    BY <2>1 DEF TypeOK
  <2>2. Cardinality(Completing)' = Cardinality(Completing)
    BY <1>n, <2>1, ReceiveCounts
  <2>3. Cardinality(Unplayed)' = Cardinality(Unplayed) + 1
    BY <2>0, <2>1, PlayCounts
  <2>4. Outstanding' = Outstanding + 1
    BY <1>n, <2>1, <2>2, <2>3 DEF Outstanding
  <2> QED BY <1>n, <2>1, <2>4 DEF Backed, Slack, Return
<1>6. CASE AsrCall
  <2>1. /\ main_pc = "asr_call" /\ UNCHANGED <<q, requests, playing, callback, fsm_stack>>
        /\ state' = call.state /\ main_pc' = call.pc /\ call.pc \in {"read", "pending"}
    BY <1>6 DEF AsrCall, TypeOK
  <2>2. Outstanding' = Outstanding
    BY <2>1 DEF Outstanding, Completing, Unplayed
  <2>3. Slack' = Slack /\ state' # "PLAYING" /\ main_pc' # "asr_call"
    BY <2>1 DEF Slack, Backed
  <2> QED BY <2>1, <2>2, <2>3 DEF Backed
<1>7. CASE RunJob
  <2>1. /\ main_pc = "pending" /\ state # "PLAYING" /\ fsm_stack # <<>>
        /\ fsm_stack' = Below /\ UNCHANGED <<q, requests, playing, callback>>
    BY <1>7 DEF RunJob, Ready
  <2>2. Outstanding' = Outstanding
    BY <2>1 DEF Outstanding, Completing, Unplayed
  <2>3. \/ JobReturns("WAIT_FOR_WAKEUP")
        \/ CallAsr("start", "WAIT_FOR_ASR", "read")
        \/ CallAsr("stop", "WAIT_FOR_WAKEUP", "read")
    BY <1>7 DEF RunJob, Continue
  <2>4. /\ state' = "PLAYING" => main_pc' = "asr_call"
        /\ main_pc' = "asr_call" => call'.state # "PLAYING"
        /\ Slack' = 0 /\ Slack = 1
    BY <2>1, <2>3 DEF JobReturns, CallAsr, Slack
  <2>5. Len(fsm_stack') = Len(fsm_stack) - 1
    BY <2>1, PopOK DEF TypeOK
  <2> QED BY <1>n, <2>2, <2>4, <2>5 DEF Backed
<1>8. CASE RunTtsPlay
  <2> DEFINE job == [Top EXCEPT !.do = "asr_result_process", !.prompt = prompts']
  <2>1. /\ main_pc = "pending" /\ state # "PLAYING" /\ fsm_stack # <<>>
        /\ fsm_stack' = Pushed(Below, job) /\ JobReturns("PLAYING")
        /\ prompts' = prompts + 1 /\ requests' = Append(requests, Play(prompts'))
        /\ UNCHANGED <<q, playing, callback>>
    BY <1>8 DEF RunTtsPlay, Ready
  <2>0. prompts' \in Nat \ {0}
    BY <2>1 DEF TypeOK
  <2>2. Cardinality(Unplayed)' = Cardinality(Unplayed) + 1
    BY <2>0, <2>1, PlayCounts
  <2>3. Outstanding' = Outstanding + 1
    BY <1>n, <2>1, <2>2 DEF Outstanding, Completing
  <2>4. Below \in Seq(Job) /\ Top \in Job /\ Len(Below) = Len(fsm_stack) - 1
    BY <2>1, PopOK DEF TypeOK
  <2>5. job \in Job
    BY <2>1, <2>4 DEF Job, TypeOK
  <2>6. Len(fsm_stack') <= Len(fsm_stack)
    <3> HIDE DEF job
    <3> QED BY <1>n, <2>1, <2>4, <2>5, AppendProperties DEF Pushed
  <2>7. Len(fsm_stack') \in Nat
    BY LenProperties DEF TypeOK
  <2> QED BY <1>n, <2>1, <2>3, <2>6, <2>7 DEF Backed, Slack, JobReturns
<1>9. CASE NoJob
  <2>1. /\ main_pc = "pending" /\ main_pc' = "read" /\ (state = "PLAYING" \/ fsm_stack = <<>>)
        /\ UNCHANGED <<q, requests, playing, callback, fsm_stack, state>>
    BY <1>9 DEF NoJob, Ready
  <2>2. Outstanding' = Outstanding
    BY <2>1 DEF Outstanding, Completing, Unplayed
  <2>3. fsm_stack = <<>> => Len(fsm_stack) = 0
    BY EmptySeq
  <2> QED BY <1>n, <2>1, <2>2, <2>3 DEF Backed, Slack
<1>10. ASSUME UNCHANGED <<mainVars, fsm_stack>>, Outstanding' >= Outstanding PROVE Backed'
  BY <1>10, <1>n, <1>m DEF Backed, Slack
<1>11. CASE HearWakeup
  <2>1. Msg("WAKEUP") \in AppMsg /\ Msg("WAKEUP").type = "WAKEUP"
    BY DEF Msg, Silent, AppMsg, AppEv, Result
  <2>2. Cardinality(Completing)' = Cardinality(Completing)
    BY <1>11, <1>n, <2>1, SendCounts DEF HearWakeup
  <2>3. Outstanding' = Outstanding
    BY <1>11, <2>2 DEF HearWakeup, Outstanding, Unplayed
  <2> QED BY <1>10, <1>11, <1>n, <2>3 DEF HearWakeup
<1>12. CASE Player
  <2>1. Outstanding' = Outstanding
    BY <1>12, PlayerKeepsCount
  <2> QED BY <1>10, <1>12, <1>n, <2>1
         DEF Player, PlayerObeys, PlayerDone, PlayerReports, Over
<1>13. CASE RecogniserInfo \/ RecogniserHandles
  <2>1. UNCHANGED <<mainVars, fsm_stack, q, requests, playing, callback>>
    BY <1>13 DEF RecogniserInfo, RecogniserHandles
  <2>2. Outstanding' = Outstanding
    BY <2>1 DEF Outstanding, Completing, Unplayed
  <2> QED BY <1>10, <1>n, <2>1, <2>2
<1>14. CASE RecogniserReports
  <2>1. PICK m \in report : q' = Append(q, m)
    BY <1>14 DEF RecogniserReports
  <2>2. m \in AppMsg
    BY <2>1 DEF TypeOK, AtMostOne
  <2>3. UNCHANGED <<mainVars, fsm_stack, requests, playing, callback>>
    BY <1>14 DEF RecogniserReports
  <2>4. Cardinality(Completing)' \in Nat /\ Cardinality(Completing)' >= Cardinality(Completing)
    BY <1>n, <2>1, <2>2, SendCounts
  <2>5. Outstanding' >= Outstanding
    BY <1>n, <2>3, <2>4 DEF Outstanding, Unplayed
  <2> QED BY <1>10, <2>3, <2>5
<1>15. CASE UNCHANGED vars
  <2>1. Outstanding' = Outstanding
    BY <1>15 DEF vars, Outstanding, Completing, Unplayed
  <2> QED BY <1>10, <1>15, <1>n, <2>1 DEF vars
<1> QED BY <1>1, <1>2, <1>3, <1>4, <1>5, <1>6, <1>7, <1>8, <1>9, <1>11, <1>12, <1>13,
           <1>14, <1>15 DEF Next, Main, Recogniser

(***************************************************************************)
(* No dialogue hangs on a prompt nobody plays: whatever the sizes of the   *)
(* queues and the stack and however wakeups, results and the player        *)
(* interleave, each deferred job has an outstanding prompt, and so has the *)
(* state PLAYING.                                                          *)
(***************************************************************************)
THEOREM JobsAreBacked == Spec => []JobsBacked
<1>1. Init => Backed
  <2> SUFFICES ASSUME Init PROVE Backed
    OBVIOUS
  <2>1. Len(fsm_stack) = 0 /\ Outstanding \in Nat
    BY InitType, CountsOK, EmptySeq DEF Init
  <2> QED BY <2>1 DEF Init, Backed, Slack
<1>2. TypeOK /\ Backed => JobsBacked
  BY CountsOK DEF Backed, Slack, JobsBacked
<1> QED BY InitType, NextType, BackedNext, <1>1, <1>2, PTL DEF Spec
===============================================================================
