---------------------------- MODULE VosSystem_proofs ----------------------------
(***************************************************************************)
(* The application and the recogniser together do what AppFsm says of the  *)
(* application and its reduced recogniser, for every capacity, result and  *)
(* mode: step simulation under the refinement mapping of VosSystem.        *)
(***************************************************************************)
EXTENDS VosSystem, SequenceTheorems, TLAPS

(***************************************************************************)
(* Two views of one queue: what AppFsm knows of a message of q_process is  *)
(* who sent it, what AsrProcessor knows is the message.                    *)
(***************************************************************************)
Kinds == {"start", "stop", "reset", "info"}

SentAs(kind, m) ==
    \/ kind = "info"
    \/ kind = "start" /\ m \in {"CMD_VAD_RUN", "CMD_DDS_FULL"}
    \/ kind = "stop" /\ m = "CMD_ASR_STOP"
    \/ kind = "reset" /\ m = "CMD_ASR_RESET"

OneQueue(kinds, messages) ==
    /\ Len(kinds) = Len(messages)
    /\ \A i \in 1 .. Len(messages) : SentAs(kinds[i], messages[i])

Messages == [type : App!AppEv, result : Results \cup {App!Silent}]

Types ==
    /\ queue \in [Asr!Queues -> Seq(Asr!Msg)]
    /\ outbox \in [Asr!Sender -> Asr!Msg \cup {Asr!OpenRing, Asr!NoMsg}]
    /\ in \in Asr!Msg \cup {Asr!NoMsg} /\ (process_pc # "read" => in \in Asr!Msg)
    /\ q_process \in Seq(Kinds)
    /\ q \in Seq(Messages) /\ report \subseteq Messages
    /\ handled \in Nat /\ infos \in Nat

\* The engine and the mode stay what they were in the beginning.
EngineStays == asr_type = "DUI" /\ net_pc = "delay" /\ dds_type = Duplex

\* The recogniser's function that is sending is the one the main loop is inside of.
CallSends ==
    outbox["app"] \in Asr!Msg =>
        main_pc = "asr_call" /\ call.do \in Kinds \ {"info"} /\ SentAs(call.do, outbox["app"])

\* In full duplex nothing is sent that would lead process out of IDLE.
HalfOnly == {"CMD_VAD_RUN", "CMD_ASR_RESET", "INFO_ASR_DM"}

StaysIdle ==
    Duplex = "FULL" =>
        /\ state = "IDLE"
        /\ \/ process_pc = "read"
           \/ process_pc = "send_ddsh" /\ in = "CMD_DDS_FULL"
           \/ process_pc = "wait_vad" /\ in = "CMD_ASR_STOP"
        /\ \A i \in 1 .. Len(queue["q_process"]) : queue["q_process"][i] \notin HalfOnly
        /\ \A s \in Asr!Sender : outbox[s] \notin HalfOnly

\* Before the first wakeup is handled the recogniser rests.
AtRest ==
    handled = 0 =>
        /\ main_pc # "asr_call" /\ fsm_stack = <<>> /\ report = {}
        /\ \A i \in 1 .. Len(q) : q[i].type # "ASR_DM"
        /\ \A n \in Asr!Queues : queue[n] = <<>>
        /\ process_pc = "read" /\ vad_pc = "wait" /\ ddsh_pc = "wait" /\ asr_pc = "wait"
        /\ session = "none" /\ ~dds_timer
        /\ \A s \in Asr!Sender : outbox[s] = Asr!NoMsg

SystemInv ==
    /\ Types /\ EngineStays /\ OneQueue(q_process, queue["q_process"]) /\ CallSends
    /\ StaysIdle /\ AtRest

-------------------------------------------------------------------------------
LEMMA QueueGains ==
    ASSUME NEW ks \in Seq(Kinds), NEW ms \in Seq(Asr!Msg), OneQueue(ks, ms),
           NEW k \in Kinds, NEW m \in Asr!Msg, SentAs(k, m)
    PROVE  /\ Append(ks, k) \in Seq(Kinds) /\ Append(ms, m) \in Seq(Asr!Msg)
           /\ OneQueue(Append(ks, k), Append(ms, m))
<1> DEFINE kt == Append(ks, k)  mt == Append(ms, m)
<1>1. /\ Len(ks) \in Nat /\ Len(ks) = Len(ms)
      /\ \A i \in 1 .. Len(ms) : SentAs(ks[i], ms[i])
  BY DEF OneQueue
<1>2. /\ kt \in Seq(Kinds) /\ Len(kt) = Len(ks) + 1 /\ kt[Len(ks) + 1] = k
      /\ \A i \in 1 .. Len(ks) : kt[i] = ks[i]
  OBVIOUS
<1>3. /\ mt \in Seq(Asr!Msg) /\ Len(mt) = Len(ms) + 1 /\ mt[Len(ms) + 1] = m
      /\ \A i \in 1 .. Len(ms) : mt[i] = ms[i]
  OBVIOUS
<1> HIDE DEF kt, mt
<1>4. ASSUME NEW i \in 1 .. Len(mt) PROVE SentAs(kt[i], mt[i])
  <2>1. CASE i \in 1 .. Len(ms)
    BY <1>1, <1>2, <1>3, <2>1
  <2>2. CASE i = Len(ms) + 1
    BY <1>1, <1>2, <1>3, <2>2
  <2> QED BY <1>1, <1>3, <2>1, <2>2
<1> QED BY <1>1, <1>2, <1>3, <1>4 DEF OneQueue, kt, mt

LEMMA QueueLoses ==
    ASSUME NEW ks \in Seq(Kinds), NEW ms \in Seq(Asr!Msg), OneQueue(ks, ms), ms # <<>>
    PROVE  /\ ks # <<>> /\ Tail(ks) \in Seq(Kinds) /\ Tail(ms) \in Seq(Asr!Msg)
           /\ OneQueue(Tail(ks), Tail(ms))
           /\ Head(ks) \in Kinds /\ Head(ms) = ms[1] /\ SentAs(Head(ks), Head(ms))
           /\ \A i \in 1 .. Len(Tail(ms)) : i + 1 \in 1 .. Len(ms) /\ Tail(ms)[i] = ms[i + 1]
           /\ 1 \in 1 .. Len(ms)
<1>1. /\ Len(ks) \in Nat /\ Len(ks) = Len(ms) /\ Len(ms) # 0
      /\ \A i \in 1 .. Len(ms) : SentAs(ks[i], ms[i])
  BY EmptySeq DEF OneQueue
<1>2. ks # <<>>
  BY <1>1
<1>3. /\ Head(ks) = ks[1] /\ Head(ks) \in Kinds /\ Tail(ks) \in Seq(Kinds)
      /\ Len(Tail(ks)) = Len(ks) - 1
      /\ \A i \in 1 .. Len(Tail(ks)) : Tail(ks)[i] = ks[i + 1]
  BY <1>2, HeadTailProperties
<1>4. /\ Head(ms) = ms[1] /\ Tail(ms) \in Seq(Asr!Msg) /\ Len(Tail(ms)) = Len(ms) - 1
      /\ \A i \in 1 .. Len(Tail(ms)) : Tail(ms)[i] = ms[i + 1]
  BY HeadTailProperties
<1>5. \A i \in 1 .. Len(Tail(ms)) : SentAs(Tail(ks)[i], Tail(ms)[i]) /\ i + 1 \in 1 .. Len(ms)
  BY <1>1, <1>3, <1>4
<1> QED BY <1>1, <1>2, <1>3, <1>4, <1>5 DEF OneQueue

(***************************************************************************)
(* What the steps of the recogniser do to what the invariant speaks of.    *)
(***************************************************************************)
\* What process does with a message it receives, as far as the application can tell.
LEMMA Received ==
    ASSUME Asr!Process, process_pc = "read"
    PROVE  /\ queue["q_process"] # <<>>
           /\ queue' = [queue EXCEPT !["q_process"] = Tail(@)]
           /\ UNCHANGED <<outbox, session, dds_timer, dds_type, net_pc, vad_pc, ddsh_pc, asr_pc>>
           /\ asr_type' \in {asr_type, "DUI"}
           /\ in' \in {Head(queue["q_process"]), Asr!NoMsg}
           /\ process_pc' # "read" => in' = Head(queue["q_process"])
  BY DEF Asr!Process, Asr!VadRunWhenIdle, Asr!VadRunWhenSpeeching, Asr!VadRunWhenWaitForAsr,
         Asr!SendVad, Asr!DdsFullWhenIdle, Asr!AsrRunWhenSpeeching, Asr!AsrRunWhenWaitForAsr,
         Asr!SendEngine, Asr!AsrStop, Asr!AsrStopWhenIdle, Asr!AsrReset, Asr!VadWaitOver,
         Asr!EngineWaitOver, Asr!SpeechBeginWhenSpeeching, Asr!SendSelf, Asr!Result,
         Asr!ResultWhenIdle, Asr!Failure, Asr!NetworkUpdate, Asr!Refused, Asr!Receive, Asr!Pop,
         Asr!Return, Asr!BlockAt, Asr!ReleaseAndReturn, Asr!EndEngineRing, Asr!Received,
         Asr!threadVars, Asr!engineVars, Asr!timerVars

LEMMA GoesOn ==
    ASSUME Asr!Process, process_pc # "read"
    PROVE  /\ UNCHANGED <<outbox, session, dds_timer, asr_type, dds_type, net_pc, vad_pc, ddsh_pc,
                          asr_pc>>
           /\ in' \in {in, Asr!NoMsg} /\ (process_pc' # "read" => in' = in)
  BY DEF Asr!Process, Asr!VadRunWhenIdle, Asr!VadRunWhenSpeeching, Asr!VadRunWhenWaitForAsr,
         Asr!SendVad, Asr!DdsFullWhenIdle, Asr!AsrRunWhenSpeeching, Asr!AsrRunWhenWaitForAsr,
         Asr!SendEngine, Asr!AsrStop, Asr!AsrStopWhenIdle, Asr!AsrReset, Asr!VadWaitOver,
         Asr!EngineWaitOver, Asr!SpeechBeginWhenSpeeching, Asr!SendSelf, Asr!Result,
         Asr!ResultWhenIdle, Asr!Failure, Asr!NetworkUpdate, Asr!Refused, Asr!Receive, Asr!Pop,
         Asr!Return, Asr!BlockAt, Asr!ReleaseAndReturn, Asr!EndEngineRing, Asr!Received,
         Asr!threadVars, Asr!engineVars, Asr!timerVars

-------------------------------------------------------------------------------
LEMMA AsrSame ==
    ASSUME SystemInv, UNCHANGED asrVars
    PROVE  /\ EngineStays' /\ StaysIdle'
           /\ UNCHANGED <<queue, outbox, in, process_pc, vad_pc, ddsh_pc, asr_pc, session, dds_timer>>
  BY DEF SystemInv, asrVars, EngineStays, StaysIdle

\* q loses its first message, or nothing.
LEMMA MessagesLeft ==
    ASSUME NEW s \in Seq(Messages), NEW t, t = s \/ (s # <<>> /\ t = Tail(s))
    PROVE  /\ t \in Seq(Messages)
           /\ (\A i \in 1 .. Len(s) : s[i].type # "ASR_DM") =>
                 \A i \in 1 .. Len(t) : t[i].type # "ASR_DM"
<1>1. CASE t = s
  BY <1>1
<1>2. CASE s # <<>> /\ t = Tail(s)
  <2>1. /\ Tail(s) \in Seq(Messages) /\ Len(Tail(s)) = Len(s) - 1
        /\ \A i \in 1 .. Len(Tail(s)) : Tail(s)[i] = s[i + 1]
        /\ Len(s) \in Nat /\ Len(s) # 0
    BY <1>2, HeadTailProperties, EmptySeq
  <2>2. \A i \in 1 .. Len(Tail(s)) : i + 1 \in 1 .. Len(s)
    BY <2>1
  <2> QED BY <1>2, <2>1, <2>2
<1> QED BY <1>1, <1>2

LEMMA MainEffect ==
    ASSUME SystemInv, MainAlone
    PROVE  /\ q' = q \/ (q # <<>> /\ q' = Tail(q))
           /\ UNCHANGED <<q_process, report, infos>>
           /\ handled' \in {handled, handled + 1}
           /\ handled = 0 /\ handled' = 0 => main_pc' # "asr_call" /\ fsm_stack' = <<>>
<1> USE DEF App!Receive, App!restVars, App!Return, App!CallAsr, App!mainVars, App!playerVars
<1>0. UNCHANGED report
  BY DEF MainAlone, App!Wakeup, App!WakeupWhenWaitForAsr, App!AsrDm, App!AsrOver, App!AsrError,
         App!PromptComplete, App!Refused, App!RunJob, App!RunTtsPlay, App!NoJob
<1>1. CASE App!Wakeup \/ App!WakeupWhenWaitForAsr
  BY <1>0, <1>1 DEF SystemInv, Types, App!Wakeup, App!WakeupWhenWaitForAsr, App!DoWakeup
<1>2. CASE App!AsrDm
  <2>1. handled # 0
    <3>1. q # <<>> /\ Head(q).type = "ASR_DM" /\ q \in Seq(Messages)
      BY <1>2 DEF App!AsrDm, SystemInv, Types
    <3>2. Head(q) = q[1] /\ 1 \in 1 .. Len(q)
      BY <3>1
    <3> QED BY <3>1, <3>2 DEF SystemInv, AtRest
  <2>2. /\ q # <<>> /\ q' = Tail(q) /\ UNCHANGED <<q_process, infos, handled>>
    BY <1>2 DEF App!AsrDm
  <2> QED BY <1>0, <2>1, <2>2
<1>3. CASE App!RunJob \/ App!RunTtsPlay
  <2>1. handled # 0
    BY <1>3 DEF SystemInv, AtRest, App!RunJob, App!RunTtsPlay, App!Ready
  <2>2. UNCHANGED <<q, q_process, infos, handled>>
    BY <1>3 DEF App!RunJob, App!RunTtsPlay
  <2> QED BY <1>0, <2>1, <2>2
<1>4. CASE App!AsrOver
  BY <1>0, <1>4 DEF SystemInv, AtRest, App!AsrOver
<1>5. CASE App!AsrError
  BY <1>0, <1>5 DEF SystemInv, AtRest, App!AsrError
<1>6. CASE App!PromptComplete
  BY <1>0, <1>6 DEF SystemInv, AtRest, App!PromptComplete
<1>7. CASE App!Refused
  BY <1>0, <1>7 DEF SystemInv, AtRest, App!Refused
<1>8. CASE App!NoJob
  BY <1>0, <1>8 DEF SystemInv, AtRest, App!NoJob
<1> QED BY <1>1, <1>2, <1>3, <1>4, <1>5, <1>6, <1>7, <1>8 DEF MainAlone

LEMMA MainAloneStep == ASSUME SystemInv, MainAlone PROVE SystemInv'
<1>1. UNCHANGED asrVars /\ outbox["app"] = "none"
  BY DEF MainAlone
<1>2. /\ EngineStays' /\ StaysIdle'
      /\ UNCHANGED <<queue, outbox, in, process_pc, vad_pc, ddsh_pc, asr_pc, session, dds_timer>>
  BY <1>1, AsrSame
<1>3. /\ q' = q \/ (q # <<>> /\ q' = Tail(q))
      /\ UNCHANGED <<q_process, report, infos>>
      /\ handled' \in {handled, handled + 1}
      /\ handled = 0 /\ handled' = 0 => main_pc' # "asr_call" /\ fsm_stack' = <<>>
  BY MainEffect
<1>4. /\ q' \in Seq(Messages)
      /\ (\A i \in 1 .. Len(q) : q[i].type # "ASR_DM") =>
            \A i \in 1 .. Len(q') : q'[i].type # "ASR_DM"
  <2>1. q \in Seq(Messages)
    BY DEF SystemInv, Types
  <2> QED BY <1>3, <2>1, MessagesLeft
<1>5. Types' /\ (handled' = 0 => handled = 0)
  <2>1. handled \in Nat /\ Types
    BY DEF SystemInv, Types
  <2> QED BY <1>2, <1>3, <1>4, <2>1 DEF Types
<1>6. CallSends'
  BY <1>1, <1>2 DEF CallSends, Asr!Msg
<1>7. AtRest'
  BY <1>2, <1>3, <1>4, <1>5 DEF SystemInv, AtRest
<1>8. OneQueue(q_process, queue["q_process"])'
  BY <1>2, <1>3 DEF SystemInv
<1> QED BY <1>2, <1>5, <1>6, <1>7, <1>8 DEF SystemInv

LEMMA MainCallsStep == ASSUME SystemInv, MainCalls PROVE SystemInv'
<1>1. /\ main_pc = "asr_call" /\ Asr!Call(call.do) /\ UNCHANGED appVars
      /\ UNCHANGED <<appRest, report, q_process, infos>>
  BY DEF MainCalls, appVars
<1>2. handled # 0
  BY <1>1 DEF SystemInv, AtRest
<1>3. UNCHANGED <<main_pc, call, q, handled, fsm_stack, report, q_process, infos>>
  BY <1>1 DEF appRest
<1>4. /\ call.do \in {"start", "stop", "reset"}
      /\ \E m \in {"CMD_DDS_FULL", "CMD_VAD_RUN", "CMD_ASR_STOP", "CMD_ASR_RESET"} :
            /\ outbox' = [outbox EXCEPT !["app"] = m]
            /\ SentAs(call.do, m)
            /\ Duplex = "FULL" => m \notin HalfOnly
      /\ UNCHANGED <<state, process_pc, in, queue, asr_type, dds_type, net_pc>>
  BY <1>1 DEF Asr!Call, Asr!Post, Asr!processVars, Asr!engineVars, SentAs, HalfOnly, SystemInv,
              EngineStays
<1>5. PICK m \in {"CMD_DDS_FULL", "CMD_VAD_RUN", "CMD_ASR_STOP", "CMD_ASR_RESET"} :
            /\ outbox' = [outbox EXCEPT !["app"] = m]
            /\ SentAs(call.do, m)
            /\ Duplex = "FULL" => m \notin HalfOnly
  BY <1>4
<1>6. /\ outbox' \in [Asr!Sender -> Asr!Msg \cup {Asr!OpenRing, Asr!NoMsg}]
      /\ outbox'["app"] = m
      /\ \A s \in Asr!Sender : outbox'[s] = outbox[s] \/ outbox'[s] = m
  BY <1>5 DEF SystemInv, Types, Asr!Sender, Asr!Msg
<1>7. Types' /\ EngineStays' /\ OneQueue(q_process, queue["q_process"])'
  BY <1>3, <1>4, <1>6 DEF SystemInv, Types, EngineStays
<1>8. CallSends'
  BY <1>1, <1>3, <1>4, <1>5, <1>6 DEF CallSends, Kinds
<1>9. StaysIdle'
  BY <1>4, <1>5, <1>6 DEF SystemInv, StaysIdle
<1>10. AtRest'
  BY <1>2, <1>3 DEF AtRest
<1> QED BY <1>7, <1>8, <1>9, <1>10 DEF SystemInv

LEMMA AppendKeeps ==
    ASSUME NEW ms \in Seq(Asr!Msg), NEW m \in Asr!Msg, NEW S,
           \A i \in 1 .. Len(ms) : ms[i] \notin S, m \notin S
    PROVE  \A i \in 1 .. Len(Append(ms, m)) : Append(ms, m)[i] \notin S
<1> DEFINE mt == Append(ms, m)
<1>1. /\ Len(mt) = Len(ms) + 1 /\ mt[Len(ms) + 1] = m /\ Len(ms) \in Nat
      /\ \A i \in 1 .. Len(ms) : mt[i] = ms[i]
  OBVIOUS
<1> HIDE DEF mt
<1>2. \A i \in 1 .. Len(mt) : i \in 1 .. Len(ms) \/ i = Len(ms) + 1
  BY <1>1
<1>3. \A i \in 1 .. Len(mt) : mt[i] \notin S
  BY <1>1, <1>2
<1> QED BY <1>3 DEF mt

\* A message comes to q_process, of a kind that says who sent it.
LEMMA Gains ==
    ASSUME SystemInv, NEW k \in Kinds, NEW m \in Asr!Msg, SentAs(k, m),
           Duplex = "FULL" => m \notin HalfOnly,
           q_process' = Append(q_process, k),
           queue' = [queue EXCEPT !["q_process"] = Append(@, m)]
    PROVE  /\ q_process' \in Seq(Kinds) /\ queue' \in [Asr!Queues -> Seq(Asr!Msg)]
           /\ OneQueue(q_process', queue'["q_process"])
           /\ Duplex = "FULL" =>
                 \A i \in 1 .. Len(queue'["q_process"]) : queue'["q_process"][i] \notin HalfOnly
<1>1. /\ q_process \in Seq(Kinds) /\ queue["q_process"] \in Seq(Asr!Msg)
      /\ OneQueue(q_process, queue["q_process"])
      /\ queue \in [Asr!Queues -> Seq(Asr!Msg)]
  BY DEF SystemInv, Types, Asr!Queues
<1>2. /\ Append(q_process, k) \in Seq(Kinds) /\ Append(queue["q_process"], m) \in Seq(Asr!Msg)
      /\ OneQueue(Append(q_process, k), Append(queue["q_process"], m))
  BY <1>1, QueueGains
<1>3. queue'["q_process"] = Append(queue["q_process"], m)
  BY <1>1 DEF Asr!Queues
<1>4. queue' \in [Asr!Queues -> Seq(Asr!Msg)]
  BY <1>1, <1>2 DEF Asr!Queues
<1>5. ASSUME Duplex = "FULL"
      PROVE  \A i \in 1 .. Len(queue'["q_process"]) : queue'["q_process"][i] \notin HalfOnly
  <2>1. \A i \in 1 .. Len(queue["q_process"]) : queue["q_process"][i] \notin HalfOnly
    BY <1>5 DEF SystemInv, StaysIdle
  <2> QED BY <1>1, <1>3, <1>5, <2>1, AppendKeeps
<1> QED BY <1>2, <1>3, <1>4, <1>5

LEMMA SendStep ==
    ASSUME SystemInv, NEW s \in Asr!Sender, Asr!Send(s),
           NEW k \in Kinds, q_process' = Append(q_process, k), SentAs(k, outbox[s]),
           UNCHANGED <<q, report, handled>>, infos' \in Nat,
           s # "app" => UNCHANGED <<main_pc, call>>
    PROVE  SystemInv'
<1> DEFINE m == outbox[s]
<1>1. /\ m \in Asr!Msg
      /\ queue' = [queue EXCEPT !["q_process"] = Append(@, m)]
      /\ outbox' = [outbox EXCEPT ![s] = IF @ = "CMD_ASR_RESET" THEN Asr!OpenRing ELSE Asr!NoMsg]
      /\ UNCHANGED <<state, process_pc, in, asr_type, dds_type, net_pc>>
  BY DEF Asr!Send, Asr!Push, Asr!processVars, Asr!engineVars
<1>2. Duplex = "FULL" => m \notin HalfOnly
  BY DEF SystemInv, StaysIdle
<1>3. handled # 0
  BY <1>1 DEF SystemInv, AtRest, Asr!Msg, Asr!NoMsg
<1>4. /\ outbox' \in [Asr!Sender -> Asr!Msg \cup {Asr!OpenRing, Asr!NoMsg}]
      /\ outbox'[s] \in {Asr!OpenRing, Asr!NoMsg}
      /\ \A r \in Asr!Sender \ {s} : outbox'[r] = outbox[r]
  BY <1>1 DEF SystemInv, Types
<1> HIDE DEF m
<1>5. /\ q_process' \in Seq(Kinds) /\ queue' \in [Asr!Queues -> Seq(Asr!Msg)]
      /\ OneQueue(q_process', queue'["q_process"])
      /\ Duplex = "FULL" =>
            \A i \in 1 .. Len(queue'["q_process"]) : queue'["q_process"][i] \notin HalfOnly
  BY <1>1, <1>2, Gains DEF m
<1>6. Types' /\ EngineStays'
  BY <1>1, <1>4, <1>5 DEF SystemInv, Types, EngineStays
<1>7. CallSends'
  <2>1. CASE s = "app"
    BY <1>4, <2>1 DEF CallSends, Asr!Msg, Asr!OpenRing, Asr!NoMsg
  <2>2. CASE s # "app"
    BY <1>4, <2>2 DEF SystemInv, CallSends, Asr!Sender
  <2> QED BY <2>1, <2>2
<1>8. StaysIdle'
  BY <1>1, <1>4, <1>5 DEF SystemInv, StaysIdle, HalfOnly, Asr!OpenRing, Asr!NoMsg
<1>9. AtRest'
  BY <1>3 DEF AtRest
<1> QED BY <1>5, <1>6, <1>7, <1>8, <1>9 DEF SystemInv

LEMMA MainSendsStep == ASSUME SystemInv, MainSends PROVE SystemInv'
<1>1. /\ Asr!Send("app") /\ outbox["app"] \in Asr!Msg /\ "app" \in Asr!Sender
      /\ q_process' = Append(q_process, call.do)
      /\ UNCHANGED <<q, report, handled, infos>>
  BY DEF MainSends, Asr!Send, Asr!Sender, App!AsrCall
<1>2. call.do \in Kinds /\ SentAs(call.do, outbox["app"]) /\ infos \in Nat
  BY <1>1 DEF SystemInv, CallSends, Types
<1> QED BY <1>1, <1>2, SendStep

LEMMA SenderSendsStep ==
    ASSUME SystemInv, NEW s \in Asr!Sender \ {"app"}, SenderSends(s) PROVE SystemInv'
<1>1. /\ Asr!Send(s) /\ s \in Asr!Sender /\ s # "app"
      /\ q_process' = Append(q_process, "info") /\ infos' = infos + 1
      /\ UNCHANGED <<q, report, handled, main_pc, call>>
  BY DEF SenderSends, appRest
<1>2. "info" \in Kinds /\ SentAs("info", outbox[s]) /\ infos' \in Nat
  BY <1>1 DEF Kinds, SentAs, SystemInv, Types
<1> QED BY <1>1, <1>2, SendStep

LEMMA MainOpensRingStep == ASSUME SystemInv, MainOpensRing PROVE SystemInv'
<1>1. /\ outbox["app"] = Asr!OpenRing /\ outbox' = [outbox EXCEPT !["app"] = Asr!NoMsg]
      /\ UNCHANGED <<state, process_pc, in, queue, asr_type, dds_type, net_pc>>
      /\ UNCHANGED <<main_pc, call, q, handled, fsm_stack, report, q_process, infos>>
  BY DEF MainOpensRing, Asr!ResetOpensRing, Asr!processVars, Asr!engineVars, appVars, appRest
<1>2. handled # 0
  BY <1>1 DEF SystemInv, AtRest, Asr!OpenRing, Asr!NoMsg, Asr!Sender
<1>3. /\ outbox' \in [Asr!Sender -> Asr!Msg \cup {Asr!OpenRing, Asr!NoMsg}]
      /\ outbox'["app"] = Asr!NoMsg
      /\ \A r \in Asr!Sender \ {"app"} : outbox'[r] = outbox[r]
  BY <1>1 DEF SystemInv, Types, Asr!Sender
<1>4. Types' /\ EngineStays' /\ OneQueue(q_process, queue["q_process"])'
  BY <1>1, <1>3 DEF SystemInv, Types, EngineStays
<1>5. CallSends'
  BY <1>3 DEF CallSends, Asr!Msg, Asr!NoMsg
<1>6. StaysIdle'
  BY <1>1, <1>3 DEF SystemInv, StaysIdle, HalfOnly, Asr!NoMsg
<1>7. AtRest'
  BY <1>1, <1>2 DEF AtRest
<1> QED BY <1>4, <1>5, <1>6, <1>7 DEF SystemInv

\* s_app.q gains a message.
LEMMA MessageComes ==
    ASSUME NEW s \in Seq(Messages), NEW m \in Messages
    PROVE  /\ Append(s, m) \in Seq(Messages)
           /\ m.type # "ASR_DM" /\ (\A i \in 1 .. Len(s) : s[i].type # "ASR_DM") =>
                 \A i \in 1 .. Len(Append(s, m)) : Append(s, m)[i].type # "ASR_DM"
<1> DEFINE t == Append(s, m)
<1>1. /\ t \in Seq(Messages) /\ Len(t) = Len(s) + 1 /\ t[Len(s) + 1] = m /\ Len(s) \in Nat
      /\ \A i \in 1 .. Len(s) : t[i] = s[i]
  OBVIOUS
<1> HIDE DEF t
<1>2. \A i \in 1 .. Len(t) : i \in 1 .. Len(s) \/ i = Len(s) + 1
  BY <1>1
<1>3. m.type # "ASR_DM" /\ (\A i \in 1 .. Len(s) : s[i].type # "ASR_DM") =>
         \A i \in 1 .. Len(t) : t[i].type # "ASR_DM"
  BY <1>1, <1>2
<1> QED BY <1>1, <1>3 DEF t

LEMMA PlainMessage == \A t \in App!AppEv : App!Msg(t) \in Messages /\ App!Msg(t).type = t
  BY DEF App!Msg, Messages

LEMMA EnvironmentStep == ASSUME SystemInv, Environment PROVE SystemInv'
<1>1. /\ UNCHANGED asrVars
      /\ UNCHANGED <<main_pc, call, fsm_stack, handled, q_process, report, infos>>
      /\ \/ q' = q
         \/ \E t \in {"WAKEUP", "PROMPT_COMPLETE"} : q' = Append(q, App!Msg(t))
  BY DEF Environment, App!HearWakeup, App!Player, App!PlayerObeys, App!PlayerDone,
         App!PlayerReports, App!Over, App!appVars, App!mainVars
<1>2. /\ EngineStays' /\ StaysIdle'
      /\ UNCHANGED <<queue, outbox, in, process_pc, vad_pc, ddsh_pc, asr_pc, session, dds_timer>>
  BY <1>1, AsrSame
<1>3. /\ q' \in Seq(Messages)
      /\ (\A i \in 1 .. Len(q) : q[i].type # "ASR_DM") =>
            \A i \in 1 .. Len(q') : q'[i].type # "ASR_DM"
  <2>1. q \in Seq(Messages)
    BY DEF SystemInv, Types
  <2>2. ASSUME NEW t \in {"WAKEUP", "PROMPT_COMPLETE"}
        PROVE  App!Msg(t) \in Messages /\ App!Msg(t).type # "ASR_DM"
    BY PlainMessage DEF App!AppEv
  <2> QED BY <1>1, <2>1, <2>2, MessageComes
<1>4. Types' /\ OneQueue(q_process, queue["q_process"])' /\ CallSends' /\ AtRest'
  BY <1>1, <1>2, <1>3 DEF SystemInv, Types, CallSends, AtRest
<1> QED BY <1>2, <1>4 DEF SystemInv

LEMMA EventSentStep == ASSUME SystemInv, EventSent PROVE SystemInv'
<1>1. /\ UNCHANGED asrVars
      /\ UNCHANGED <<main_pc, call, fsm_stack, handled, q_process, infos>>
      /\ report # {} /\ report' = {}
      /\ \E m \in report : q' = Append(q, m)
  BY DEF EventSent, App!RecogniserReports, App!recogniserRest, App!appVars, App!mainVars
<1>2. /\ EngineStays' /\ StaysIdle'
      /\ UNCHANGED <<queue, outbox, in, process_pc, vad_pc, ddsh_pc, asr_pc, session, dds_timer>>
  BY <1>1, AsrSame
<1>3. q' \in Seq(Messages) /\ handled # 0
  BY <1>1, MessageComes DEF SystemInv, Types, AtRest
<1>4. Types' /\ OneQueue(q_process, queue["q_process"])' /\ CallSends' /\ AtRest'
  BY <1>1, <1>2, <1>3 DEF SystemInv, Types, CallSends, AtRest
<1> QED BY <1>2, <1>4 DEF SystemInv

LEMMA ReportedMessages ==
    ASSUME NEW ev PROVE \A r \in Reported(ev) : r \subseteq Messages
<1>1. \A t \in {"ASR_ERROR", "ASR_OVER"} : App!Msg(t) \in Messages
  BY PlainMessage DEF App!AppEv
<1>2. \A r \in Results : [type |-> "ASR_DM", result |-> r] \in Messages
  BY DEF Messages, App!AppEv
<1> QED BY <1>1, <1>2 DEF Reported

\* In full duplex process leaves IDLE for no message it gets.
LEMMA FullReceives ==
    ASSUME Asr!Process, process_pc = "read", state = "IDLE",
           Head(queue["q_process"]) \notin HalfOnly
    PROVE  /\ state' = "IDLE"
           /\ \/ process_pc' = "read"
              \/ process_pc' = "send_ddsh" /\ in' = "CMD_DDS_FULL"
              \/ process_pc' = "wait_vad" /\ in' = "CMD_ASR_STOP"
<1> USE DEF Asr!Receive, Asr!Return, Asr!BlockAt, Asr!Received, HalfOnly
<1>1. ~(Asr!VadRunWhenIdle \/ Asr!VadRunWhenSpeeching \/ Asr!VadRunWhenWaitForAsr)
  BY DEF Asr!VadRunWhenIdle, Asr!VadRunWhenSpeeching, Asr!VadRunWhenWaitForAsr
<1>2. ~(Asr!AsrRunWhenSpeeching \/ Asr!AsrRunWhenWaitForAsr \/ Asr!AsrStop \/ Asr!AsrReset)
  BY DEF Asr!AsrRunWhenSpeeching, Asr!AsrRunWhenWaitForAsr, Asr!AsrStop, Asr!AsrReset
<1>3. ~(Asr!SpeechBeginWhenSpeeching \/ Asr!Result \/ Asr!Failure)
  BY DEF Asr!SpeechBeginWhenSpeeching, Asr!Result, Asr!Failure
<1>4. ~(Asr!SendVad \/ Asr!SendEngine \/ Asr!VadWaitOver \/ Asr!EngineWaitOver \/ Asr!SendSelf)
  BY DEF Asr!SendVad, Asr!SendEngine, Asr!VadWaitOver, Asr!EngineWaitOver, Asr!SendSelf
<1>5. CASE Asr!DdsFullWhenIdle
  BY <1>5 DEF Asr!DdsFullWhenIdle
<1>6. CASE Asr!AsrStopWhenIdle
  BY <1>6 DEF Asr!AsrStopWhenIdle
<1>7. CASE Asr!ResultWhenIdle \/ Asr!NetworkUpdate \/ Asr!Refused
  BY <1>7 DEF Asr!ResultWhenIdle, Asr!NetworkUpdate, Asr!Refused
<1> QED BY <1>1, <1>2, <1>3, <1>4, <1>5, <1>6, <1>7 DEF Asr!Process

LEMMA ProcessReceivesStep == ASSUME SystemInv, ProcessReceives PROVE SystemInv'
<1>1. /\ process_pc = "read" /\ Asr!Process /\ q_process' = Tail(q_process)
      /\ report' \in Reported(event')
      /\ UNCHANGED <<main_pc, call, q, handled, infos>>
  BY DEF ProcessReceives, appRest
<1>2. /\ queue["q_process"] # <<>>
      /\ queue' = [queue EXCEPT !["q_process"] = Tail(@)]
      /\ UNCHANGED <<outbox, session, dds_timer, dds_type, net_pc, vad_pc, ddsh_pc, asr_pc>>
      /\ asr_type' \in {asr_type, "DUI"}
      /\ in' \in {Head(queue["q_process"]), Asr!NoMsg}
      /\ process_pc' # "read" => in' = Head(queue["q_process"])
  BY <1>1, Received
<1>3. /\ q_process \in Seq(Kinds) /\ queue["q_process"] \in Seq(Asr!Msg)
      /\ OneQueue(q_process, queue["q_process"])
      /\ queue \in [Asr!Queues -> Seq(Asr!Msg)] /\ "q_process" \in Asr!Queues
  BY DEF SystemInv, Types, Asr!Queues
<1> DEFINE ms == queue["q_process"]
<1>4. /\ Tail(q_process) \in Seq(Kinds) /\ Tail(ms) \in Seq(Asr!Msg)
      /\ OneQueue(Tail(q_process), Tail(ms)) /\ Head(ms) = ms[1]
      /\ \A i \in 1 .. Len(Tail(ms)) : i + 1 \in 1 .. Len(ms) /\ Tail(ms)[i] = ms[i + 1]
      /\ 1 \in 1 .. Len(ms)
  BY <1>2, <1>3, QueueLoses
<1>5. Head(ms) \in Asr!Msg
  BY <1>2, <1>3, HeadTailProperties
<1>6. queue' \in [Asr!Queues -> Seq(Asr!Msg)] /\ queue'["q_process"] = Tail(ms)
  BY <1>2, <1>3, <1>4
<1>7. Types'
  <2>1. report' \subseteq Messages
    BY <1>1, ReportedMessages
  <2> QED BY <1>1, <1>2, <1>4, <1>5, <1>6, <2>1 DEF SystemInv, Types
<1>8. EngineStays' /\ CallSends' /\ OneQueue(q_process, queue["q_process"])'
  BY <1>1, <1>2, <1>4, <1>6 DEF SystemInv, EngineStays, CallSends
<1>9. StaysIdle'
  <2> SUFFICES ASSUME Duplex = "FULL" PROVE StaysIdle'
    BY DEF StaysIdle
  <2>1. /\ state = "IDLE" /\ \A i \in 1 .. Len(ms) : ms[i] \notin HalfOnly
        /\ \A s \in Asr!Sender : outbox[s] \notin HalfOnly
    BY DEF SystemInv, StaysIdle
  <2>2. Head(ms) \notin HalfOnly /\ \A i \in 1 .. Len(Tail(ms)) : Tail(ms)[i] \notin HalfOnly
    BY <1>4, <2>1
  <2>3. /\ state' = "IDLE"
        /\ \/ process_pc' = "read"
           \/ process_pc' = "send_ddsh" /\ in' = "CMD_DDS_FULL"
           \/ process_pc' = "wait_vad" /\ in' = "CMD_ASR_STOP"
    BY <1>1, <2>1, <2>2, FullReceives
  <2> QED BY <1>2, <1>6, <2>1, <2>2, <2>3 DEF StaysIdle
<1>10. AtRest'
  BY <1>1, <1>2, <1>3 DEF SystemInv, AtRest
<1> QED BY <1>7, <1>8, <1>9, <1>10 DEF SystemInv

LEMMA ProcessSendsSelfStep == ASSUME SystemInv, ProcessSendsSelf PROVE SystemInv'
<1> DEFINE m == IF in = "CMD_ASR_RESET" THEN "CMD_VAD_RUN" ELSE "CMD_ASR_RUN"
<1>1. /\ process_pc = "send_self" /\ process_pc' = "read"
      /\ queue' = [queue EXCEPT !["q_process"] = Append(@, m)]
      /\ q_process' = Append(q_process, "info") /\ infos' = infos + 1
      /\ in' = Asr!NoMsg /\ UNCHANGED <<outbox, asr_type, dds_type, net_pc>>
      /\ UNCHANGED <<main_pc, call, q, handled, report>>
  BY DEF ProcessSendsSelf, Asr!SendSelf, Asr!Push, Asr!Return, Asr!engineVars, Asr!threadVars,
         appRest
<1>2. Duplex # "FULL" /\ handled # 0
  BY <1>1 DEF SystemInv, StaysIdle, AtRest
<1>3. m \in Asr!Msg /\ "info" \in Kinds /\ SentAs("info", m)
  BY DEF Asr!Msg, Kinds, SentAs
<1> HIDE DEF m
<1>4. /\ q_process' \in Seq(Kinds) /\ queue' \in [Asr!Queues -> Seq(Asr!Msg)]
      /\ OneQueue(q_process', queue'["q_process"])
  BY <1>1, <1>2, <1>3, Gains
<1>5. Types' /\ EngineStays' /\ CallSends'
  BY <1>1, <1>4 DEF SystemInv, Types, EngineStays, CallSends
<1>6. StaysIdle' /\ AtRest'
  BY <1>1, <1>2 DEF StaysIdle, AtRest
<1> QED BY <1>4, <1>5, <1>6 DEF SystemInv

\* The queues of the other threads.
LEMMA OtherGains ==
    ASSUME queue \in [Asr!Queues -> Seq(Asr!Msg)], NEW n \in Asr!Queues \ {"q_process"},
           NEW m \in Asr!Msg, Asr!Push(n, m)
    PROVE  queue' \in [Asr!Queues -> Seq(Asr!Msg)] /\ queue'["q_process"] = queue["q_process"]
<1>1. Append(queue[n], m) \in Seq(Asr!Msg)
  OBVIOUS
<1> QED BY <1>1 DEF Asr!Push, Asr!Queues

LEMMA OtherLoses ==
    ASSUME queue \in [Asr!Queues -> Seq(Asr!Msg)], NEW n \in Asr!Queues \ {"q_process"},
           queue[n] # <<>>, Asr!Pop(n)
    PROVE  queue' \in [Asr!Queues -> Seq(Asr!Msg)] /\ queue'["q_process"] = queue["q_process"]
<1>1. Tail(queue[n]) \in Seq(Asr!Msg)
  BY HeadTailProperties
<1> QED BY <1>1 DEF Asr!Pop, Asr!Queues

\* The rest of a handler leaves q_process alone.
LEMMA HandlerGoesOn ==
    ASSUME SystemInv, Asr!Process, process_pc \notin {"read", "send_self"}
    PROVE  queue' \in [Asr!Queues -> Seq(Asr!Msg)] /\ queue'["q_process"] = queue["q_process"]
<1>1. queue \in [Asr!Queues -> Seq(Asr!Msg)]
  BY DEF SystemInv, Types
<1>2. CASE Asr!SendVad \/ Asr!SendEngine
  <2>1. \E n \in Asr!Queues \ {"q_process"} : Asr!Push(n, in)
    BY <1>2 DEF Asr!SendVad, Asr!SendEngine, Asr!Queues
  <2>2. in \in Asr!Msg
    BY DEF SystemInv, Types
  <2> QED BY <1>1, <2>1, <2>2, OtherGains
<1>3. CASE Asr!VadWaitOver \/ Asr!EngineWaitOver
  BY <1>1, <1>3 DEF Asr!VadWaitOver, Asr!EngineWaitOver
<1> QED BY <1>2, <1>3 DEF Asr!Process, Asr!VadRunWhenIdle, Asr!VadRunWhenSpeeching,
         Asr!VadRunWhenWaitForAsr, Asr!DdsFullWhenIdle, Asr!AsrRunWhenSpeeching,
         Asr!AsrRunWhenWaitForAsr, Asr!AsrStop, Asr!AsrStopWhenIdle, Asr!AsrReset,
         Asr!SpeechBeginWhenSpeeching, Asr!SendSelf, Asr!Result, Asr!ResultWhenIdle, Asr!Failure,
         Asr!NetworkUpdate, Asr!Refused, Asr!Receive

LEMMA ProcessGoesOnStep == ASSUME SystemInv, ProcessGoesOn PROVE SystemInv'
<1>1. /\ process_pc \notin {"read", "send_self"} /\ Asr!Process
      /\ UNCHANGED <<main_pc, call, q, handled, fsm_stack, report, q_process, infos>>
  BY DEF ProcessGoesOn, appVars, appRest
<1>2. /\ UNCHANGED <<outbox, asr_type, dds_type, net_pc>>
      /\ in' \in {in, Asr!NoMsg} /\ (process_pc' # "read" => in' = in)
  BY <1>1, GoesOn
<1>3. queue' \in [Asr!Queues -> Seq(Asr!Msg)] /\ queue'["q_process"] = queue["q_process"]
  BY <1>1, HandlerGoesOn
<1>4. Types' /\ EngineStays' /\ CallSends' /\ OneQueue(q_process, queue["q_process"])'
  BY <1>1, <1>2, <1>3 DEF SystemInv, Types, EngineStays, CallSends
<1>5. AtRest'
  BY <1>1 DEF SystemInv, AtRest
<1>6. Duplex = "FULL" => state' = "IDLE" /\ process_pc' = "read"
  <2> SUFFICES ASSUME Duplex = "FULL" PROVE state' = "IDLE" /\ process_pc' = "read"
    OBVIOUS
  <2>1. \/ process_pc = "send_ddsh" /\ in = "CMD_DDS_FULL"
        \/ process_pc = "wait_vad" /\ in = "CMD_ASR_STOP"
    BY <1>1 DEF SystemInv, StaysIdle
  <2>2. Asr!SendEngine \/ Asr!VadWaitOver
    BY <1>1, <2>1 DEF Asr!Process, Asr!VadRunWhenIdle, Asr!VadRunWhenSpeeching,
         Asr!VadRunWhenWaitForAsr, Asr!DdsFullWhenIdle, Asr!AsrRunWhenSpeeching,
         Asr!AsrRunWhenWaitForAsr, Asr!AsrStop, Asr!AsrStopWhenIdle, Asr!AsrReset,
         Asr!SpeechBeginWhenSpeeching, Asr!SendSelf, Asr!Result, Asr!ResultWhenIdle, Asr!Failure,
         Asr!NetworkUpdate, Asr!Refused, Asr!Receive, Asr!SendVad, Asr!EngineWaitOver
  <2> QED BY <2>1, <2>2 DEF Asr!SendEngine, Asr!VadWaitOver, Asr!Return, Asr!ReleaseAndReturn
<1>7. StaysIdle'
  BY <1>2, <1>3, <1>6 DEF SystemInv, StaysIdle
<1> QED BY <1>4, <1>5, <1>7 DEF SystemInv

\* What a thread's step does to its queue and its outbox.
ThreadEffect ==
    /\ queue' \in [Asr!Queues -> Seq(Asr!Msg)] /\ queue'["q_process"] = queue["q_process"]
    /\ \/ outbox' = outbox
       \/ \E s \in Asr!Sender \ {"app"}, m \in Asr!Msg :
             /\ outbox' = [outbox EXCEPT ![s] = m]
             /\ Duplex = "FULL" => m \notin HalfOnly
    /\ UNCHANGED <<state, process_pc, in, asr_type, dds_type, net_pc>>
    /\ handled # 0

LEMMA Posts ==
    ASSUME NEW s \in {"timer", "vad", "asr", "dds"}, NEW m \in Asr!Msg \ HalfOnly, Asr!Post(s, m)
    PROVE  \E r \in Asr!Sender \ {"app"}, n \in Asr!Msg :
             /\ outbox' = [outbox EXCEPT ![r] = n]
             /\ Duplex = "FULL" => n \notin HalfOnly
<1>1. s \in Asr!Sender \ {"app"} /\ outbox' = [outbox EXCEPT ![s] = m] /\ m \notin HalfOnly
  BY DEF Asr!Sender, Asr!Post
<1> QED BY <1>1

LEMMA ThreadGoes == ASSUME SystemInv, ThreadGoesOn PROVE ThreadEffect
<1>1. queue \in [Asr!Queues -> Seq(Asr!Msg)]
  BY DEF SystemInv, Types
<1>2. {"CMD_ASR_STOP", "INFO_SPEECH_BEGIN", "INFO_SPEECH_BEGIN_TIMEOUT", "INFO_SPEECH_END_TIMEOUT",
       "INFO_ASR_LOCAL", "INFO_ASR_FULL_DM", "INFO_ASR_ERROR"} \subseteq Asr!Msg \ HalfOnly
  BY DEF Asr!Msg, HalfOnly
<1>3. {"q_vad", "q_asr", "q_dds_helper"} \subseteq Asr!Queues \ {"q_process"}
  BY DEF Asr!Queues
<1>4. CASE Asr!TimerExpires
  <2>1. handled # 0
    BY <1>4 DEF Asr!TimerExpires, SystemInv, AtRest
  <2>2. /\ Asr!Post("timer", "CMD_ASR_STOP") /\ UNCHANGED queue
        /\ UNCHANGED <<state, process_pc, in, asr_type, dds_type, net_pc>>
    BY <1>4 DEF Asr!TimerExpires, Asr!processVars, Asr!engineVars
  <2> QED BY <1>1, <1>2, <2>1, <2>2, Posts DEF ThreadEffect
<1>5. CASE Asr!Vad
  <2>1. UNCHANGED <<state, process_pc, in, asr_type, dds_type, net_pc>>
    BY <1>5 DEF Asr!Vad, Asr!VadReceive, Asr!VadAborted, Asr!VadSpeech, Asr!VadSilence,
                Asr!VadTimeout, Asr!VadRunOver, Asr!vadRest, Asr!processVars, Asr!engineVars
  <2>2. handled # 0
    BY <1>3, <1>5 DEF SystemInv, AtRest, Asr!Vad, Asr!VadReceive, Asr!VadAborted, Asr!VadSpeech,
                Asr!VadSilence, Asr!VadTimeout, Asr!VadRunOver
  <2>3. \/ Asr!Pop("q_vad") /\ queue["q_vad"] # <<>>
        \/ UNCHANGED queue
    BY <1>5 DEF Asr!Vad, Asr!VadReceive, Asr!VadAborted, Asr!VadSpeech, Asr!VadSilence,
                Asr!VadTimeout, Asr!VadRunOver
  <2>4. \/ UNCHANGED outbox
        \/ \E m \in Asr!Msg \ HalfOnly : Asr!Post("vad", m)
    BY <1>2, <1>5 DEF Asr!Vad, Asr!VadReceive, Asr!VadAborted, Asr!VadSpeech, Asr!VadSilence,
                Asr!VadTimeout, Asr!VadRunOver
  <2>5. queue' \in [Asr!Queues -> Seq(Asr!Msg)] /\ queue'["q_process"] = queue["q_process"]
    BY <1>1, <1>3, <2>3, OtherLoses
  <2> QED BY <2>1, <2>2, <2>4, <2>5, Posts DEF ThreadEffect
<1>6. CASE Asr!Ddsh
  <2>1. UNCHANGED <<state, process_pc, in, asr_type, dds_type, net_pc, outbox>>
    BY <1>6 DEF Asr!Ddsh, Asr!DdshReceive, Asr!DdshHalfOver, Asr!DdshFullOver, Asr!ddshRest,
                Asr!processVars, Asr!engineVars
  <2>2. handled # 0
    BY <1>3, <1>6 DEF SystemInv, AtRest, Asr!Ddsh, Asr!DdshReceive, Asr!DdshHalfOver,
                Asr!DdshFullOver
  <2>3. \/ Asr!Pop("q_dds_helper") /\ queue["q_dds_helper"] # <<>>
        \/ UNCHANGED queue
    BY <1>6 DEF Asr!Ddsh, Asr!DdshReceive, Asr!DdshHalfOver, Asr!DdshFullOver
  <2>4. queue' \in [Asr!Queues -> Seq(Asr!Msg)] /\ queue'["q_process"] = queue["q_process"]
    BY <1>1, <1>3, <2>3, OtherLoses
  <2> QED BY <2>1, <2>2, <2>4 DEF ThreadEffect
<1>7. CASE Asr!Asr
  <2>1. UNCHANGED <<state, process_pc, in, asr_type, dds_type, net_pc>>
    BY <1>7 DEF Asr!Asr, Asr!AsrReceive, Asr!AsrCancel, Asr!AsrFinish, Asr!AsrDone, Asr!asrRest,
                Asr!processVars, Asr!engineVars
  <2>2. handled # 0
    BY <1>3, <1>7 DEF SystemInv, AtRest, Asr!Asr, Asr!AsrReceive, Asr!AsrCancel, Asr!AsrFinish,
                Asr!AsrDone
  <2>3. \/ Asr!Pop("q_asr") /\ queue["q_asr"] # <<>>
        \/ UNCHANGED queue
    BY <1>7 DEF Asr!Asr, Asr!AsrReceive, Asr!AsrCancel, Asr!AsrFinish, Asr!AsrDone
  <2>4. \/ UNCHANGED outbox
        \/ Asr!Post("asr", "INFO_ASR_LOCAL")
    BY <1>7 DEF Asr!Asr, Asr!AsrReceive, Asr!AsrCancel, Asr!AsrFinish, Asr!AsrDone
  <2>5. queue' \in [Asr!Queues -> Seq(Asr!Msg)] /\ queue'["q_process"] = queue["q_process"]
    BY <1>1, <1>3, <2>3, OtherLoses
  <2> QED BY <1>2, <2>1, <2>2, <2>4, <2>5, Posts DEF ThreadEffect
<1>8. CASE Asr!Dds
  <2>1. /\ UNCHANGED queue
        /\ UNCHANGED <<state, process_pc, in, asr_type, dds_type, net_pc>>
    BY <1>8 DEF Asr!Dds, Asr!DdsResponse, Asr!DdsVadResult, Asr!DdsError, Asr!ddsRest,
                Asr!processVars, Asr!engineVars
  <2>2. handled # 0
    BY <1>8 DEF SystemInv, AtRest, Asr!Dds, Asr!DdsResponse, Asr!DdsVadResult, Asr!DdsError
  <2>3. \/ \E m \in {"CMD_ASR_STOP", "INFO_ASR_FULL_DM", "INFO_ASR_ERROR"} : Asr!Post("dds", m)
        \/ Duplex # "FULL" /\ Asr!Post("dds", "INFO_ASR_DM")
    BY <1>8 DEF SystemInv, EngineStays, Asr!Dds, Asr!DdsResponse, Asr!DdsVadResult,
                Asr!DdsError, Asr!Reply
  <2>4. CASE \E m \in {"CMD_ASR_STOP", "INFO_ASR_FULL_DM", "INFO_ASR_ERROR"} : Asr!Post("dds", m)
    BY <1>1, <1>2, <2>1, <2>2, <2>4, Posts DEF ThreadEffect
  <2>5. CASE Duplex # "FULL" /\ Asr!Post("dds", "INFO_ASR_DM")
    <3>1. /\ "dds" \in Asr!Sender \ {"app"} /\ "INFO_ASR_DM" \in Asr!Msg
          /\ outbox' = [outbox EXCEPT !["dds"] = "INFO_ASR_DM"]
      BY <2>5 DEF Asr!Post, Asr!Sender, Asr!Msg
    <3> QED BY <1>1, <2>1, <2>2, <2>5, <3>1 DEF ThreadEffect
  <2> QED BY <2>3, <2>4, <2>5
<1> QED BY <1>4, <1>5, <1>6, <1>7, <1>8 DEF ThreadGoesOn

LEMMA ThreadGoesOnStep == ASSUME SystemInv, ThreadGoesOn PROVE SystemInv'
<1>1. ThreadEffect
  BY ThreadGoes
<1>2. UNCHANGED <<main_pc, call, q, handled, fsm_stack, report, q_process, infos>>
  BY DEF ThreadGoesOn, appVars, appRest
<1>3. /\ outbox' \in [Asr!Sender -> Asr!Msg \cup {Asr!OpenRing, Asr!NoMsg}]
      /\ outbox'["app"] = outbox["app"]
      /\ Duplex = "FULL" => \A s \in Asr!Sender : outbox'[s] \notin HalfOnly
  <2>1. /\ outbox \in [Asr!Sender -> Asr!Msg \cup {Asr!OpenRing, Asr!NoMsg}]
        /\ Duplex = "FULL" => \A s \in Asr!Sender : outbox[s] \notin HalfOnly
    BY DEF SystemInv, Types, StaysIdle
  <2>2. CASE outbox' = outbox
    BY <2>1, <2>2
  <2>3. ASSUME NEW s \in Asr!Sender \ {"app"}, NEW m \in Asr!Msg,
               outbox' = [outbox EXCEPT ![s] = m],
               Duplex = "FULL" => m \notin HalfOnly
        PROVE  /\ outbox' \in [Asr!Sender -> Asr!Msg \cup {Asr!OpenRing, Asr!NoMsg}]
               /\ outbox'["app"] = outbox["app"]
               /\ Duplex = "FULL" => \A r \in Asr!Sender : outbox'[r] \notin HalfOnly
    <3>1. \A r \in Asr!Sender : outbox'[r] = IF r = s THEN m ELSE outbox[r]
      BY <2>1, <2>3
    <3>2. "app" \in Asr!Sender
      BY DEF Asr!Sender
    <3> QED BY <2>1, <2>3, <3>1, <3>2
  <2> QED BY <1>1, <2>2, <2>3 DEF ThreadEffect
<1>4. Types' /\ EngineStays' /\ CallSends' /\ OneQueue(q_process, queue["q_process"])'
  BY <1>1, <1>2, <1>3 DEF ThreadEffect, SystemInv, Types, EngineStays, CallSends
<1>5. AtRest'
  BY <1>1, <1>2 DEF ThreadEffect, AtRest
<1>6. StaysIdle'
  BY <1>1, <1>3 DEF ThreadEffect, SystemInv, StaysIdle
<1> QED BY <1>4, <1>5, <1>6 DEF SystemInv

LEMMA SystemInit == Init => SystemInv
<1> SUFFICES ASSUME Init PROVE SystemInv
  OBVIOUS
<1>1. App!Init /\ Asr!Init
  BY DEF Init
<1>2. Types
  BY <1>1 DEF App!Init, Asr!Init, Types, Asr!Queues, Asr!Sender
<1>3. EngineStays
  BY <1>1 DEF Asr!Init, EngineStays
<1>4. OneQueue(q_process, queue["q_process"])
  BY <1>1 DEF App!Init, Asr!Init, OneQueue, Asr!Queues
<1>5. CallSends
  BY <1>1 DEF Asr!Init, CallSends, Asr!Sender, Asr!NoMsg, Asr!Msg
<1>6. StaysIdle
  BY <1>1 DEF Asr!Init, StaysIdle, Asr!Queues, Asr!Sender, Asr!NoMsg, HalfOnly
<1>7. AtRest
  BY <1>1 DEF App!Init, Asr!Init, AtRest, Asr!Queues, Asr!Sender
<1> QED BY <1>2, <1>3, <1>4, <1>5, <1>6, <1>7 DEF SystemInv

LEMMA SystemStutters == ASSUME SystemInv, UNCHANGED systemVars PROVE SystemInv'
<1>1. /\ UNCHANGED asrVars
      /\ UNCHANGED <<main_pc, call, q, handled, fsm_stack, report, q_process, infos>>
  BY DEF systemVars, appVars, appRest
<1>2. /\ EngineStays' /\ StaysIdle'
      /\ UNCHANGED <<queue, outbox, in, process_pc, vad_pc, ddsh_pc, asr_pc, session, dds_timer>>
  BY <1>1, AsrSame
<1>3. Types' /\ OneQueue(q_process, queue["q_process"])' /\ CallSends' /\ AtRest'
  BY <1>1, <1>2 DEF SystemInv, Types, CallSends, AtRest
<1> QED BY <1>2, <1>3 DEF SystemInv

LEMMA SystemStep == SystemInv /\ [Next]_systemVars => SystemInv'
<1> SUFFICES ASSUME SystemInv, [Next]_systemVars PROVE SystemInv'
  OBVIOUS
<1>1. CASE MainAlone \/ MainCalls \/ MainSends \/ MainOpensRing \/ Environment
  BY <1>1, MainAloneStep, MainCallsStep, MainSendsStep, MainOpensRingStep, EnvironmentStep
<1>2. CASE ProcessReceives \/ ProcessSendsSelf \/ ProcessGoesOn
  BY <1>2, ProcessReceivesStep, ProcessSendsSelfStep, ProcessGoesOnStep
<1>3. CASE ThreadSends \/ ThreadGoesOn \/ EventSent
  BY <1>3, SenderSendsStep, ThreadGoesOnStep, EventSentStep DEF ThreadSends
<1>4. CASE UNCHANGED systemVars
  BY <1>4, SystemStutters
<1> QED BY <1>1, <1>2, <1>3, <1>4 DEF Next
-------------------------------------------------------------------------------
(***************************************************************************)
(* Each step of the two together is a step of the application with its     *)
(* reduced recogniser, or one that the application does not see.           *)
(***************************************************************************)
\* What an event says of the message that process has handled.
LEMMA EventOf ==
    ASSUME Asr!Process, process_pc = "read"
    PROVE  LET m == Head(queue["q_process"]) IN
           \/ event' = "none"
           \/ event' = "CMD_IGNORE" /\ m = "CMD_VAD_RUN" /\ state # "IDLE"
           \/ event' \in {"ASR_EV_DM", "ASR_EV_TIMEOUT"} /\ m = "INFO_ASR_DM"
           \/ event' = "ASR_EV_DM" /\ m = "INFO_ASR_FULL_DM"
           \/ /\ event' \in {"ASR_EV_LOCAL", "ASR_EV_ERROR", "ASR_VAD_BEGIN_TIMEOUT"}
              /\ m \in {"INFO_ASR_LOCAL", "INFO_ASR_ERROR", "INFO_SPEECH_BEGIN_TIMEOUT"}
              /\ state # "IDLE"
<1> USE DEF Asr!Receive, Asr!Return, Asr!BlockAt, Asr!Received, Asr!ReleaseAndReturn, Asr!NoMsg
<1>1. CASE Asr!VadRunWhenIdle \/ Asr!VadRunWhenSpeeching \/ Asr!VadRunWhenWaitForAsr
  BY <1>1 DEF Asr!VadRunWhenIdle, Asr!VadRunWhenSpeeching, Asr!VadRunWhenWaitForAsr
<1>2. CASE Asr!DdsFullWhenIdle \/ Asr!AsrRunWhenSpeeching \/ Asr!AsrRunWhenWaitForAsr
  BY <1>2 DEF Asr!DdsFullWhenIdle, Asr!AsrRunWhenSpeeching, Asr!AsrRunWhenWaitForAsr
<1>3. CASE Asr!AsrStop \/ Asr!AsrStopWhenIdle \/ Asr!AsrReset
  BY <1>3 DEF Asr!AsrStop, Asr!AsrStopWhenIdle, Asr!AsrReset, Asr!EndEngineRing
<1>4. CASE Asr!SpeechBeginWhenSpeeching \/ Asr!NetworkUpdate \/ Asr!Refused
  BY <1>4 DEF Asr!SpeechBeginWhenSpeeching, Asr!NetworkUpdate, Asr!Refused
<1>5. CASE Asr!Result \/ Asr!ResultWhenIdle
  BY <1>5 DEF Asr!Result, Asr!ResultWhenIdle, Asr!DmEvent
<1>6. CASE Asr!Failure
  BY <1>6 DEF Asr!Failure
<1>7. ~(Asr!SendVad \/ Asr!SendEngine \/ Asr!VadWaitOver \/ Asr!EngineWaitOver \/ Asr!SendSelf)
  BY DEF Asr!SendVad, Asr!SendEngine, Asr!VadWaitOver, Asr!EngineWaitOver, Asr!SendSelf
<1> QED BY <1>1, <1>2, <1>3, <1>4, <1>5, <1>6, <1>7 DEF Asr!Process

LEMMA ReportAllowed ==
    ASSUME NEW k \in Kinds, NEW ev, NEW r \in Reported(ev),
           \/ ev = "none"
           \/ k = "info" /\ ev = "ASR_EV_DM"
           \/ k = "info" /\ Duplex # "FULL"
           \/ k = "start" /\ Duplex # "FULL" /\ ev = "CMD_IGNORE"
    PROVE  r \in App!ReportsFor(k)
<1>1. CASE ev = "none"
  BY <1>1 DEF Reported, App!ReportsFor
<1>2. CASE k = "info" /\ ev = "ASR_EV_DM"
  <2>1. PICK s \in Results : r = {[type |-> "ASR_DM", result |-> s]}
    BY <1>2 DEF Reported
  <2>2. [type |-> "ASR_DM", result |-> s] \in App!Reports
    BY DEF App!Reports
  <2> QED BY <1>2, <2>1, <2>2 DEF App!ReportsFor
<1>3. CASE k = "info" /\ Duplex # "FULL" /\ ev # "none" /\ ev # "ASR_EV_DM"
  <2>1. r = {App!Msg("ASR_ERROR")} \/ r = {App!Msg("ASR_OVER")}
    BY <1>3 DEF Reported
  <2>2. {App!Msg("ASR_ERROR"), App!Msg("ASR_OVER")} \subseteq App!Reports
    BY <1>3 DEF App!Reports, App!OnlyResults
  <2> QED BY <1>3, <2>1, <2>2 DEF App!ReportsFor
<1>4. CASE k = "start" /\ Duplex # "FULL" /\ ev = "CMD_IGNORE"
  BY <1>4 DEF Reported, App!ReportsFor, App!OnlyResults
<1> QED BY <1>1, <1>2, <1>3, <1>4

LEMMA ReceivesIsHandles ==
    ASSUME SystemInv, ProcessReceives PROVE App!RecogniserHandles
<1>1. /\ process_pc = "read" /\ report = {} /\ Asr!Process /\ q_process' = Tail(q_process)
      /\ report' \in Reported(event') /\ UNCHANGED <<appRest, infos>>
  BY DEF ProcessReceives
<1> DEFINE m == Head(queue["q_process"])  k == Head(q_process)
<1>2. queue["q_process"] # <<>> /\ queue["q_process"] \in Seq(Asr!Msg)
  BY <1>1, Received DEF SystemInv, Types, Asr!Queues
<1>3. q_process # <<>> /\ k \in Kinds /\ SentAs(k, m)
      /\ m = queue["q_process"][1] /\ 1 \in 1 .. Len(queue["q_process"])
  BY <1>2, QueueLoses DEF SystemInv, Types
<1>4. Duplex = "FULL" => state = "IDLE" /\ m \notin HalfOnly
  BY <1>3 DEF SystemInv, StaysIdle
<1>5. \/ event' = "none"
      \/ event' = "CMD_IGNORE" /\ m = "CMD_VAD_RUN" /\ state # "IDLE"
      \/ event' \in {"ASR_EV_DM", "ASR_EV_TIMEOUT"} /\ m = "INFO_ASR_DM"
      \/ event' = "ASR_EV_DM" /\ m = "INFO_ASR_FULL_DM"
      \/ /\ event' \in {"ASR_EV_LOCAL", "ASR_EV_ERROR", "ASR_VAD_BEGIN_TIMEOUT"}
         /\ m \in {"INFO_ASR_LOCAL", "INFO_ASR_ERROR", "INFO_SPEECH_BEGIN_TIMEOUT"}
         /\ state # "IDLE"
  BY <1>1, EventOf
<1>6. \/ event' = "none"
      \/ k = "info" /\ event' = "ASR_EV_DM"
      \/ k = "info" /\ Duplex # "FULL"
      \/ k = "start" /\ Duplex # "FULL" /\ event' = "CMD_IGNORE"
  <2> HIDE DEF m, k
  <2> QED BY <1>3, <1>4, <1>5 DEF SentAs, HalfOnly
<1>7. report' \in App!ReportsFor(k)
  BY <1>1, <1>3, <1>6, ReportAllowed
<1> QED BY <1>1, <1>3, <1>7 DEF App!RecogniserHandles, App!recogniserRest, App!appVars,
            App!mainVars, App!playerVars, appRest

\* Both views of q_process have the same room.
LEMMA SameRoom == ASSUME SystemInv PROVE Len(q_process) = Len(queue["q_process"])
  BY DEF SystemInv, OneQueue

\* A message that the recogniser sends itself.
LEMMA SendsInfo ==
    ASSUME SystemInv, MaxInfos \in Nat, infos' <= MaxInfos, handled # 0,
           Asr!Room("q_process"), q_process' = Append(q_process, "info"), infos' = infos + 1,
           UNCHANGED <<appRest, report>>
    PROVE  App!RecogniserInfo
<1>1. handled > 0 /\ infos < MaxInfos
  BY DEF SystemInv, Types
<1>2. Len(q_process) < Cap["q_process"]
  BY SameRoom DEF Asr!Room
<1> QED BY <1>1, <1>2 DEF App!RecogniserInfo, App!recogniserRest, App!appVars, App!mainVars,
            App!playerVars, appRest

LEMMA SelfIsInfo ==
    ASSUME SystemInv, MaxInfos \in Nat, infos' <= MaxInfos, ProcessSendsSelf
    PROVE  App!RecogniserInfo
<1>1. /\ Asr!Room("q_process") /\ q_process' = Append(q_process, "info") /\ infos' = infos + 1
      /\ UNCHANGED <<appRest, report>> /\ process_pc = "send_self"
  BY DEF ProcessSendsSelf, Asr!SendSelf
<1>2. handled # 0
  BY <1>1 DEF SystemInv, AtRest
<1> QED BY <1>1, <1>2, SendsInfo

LEMMA SenderIsInfo ==
    ASSUME SystemInv, MaxInfos \in Nat, infos' <= MaxInfos,
           NEW s \in Asr!Sender \ {"app"}, SenderSends(s)
    PROVE  App!RecogniserInfo
<1>1. /\ Asr!Room("q_process") /\ q_process' = Append(q_process, "info") /\ infos' = infos + 1
      /\ UNCHANGED <<appRest, report>> /\ outbox[s] \in Asr!Msg
  BY DEF SenderSends, Asr!Send
<1>2. handled # 0
  BY <1>1 DEF SystemInv, AtRest, Asr!Msg, Asr!NoMsg
<1> QED BY <1>1, <1>2, SendsInfo

\* What the application does not see.
LEMMA Unseen == ASSUME UNCHANGED appVars PROVE UNCHANGED App!vars
  BY DEF appVars, appRest, App!vars, App!mainVars, App!playerVars

LEMMA AppStep ==
    ASSUME SystemInv, MaxInfos \in Nat, infos' <= MaxInfos, [Next]_systemVars
    PROVE  [App!Next]_(App!vars)
<1>1. CASE MainAlone
  BY <1>1 DEF MainAlone, App!Next, App!Main
<1>2. CASE MainCalls \/ MainOpensRing \/ ProcessGoesOn \/ ThreadGoesOn
  BY <1>2, Unseen DEF MainCalls, MainOpensRing, ProcessGoesOn, ThreadGoesOn
<1>3. CASE MainSends
  BY <1>3 DEF MainSends, App!Next, App!Main
<1>4. CASE Environment
  BY <1>4 DEF Environment, App!Next
<1>5. CASE ProcessReceives
  BY <1>5, ReceivesIsHandles DEF App!Next, App!Recogniser
<1>6. CASE ProcessSendsSelf \/ ThreadSends
  BY <1>6, SelfIsInfo, SenderIsInfo DEF ThreadSends, App!Next, App!Recogniser
<1>7. CASE EventSent
  BY <1>7 DEF EventSent, App!Next, App!Recogniser
<1>8. CASE UNCHANGED systemVars
  BY <1>8, Unseen DEF systemVars
<1> QED BY <1>1, <1>2, <1>3, <1>4, <1>5, <1>6, <1>7, <1>8 DEF Next

(***************************************************************************)
(* The application with the whole recogniser does nothing that the         *)
(* application of AppFsm with its reduced recogniser does not: every step  *)
(* of process_run, of the threads vad, ddsh, asr, dds and of the timer is  *)
(* a step of Recogniser or unseen, for every capacity, duplex mode and set *)
(* of results.  MaxInfos bounds AppFsm's count of the recogniser's own     *)
(* messages, no more: the theorem is about the behaviours that stay in it. *)
(***************************************************************************)
THEOREM SystemImplementsApp ==
    ASSUME MaxInfos \in Nat PROVE Spec /\ [](infos <= MaxInfos) => AppSpec
<1>1. Init => App!Init
  BY DEF Init
<1>2. SystemInv /\ (infos <= MaxInfos)' /\ [Next]_systemVars => [App!Next]_(App!vars)
  BY AppStep
<1> QED BY <1>1, <1>2, SystemInit, SystemStep, PTL DEF Spec, AppSpec, App!Spec

(***************************************************************************)
(* In full duplex nothing leads process out of IDLE (it gets no            *)
(* CMD_VAD_RUN, CMD_ASR_RESET or INFO_ASR_DM), as AppFsm takes for granted *)
(* where it lets the recogniser report results only; and both modules      *)
(* speak of one q_process, message by message.                             *)
(***************************************************************************)
THEOREM FullStaysIdle ==
    Spec => [](/\ Duplex = "FULL" => state = "IDLE"
               /\ OneQueue(q_process, queue["q_process"]))
<1>1. SystemInv => /\ Duplex = "FULL" => state = "IDLE"
                   /\ OneQueue(q_process, queue["q_process"])
  BY DEF SystemInv, StaysIdle
<1> QED BY <1>1, SystemInit, SystemStep, PTL DEF Spec
===============================================================================
