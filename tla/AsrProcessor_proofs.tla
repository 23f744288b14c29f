------------------------- MODULE AsrProcessor_proofs -------------------------
(***************************************************************************)
(* Theorems about AsrProcessor, for any capacities of the queues, any      *)
(* number and kind of calls and callbacks, both engines and both duplexes. *)
(***************************************************************************)
EXTENDS AsrProcessor, SequenceTheorems, TLAPS

QueuesOK == /\ queue \in [Queues -> Seq(Msg)]
            /\ \A n \in Queues : Len(queue[n]) <= Cap[n]

\* A message appended to a sequence is in it, with those that were.
LEMMA InAppend ==
    ASSUME NEW S, NEW s \in Seq(S), NEW m \in S, NEW x
    PROVE  In(x, Append(s, m)) <=> In(x, s) \/ x = m
<1>1. /\ Len(s) \in Nat
      /\ Len(Append(s, m)) = Len(s) + 1
      /\ \A i \in 1 .. Len(s) : Append(s, m)[i] = s[i]
      /\ Append(s, m)[Len(s) + 1] = m
  BY AppendProperties, LenProperties
<1>2. ASSUME In(x, Append(s, m)) PROVE In(x, s) \/ x = m
  <2>1. PICK i \in 1 .. Len(s) + 1 : Append(s, m)[i] = x
    BY <1>1, <1>2 DEF In
  <2>2. i \in 1 .. Len(s) \/ i = Len(s) + 1
    BY <1>1
  <2> QED BY <1>1, <2>1, <2>2 DEF In
<1>3. ASSUME In(x, s) PROVE In(x, Append(s, m))
  <2>1. PICK i \in 1 .. Len(s) : s[i] = x
    BY <1>3 DEF In
  <2>2. i \in 1 .. Len(s) + 1 /\ Append(s, m)[i] = x
    BY <1>1, <2>1
  <2> QED BY <1>1, <2>2 DEF In
<1>4. ASSUME x = m PROVE In(x, Append(s, m))
  <2>1. Len(s) + 1 \in 1 .. Len(Append(s, m)) /\ Append(s, m)[Len(s) + 1] = x
    BY <1>1, <1>4
  <2> QED BY <2>1 DEF In
<1> QED BY <1>2, <1>3, <1>4

\* Reading a queue loses no message but the one that is delivered.
LEMMA InTail ==
    ASSUME NEW S, NEW s \in Seq(S), s # <<>>, NEW x, x # Head(s), In(x, s)
    PROVE  In(x, Tail(s))
<1>1. /\ Len(s) \in Nat \ {0}
      /\ Head(s) = s[1]
      /\ Len(Tail(s)) = Len(s) - 1
      /\ \A i \in 1 .. Len(s) - 1 : Tail(s)[i] = s[i + 1]
  BY HeadTailProperties, LenProperties, EmptySeq
<1>2. PICK i \in 1 .. Len(s) : s[i] = x
  BY DEF In
<1>3. i - 1 \in 1 .. Len(s) - 1 /\ i = (i - 1) + 1
  BY <1>1, <1>2
<1>4. Tail(s)[i - 1] = x
  BY <1>1, <1>2, <1>3
<1> QED BY <1>1, <1>3, <1>4 DEF In

\* It brings none that was not there.
LEMMA InTailOnly ==
    ASSUME NEW S, NEW s \in Seq(S), s # <<>>, NEW x, In(x, Tail(s))
    PROVE  In(x, s)
<1>1. /\ Len(s) \in Nat \ {0}
      /\ Len(Tail(s)) = Len(s) - 1
      /\ \A i \in 1 .. Len(s) - 1 : Tail(s)[i] = s[i + 1]
  BY HeadTailProperties, LenProperties, EmptySeq
<1>2. PICK i \in 1 .. Len(Tail(s)) : Tail(s)[i] = x
  BY DEF In
<1>3. i + 1 \in 1 .. Len(s) /\ s[i + 1] = x
  BY <1>1, <1>2
<1> QED BY <1>3 DEF In

\* The first message is in the queue.
LEMMA InHead ==
    ASSUME NEW S, NEW s \in Seq(S), s # <<>>
    PROVE  In(Head(s), s)
<1>1. Len(s) \in Nat \ {0} /\ Head(s) = s[1]
  BY EmptySeq
<1>2. 1 \in 1 .. Len(s)
  BY <1>1
<1> QED BY <1>1, <1>2 DEF In

\* A send that finds room leaves the queues in order.
LEMMA PushOK ==
    ASSUME QueuesOK, NEW n \in Queues, NEW m \in Msg, Room(n), Push(n, m)
    PROVE  QueuesOK'
<1>1. queue[n] \in Seq(Msg) /\ Cap[n] \in Nat
  BY CapAssumption DEF QueuesOK
<1>2. Append(queue[n], m) \in Seq(Msg) /\ Len(Append(queue[n], m)) = Len(queue[n]) + 1
  BY <1>1, AppendProperties
<1>3. Len(queue[n]) \in Nat
  BY <1>1, LenProperties
<1>4. queue' = [queue EXCEPT ![n] = Append(queue[n], m)]
  BY DEF Push
<1>5. Len(queue'[n]) <= Cap[n]
  BY <1>1, <1>2, <1>3, <1>4 DEF Room, QueuesOK
<1> QED BY <1>2, <1>4, <1>5 DEF QueuesOK

\* So does a read, and what it delivers is a message.
LEMMA PopOK ==
    ASSUME QueuesOK, NEW n \in Queues, queue[n] # <<>>, Pop(n)
    PROVE  QueuesOK' /\ Head(queue[n]) \in Msg
<1>1. queue[n] \in Seq(Msg) /\ Cap[n] \in Nat /\ Len(queue[n]) <= Cap[n]
  BY CapAssumption DEF QueuesOK
<1>2. /\ Tail(queue[n]) \in Seq(Msg)
      /\ Len(Tail(queue[n])) = Len(queue[n]) - 1
      /\ Head(queue[n]) \in Msg
  BY <1>1, HeadTailProperties
<1>3. Len(queue[n]) \in Nat
  BY <1>1, LenProperties
<1>4. queue' = [queue EXCEPT ![n] = Tail(queue[n])]
  BY DEF Pop
<1>5. Len(queue'[n]) <= Cap[n]
  BY <1>1, <1>2, <1>3, <1>4 DEF QueuesOK
<1> QED BY <1>2, <1>4, <1>5 DEF QueuesOK
-------------------------------------------------------------------------------
(***************************************************************************)
(* What the thread process is handling where it is blocked.                *)
(***************************************************************************)
PcOK ==
    /\ process_pc = "read" => in = NoMsg
    /\ process_pc = "send_vad" => state # "WAIT_FOR_ASR" /\ in \in {"CMD_VAD_RUN", "CMD_ASR_RESET"}
    /\ process_pc = "send_ddsh" => \/ state = "IDLE" /\ in = "CMD_DDS_FULL"
                                   \/ state = "SPEECHING" /\ in = "CMD_ASR_RUN"
    /\ process_pc = "send_asr" => state = "SPEECHING" /\ in = "CMD_ASR_RUN"
    /\ process_pc = "send_self" => \/ in = "CMD_ASR_RESET"
                                   \/ state = "SPEECHING" /\ in = "INFO_SPEECH_BEGIN"
    /\ process_pc = "wait_vad" => \/ state = "IDLE" /\ in = "CMD_ASR_STOP"
                                  \/ state # "IDLE" /\ in = "CMD_ASR_RESET"
    /\ process_pc \in {"wait_dds", "wait_asr"} =>
          state # "IDLE" /\ in \in {"CMD_ASR_STOP", "CMD_ASR_RESET"}

(***************************************************************************)
(* EngineLockHeld made inductive: it has to hold already while process is  *)
(* blocked on q_vad on its way to SPEECHING.                               *)
(***************************************************************************)
StopOrRunComing ==
    \/ In("CMD_VAD_RUN", queue["q_process"])
    \/ In("CMD_ASR_STOP", queue["q_process"])
    \/ outbox["timer"] = "CMD_ASR_STOP"
    \/ process_pc \in {"wait_dds", "wait_asr"} /\ in = "CMD_ASR_STOP"

LockOK == (state = "SPEECHING" \/ process_pc = "send_vad") /\ lock = 1 => StopOrRunComing

IInv == TypeOK /\ PcOK /\ LockOK

LEMMA InitIInv == Init => IInv
<1> SUFFICES ASSUME Init PROVE IInv
  OBVIOUS
<1>1. queue \in [Queues -> Seq(Msg)] /\ \A n \in Queues : Len(queue[n]) <= Cap[n]
  BY CapAssumption DEF Init
<1>2. asr_type \in {"LOCAL", "DUI"} /\ dds_type \in {"HALF", "FULL"}
  BY EnginesAssumption, DuplexesAssumption DEF Init
<1>3. calls \in 0 .. MaxCalls /\ replies \in 0 .. MaxReplies
  BY MaxCallsAssumption DEF Init
<1>4. TypeOK
  BY <1>1, <1>2, <1>3 DEF Init, TypeOK, RingStatus
<1> QED BY <1>4 DEF Init, IInv, PcOK, LockOK

LEMMA TypeQueues == TypeOK => QueuesOK
BY DEF TypeOK, QueuesOK

\* process reads only when it is idle, and gets a message of its queue.
LEMMA ReceiveOK ==
    ASSUME TypeOK, NEW s, NEW m, Receive(s, m)
    PROVE  QueuesOK' /\ Received \in Msg /\ Received \in m /\ process_pc = "read" /\ state \in s
BY TypeQueues, PopOK DEF Receive, Received, Queues

\* What a sender starts to send is a message.
LEMMA PostOK ==
    ASSUME outbox \in [Sender -> Msg \cup {OpenRing, NoMsg}],
           NEW s, NEW m \in Msg, Post(s, m)
    PROVE  outbox' \in [Sender -> Msg \cup {OpenRing, NoMsg}]
BY DEF Post

LEMMA EngineRingOK == EngineRing \in Rings
BY DEF EngineRing, Rings
-------------------------------------------------------------------------------
\* The steps of the thread process keep the types.
LEMMA TypeProcess == TypeOK /\ PcOK /\ Process => TypeOK'
<1> SUFFICES ASSUME TypeOK, PcOK, Process PROVE TypeOK'
  OBVIOUS
<1>q. QueuesOK
  BY TypeQueues
<1> USE DEF threadVars, engineVars, timerVars
<1>1. CASE VadRunWhenIdle
  <2>1. QueuesOK' /\ Received \in Msg
    BY <1>1, ReceiveOK DEF VadRunWhenIdle
  <2>2. rb' \in [Rings -> RingStatus]
    BY <1>1, EngineRingOK DEF VadRunWhenIdle, TypeOK, RingStart, RingStatus
  <2> QED BY <1>1, <2>1, <2>2 DEF VadRunWhenIdle, BlockAt, TypeOK, QueuesOK
<1>2. CASE VadRunWhenSpeeching
  <2>1. QueuesOK' /\ Received \in Msg
    BY <1>2, ReceiveOK DEF VadRunWhenSpeeching
  <2>2. rb' \in [Rings -> RingStatus]
    BY <1>2, EngineRingOK DEF VadRunWhenSpeeching, TypeOK, RingStart, RingStatus
  <2>3. /\ state' \in {"IDLE", "SPEECHING", "WAIT_FOR_ASR"}
         /\ process_pc' \in {"read", "send_vad", "send_ddsh", "send_asr", "send_self",
                            "wait_vad", "wait_dds", "wait_asr"}
         /\ in' \in Msg \cup {NoMsg} /\ event' \in Event \cup {NoMsg} /\ lock' \in {0, 1}
    BY <1>2, <2>1 DEF VadRunWhenSpeeching, BlockAt, TypeOK
  <2> QED BY <1>2, <2>1, <2>2, <2>3 DEF VadRunWhenSpeeching, TypeOK, QueuesOK
<1>3. CASE VadRunWhenWaitForAsr
  <2>1. QueuesOK' /\ Received \in Msg
    BY <1>3, ReceiveOK DEF VadRunWhenWaitForAsr
  <2> QED BY <1>3, <2>1 DEF VadRunWhenWaitForAsr, Return, Event, TypeOK, QueuesOK
<1>4. CASE SendVad
  <2>1. QueuesOK'
    BY <1>4, <1>q, PushOK DEF SendVad, PcOK, Queues, Msg
  <2>2. rb' \in [Rings -> RingStatus]
    BY <1>4, EngineRingOK DEF SendVad, TypeOK, RingStart, RingStatus
  <2> QED BY <1>4, <2>1, <2>2 DEF SendVad, Return, TypeOK, QueuesOK
<1>5. CASE DdsFullWhenIdle
  <2>1. QueuesOK' /\ Received \in Msg
    BY <1>5, ReceiveOK DEF DdsFullWhenIdle
  <2>2. rb' \in [Rings -> RingStatus]
    BY <1>5, EngineRingOK DEF DdsFullWhenIdle, TypeOK, RingStart, RingStatus
  <2> QED BY <1>5, <2>1, <2>2 DEF DdsFullWhenIdle, BlockAt, TypeOK, QueuesOK
<1>6. CASE AsrRunWhenSpeeching
  <2>1. QueuesOK' /\ Received \in Msg
    BY <1>6, ReceiveOK DEF AsrRunWhenSpeeching
  <2> QED BY <1>6, <2>1 DEF AsrRunWhenSpeeching, BlockAt, TypeOK, QueuesOK
<1>7. CASE AsrRunWhenWaitForAsr
  <2>1. QueuesOK' /\ Received \in Msg
    BY <1>7, ReceiveOK DEF AsrRunWhenWaitForAsr
  <2> QED BY <1>7, <2>1 DEF AsrRunWhenWaitForAsr, Return, TypeOK, QueuesOK
<1>8. CASE SendEngine
  <2>1. QueuesOK'
    BY <1>8, <1>q, PushOK DEF SendEngine, PcOK, Queues, Msg
  <2> QED BY <1>8, <2>1 DEF SendEngine, Return, TypeOK, QueuesOK
<1>9. CASE AsrStop
  <2>1. QueuesOK' /\ Received \in Msg
    BY <1>9, ReceiveOK DEF AsrStop
  <2>2. rb' \in [Rings -> RingStatus]
    BY <1>9, EngineRingOK DEF AsrStop, EndEngineRing, TypeOK, RingFinish, RingStatus
  <2> QED BY <1>9, <2>1, <2>2 DEF AsrStop, EndEngineRing, ReleaseAndReturn, BlockAt, Return, TypeOK, QueuesOK
<1>10. CASE AsrStopWhenIdle
  <2>1. QueuesOK' /\ Received \in Msg
    BY <1>10, ReceiveOK DEF AsrStopWhenIdle
  <2>2. rb' \in [Rings -> RingStatus]
    BY <1>10, EngineRingOK DEF AsrStopWhenIdle, TypeOK, RingAbort, RingStatus
  <2> QED BY <1>10, <2>1, <2>2 DEF AsrStopWhenIdle, BlockAt, TypeOK, QueuesOK
<1>11. CASE AsrReset
  <2>1. QueuesOK' /\ Received \in Msg
    BY <1>11, ReceiveOK DEF AsrReset
  <2>2. rb' \in [Rings -> RingStatus]
    BY <1>11, EngineRingOK DEF AsrReset, TypeOK, RingAbort, RingStatus
  <2> QED BY <1>11, <2>1, <2>2 DEF AsrReset, BlockAt, TypeOK, QueuesOK
<1>12. CASE VadWaitOver
  <2>1. rb' \in [Rings -> RingStatus]
    BY <1>12, EngineRingOK DEF VadWaitOver, EndEngineRing, TypeOK, RingAbort, RingStatus
  <2>2. /\ state' \in {"IDLE", "SPEECHING", "WAIT_FOR_ASR"}
         /\ process_pc' \in {"read", "send_vad", "send_ddsh", "send_asr", "send_self",
                            "wait_vad", "wait_dds", "wait_asr"}
         /\ in' \in Msg \cup {NoMsg} /\ event' \in Event \cup {NoMsg} /\ lock' \in {0, 1}
    BY <1>12 DEF VadWaitOver, EndEngineRing, ReleaseAndReturn, BlockAt, Return, TypeOK
  <2>3. done' \subseteq {"VAD_DONE", "DDS_DONE", "ASR_DONE"}
    BY <1>12 DEF VadWaitOver, WaitBit, TypeOK
  <2> QED BY <1>12, <2>1, <2>2, <2>3 DEF VadWaitOver, EndEngineRing, TypeOK, QueuesOK
<1>13. CASE EngineWaitOver
  <2>1. /\ state' \in {"IDLE", "SPEECHING", "WAIT_FOR_ASR"}
         /\ process_pc' \in {"read", "send_vad", "send_ddsh", "send_asr", "send_self",
                            "wait_vad", "wait_dds", "wait_asr"}
         /\ in' \in Msg \cup {NoMsg} /\ event' \in Event \cup {NoMsg} /\ lock' \in {0, 1}
    BY <1>13 DEF EngineWaitOver, ReleaseAndReturn, BlockAt, Return, TypeOK
  <2>2. done' \subseteq {"VAD_DONE", "DDS_DONE", "ASR_DONE"}
    BY <1>13 DEF EngineWaitOver, WaitBit, TypeOK
  <2> QED BY <1>13, <2>1, <2>2 DEF EngineWaitOver, TypeOK, QueuesOK
<1>14. CASE SpeechBeginWhenSpeeching
  <2>1. QueuesOK' /\ Received \in Msg
    BY <1>14, ReceiveOK DEF SpeechBeginWhenSpeeching
  <2> QED BY <1>14, <2>1 DEF SpeechBeginWhenSpeeching, BlockAt, TypeOK, QueuesOK
<1>15. CASE SendSelf
  <2>1. QueuesOK'
    BY <1>15, <1>q, PushOK DEF SendSelf, PcOK, Queues, Msg
  <2> QED BY <1>15, <2>1 DEF SendSelf, Return, TypeOK, QueuesOK
<1>16. CASE Result
  <2>1. QueuesOK' /\ Received \in Msg
    BY <1>16, ReceiveOK DEF Result
  <2> QED BY <1>16, <2>1 DEF Result, Return, DmEvent, Event, TypeOK, QueuesOK
<1>17. CASE ResultWhenIdle
  <2>1. QueuesOK' /\ Received \in Msg
    BY <1>17, ReceiveOK DEF ResultWhenIdle
  <2> QED BY <1>17, <2>1 DEF ResultWhenIdle, Return, DmEvent, Event, TypeOK, QueuesOK
<1>18. CASE Failure
  <2>1. QueuesOK' /\ Received \in Msg
    BY <1>18, ReceiveOK DEF Failure
  <2> QED BY <1>18, <2>1 DEF Failure, Return, Event, TypeOK, QueuesOK
<1>19. CASE NetworkUpdate
  <2>1. QueuesOK' /\ Received \in Msg
    BY <1>19, ReceiveOK DEF NetworkUpdate
  <2> QED BY <1>19, <2>1 DEF NetworkUpdate, Return, TypeOK, QueuesOK
<1>20. CASE Refused
  <2>1. QueuesOK' /\ Received \in Msg
    BY <1>20, ReceiveOK DEF Refused
  <2> QED BY <1>20, <2>1 DEF Refused, Return, TypeOK, QueuesOK
<1> QED BY <1>1, <1>2, <1>3, <1>4, <1>5, <1>6, <1>7, <1>8, <1>9, <1>10, <1>11, <1>12, <1>13, <1>14, <1>15, <1>16, <1>17, <1>18, <1>19, <1>20 DEF Process

\* The steps of the other threads keep them too.
LEMMA TypeOthers ==
    TypeOK /\ [Next]_vars /\ ~Process => TypeOK'
<1> SUFFICES ASSUME TypeOK, [Next]_vars, ~Process PROVE TypeOK'
  OBVIOUS
<1>q. QueuesOK
  BY TypeQueues
<1> USE DEF processVars, engineVars, timerVars, threadVars
<1>1. ASSUME NEW s \in Sender, Send(s) PROVE TypeOK'
  <2>1. QueuesOK'
    BY <1>1, <1>q, PushOK DEF Send, Queues
  <2>2. outbox' \in [Sender -> Msg \cup {OpenRing, NoMsg}]
    BY <1>1 DEF Send, TypeOK
  <2>3. dds_timer' \in BOOLEAN /\ dds_timeout' \in {0, 1}
    BY <1>1 DEF Send, TypeOK
  <2> QED BY <1>1, <2>1, <2>2, <2>3 DEF Send, TypeOK, QueuesOK
<1>2. CASE ResetOpensRing
  <2>1. rb' \in [Rings -> RingStatus]
    BY <1>2, EngineRingOK DEF ResetOpensRing, TypeOK, RingStart, RingStatus
  <2>2. outbox' \in [Sender -> Msg \cup {OpenRing, NoMsg}]
    BY <1>2 DEF ResetOpensRing, TypeOK
  <2> QED BY <1>2, <2>1, <2>2 DEF ResetOpensRing, TypeOK
<1>3. ASSUME NEW c \in Calls, Call(c) PROVE TypeOK'
  <2>1. outbox' \in [Sender -> Msg \cup {OpenRing, NoMsg}]
    BY <1>3 DEF Call, Post, Msg, TypeOK
  <2>2. calls' \in 0 .. MaxCalls
    BY <1>3, MaxCallsAssumption DEF Call, TypeOK
  <2>3. dds_timer' \in BOOLEAN
    BY <1>3 DEF Call, TypeOK
  <2> QED BY <1>3, <2>1, <2>2, <2>3 DEF Call, TypeOK
<1>4. CASE TimerExpires
  <2>1. outbox' \in [Sender -> Msg \cup {OpenRing, NoMsg}]
    BY <1>4 DEF TimerExpires, Post, Msg, TypeOK
  <2>2. dds_timer' \in BOOLEAN
    BY <1>4 DEF TimerExpires
  <2> QED BY <1>4, <2>1, <2>2 DEF TimerExpires, TypeOK
<1>5. CASE Vad
  <2> USE DEF vadRest
  <2>1. CASE VadReceive
    <3>1. QueuesOK'
      BY <2>1, <1>q, PopOK DEF VadReceive, Queues
    <3> QED BY <2>1, <3>1 DEF VadReceive, TypeOK, QueuesOK
  <2>2. CASE VadAborted \/ VadRunOver
    <3>1. done' \subseteq {"VAD_DONE", "DDS_DONE", "ASR_DONE"}
      BY <2>2 DEF VadAborted, VadRunOver, TypeOK
    <3>2. rb' \in [Rings -> RingStatus]
      BY <2>2 DEF VadAborted, VadRunOver, RingAbort, RingStatus, TypeOK
    <3> QED BY <2>2, <3>1, <3>2 DEF VadAborted, VadRunOver, TypeOK
  <2>3. CASE VadSpeech \/ VadSilence \/ VadTimeout
    <3>1. outbox' \in [Sender -> Msg \cup {OpenRing, NoMsg}]
      <4>1. outbox \in [Sender -> Msg \cup {OpenRing, NoMsg}]
        BY DEF TypeOK
      <4>2. \E m \in Msg : Post("vad", m)
        <5>1. CASE VadSpeech
          BY <5>1 DEF VadSpeech, Msg
        <5>2. CASE VadSilence
          BY <5>2 DEF VadSilence, Msg
        <5>3. CASE VadTimeout
          <6>1. \/ Post("vad", "INFO_SPEECH_BEGIN_TIMEOUT")
                \/ Post("vad", "INFO_SPEECH_END_TIMEOUT")
            BY <5>3 DEF VadTimeout
          <6>2. CASE Post("vad", "INFO_SPEECH_BEGIN_TIMEOUT")
            BY <6>2 DEF Msg
          <6>3. CASE Post("vad", "INFO_SPEECH_END_TIMEOUT")
            BY <6>3 DEF Msg
          <6> QED BY <6>1, <6>2, <6>3
        <5> QED BY <2>3, <5>1, <5>2, <5>3
      <4> QED BY <4>1, <4>2, PostOK
    <3>2. rb' \in [Rings -> RingStatus]
      BY <2>3 DEF VadSpeech, VadSilence, VadTimeout, RingAbort, RingStatus, TypeOK
    <3>3. /\ vad_pc' \in {"wait", "silence", "speech", "ended", "timed_out"}
          /\ event' = NoMsg /\ UNCHANGED <<vadRest, queue, done>>
      BY <2>3 DEF VadSpeech, VadSilence, VadTimeout
    <3> QED BY <3>1, <3>2, <3>3 DEF TypeOK
  <2> QED BY <1>5, <2>1, <2>2, <2>3 DEF Vad
<1>6. CASE Ddsh
  <2> USE DEF ddshRest
  <2>1. CASE DdshReceive
    <3>1. QueuesOK'
      BY <2>1, <1>q, PopOK DEF DdshReceive, Queues
    <3> QED BY <2>1, <3>1 DEF DdshReceive, TypeOK, QueuesOK
  <2>2. CASE DdshHalfOver \/ DdshFullOver
    <3>1. done' \subseteq {"VAD_DONE", "DDS_DONE", "ASR_DONE"}
      BY <2>2 DEF DdshHalfOver, DdshFullOver, TypeOK
    <3> QED BY <2>2, <3>1 DEF DdshHalfOver, DdshFullOver, TypeOK
  <2> QED BY <1>6, <2>1, <2>2 DEF Ddsh
<1>7. CASE Asr
  <2> USE DEF asrRest
  <2>1. CASE AsrReceive
    <3>1. QueuesOK'
      BY <2>1, <1>q, PopOK DEF AsrReceive, Queues
    <3> QED BY <2>1, <3>1 DEF AsrReceive, TypeOK, QueuesOK
  <2>2. CASE AsrFinish
    <3>1. outbox' \in [Sender -> Msg \cup {OpenRing, NoMsg}]
      BY <2>2 DEF AsrFinish, Post, Msg, TypeOK
    <3> QED BY <2>2, <3>1 DEF AsrFinish, TypeOK
  <2>3. CASE AsrCancel \/ AsrDone
    <3>1. done' \subseteq {"VAD_DONE", "DDS_DONE", "ASR_DONE"}
      BY <2>3 DEF AsrCancel, AsrDone, TypeOK
    <3> QED BY <2>3, <3>1 DEF AsrCancel, AsrDone, TypeOK
  <2> QED BY <1>7, <2>1, <2>2, <2>3 DEF Asr
<1>8. CASE Dds
  <2> USE DEF ddsRest
  <2>1. \E m \in Msg : Reply(m)
    BY <1>8 DEF Dds, DdsResponse, DdsVadResult, DdsError, Msg
  <2>2. PICK m \in Msg : Reply(m)
    BY <2>1
  <2>3. outbox \in [Sender -> Msg \cup {OpenRing, NoMsg}]
    BY DEF TypeOK
  <2>4. outbox' \in [Sender -> Msg \cup {OpenRing, NoMsg}]
    BY <2>2, <2>3, PostOK DEF Reply
  <2>5. replies' \in 0 .. MaxReplies
    BY <2>2, MaxCallsAssumption DEF Reply, TypeOK
  <2>6. session' \in {"none", "open", "ended"} /\ event' = NoMsg /\ UNCHANGED ddsRest
    BY <1>8 DEF Dds, DdsResponse, DdsVadResult, DdsError, TypeOK
  <2> QED BY <2>4, <2>5, <2>6 DEF TypeOK
<1>9. CASE NetProbe \/ NetApply
  <2>1. /\ asr_type' \in {"LOCAL", "DUI"} /\ net_pc' \in {"delay", "net_status_check"}
        /\ event' = NoMsg /\ UNCHANGED netRest
    BY <1>9 DEF NetProbe, NetApply, TypeOK
  <2> QED BY <2>1 DEF netRest, TypeOK
<1>10. CASE UNCHANGED vars
  BY <1>10 DEF vars, TypeOK
<1> QED BY <1>1, <1>2, <1>3, <1>4, <1>5, <1>6, <1>7, <1>8, <1>9, <1>10 DEF Next

LEMMA TypeNext == TypeOK /\ PcOK /\ [Next]_vars => TypeOK'
BY TypeProcess, TypeOthers
-------------------------------------------------------------------------------
\* Only process moves process.
LEMMA OnlyProcess == [Next]_vars => Process \/ UNCHANGED processVars
<1> SUFFICES ASSUME [Next]_vars PROVE Process \/ UNCHANGED processVars
  OBVIOUS
<1> USE DEF processVars
<1>1. CASE \/ \E s \in Sender : Send(s)
           \/ ResetOpensRing
           \/ \E c \in Calls : Call(c)
           \/ TimerExpires
  BY <1>1 DEF Send, ResetOpensRing, Call, TimerExpires
<1>2. CASE Vad
  BY <1>2 DEF Vad, VadReceive, VadAborted, VadSpeech, VadSilence, VadTimeout, VadRunOver, vadRest
<1>3. CASE Ddsh \/ Asr
  BY <1>3 DEF Ddsh, DdshReceive, DdshHalfOver, DdshFullOver, ddshRest,
              Asr, AsrReceive, AsrCancel, AsrFinish, AsrDone, asrRest
<1>4. CASE Dds \/ NetProbe \/ NetApply
  BY <1>4 DEF Dds, DdsResponse, DdsVadResult, DdsError, ddsRest, NetProbe, NetApply, netRest
<1>5. CASE UNCHANGED vars
  BY <1>5 DEF vars
<1> QED BY <1>1, <1>2, <1>3, <1>4, <1>5 DEF Next

\* Where it is blocked fits what it handles.
LEMMA PcNext == TypeOK /\ PcOK /\ [Next]_vars => PcOK'
<1> SUFFICES ASSUME TypeOK, PcOK, [Next]_vars PROVE PcOK'
  OBVIOUS
<1>1. CASE UNCHANGED processVars
  BY <1>1 DEF processVars, PcOK
<1>2. CASE Process
  <2>1. ASSUME NEW s, NEW m, Receive(s, m)
        PROVE  Received \in m /\ state \in s
    BY <2>1, ReceiveOK
  <2>2. ASSUME NEW s, NEW ev, Return(s, ev) PROVE PcOK'
    BY <2>2 DEF Return, PcOK
  <2>3. CASE VadRunWhenIdle \/ VadRunWhenSpeeching \/ DdsFullWhenIdle
    BY <1>2, <2>1, <2>3 DEF VadRunWhenIdle, VadRunWhenSpeeching, DdsFullWhenIdle, BlockAt, PcOK
  <2>4. CASE AsrRunWhenSpeeching \/ SpeechBeginWhenSpeeching
    BY <2>1, <2>4 DEF AsrRunWhenSpeeching, SpeechBeginWhenSpeeching, BlockAt, PcOK
  <2>5. CASE AsrStop
    <3>1. Received = "CMD_ASR_STOP" /\ state # "IDLE"
      BY <2>1, <2>5 DEF AsrStop
    <3>2. CASE ReleaseAndReturn("WAIT_FOR_ASR")
      BY <3>2, <2>2 DEF ReleaseAndReturn
    <3>3. CASE BlockAt("wait_dds", Received) \/ BlockAt("wait_asr", Received)
      BY <3>1, <3>3 DEF BlockAt, PcOK
    <3> QED BY <2>5, <3>2, <3>3 DEF AsrStop, EndEngineRing
  <2>6. CASE AsrStopWhenIdle \/ AsrReset
    BY <2>1, <2>6 DEF AsrStopWhenIdle, AsrReset, BlockAt, PcOK
  <2>7. CASE VadWaitOver
    <3>1. CASE ReleaseAndReturn("IDLE")
      BY <3>1, <2>2 DEF ReleaseAndReturn
    <3>2. CASE /\ in = "CMD_ASR_RESET"
               /\ \E pc \in {"wait_dds", "wait_asr", "send_self"} : BlockAt(pc, in)
      BY <2>7, <3>2 DEF VadWaitOver, BlockAt, PcOK
    <3> QED BY <2>7, <3>1, <3>2 DEF VadWaitOver, EndEngineRing
  <2>8. CASE EngineWaitOver
    <3>1. CASE ReleaseAndReturn("WAIT_FOR_ASR")
      BY <3>1, <2>2 DEF ReleaseAndReturn
    <3>2. CASE in = "CMD_ASR_RESET" /\ BlockAt("send_self", in)
      BY <3>2 DEF BlockAt, PcOK
    <3> QED BY <2>8, <3>1, <3>2 DEF EngineWaitOver
  <2>9. CASE VadRunWhenWaitForAsr \/ SendVad \/ AsrRunWhenWaitForAsr \/ SendEngine \/ SendSelf
    BY <2>2, <2>9 DEF VadRunWhenWaitForAsr, SendVad, AsrRunWhenWaitForAsr, SendEngine, SendSelf
  <2>10. CASE Result \/ ResultWhenIdle \/ Failure \/ NetworkUpdate \/ Refused
    BY <2>2, <2>10 DEF Result, ResultWhenIdle, Failure, NetworkUpdate, Refused
  <2> QED BY <1>2, <2>3, <2>4, <2>5, <2>6, <2>7, <2>8, <2>9, <2>10 DEF Process
<1> QED BY <1>1, <1>2, OnlyProcess
-------------------------------------------------------------------------------
(***************************************************************************)
(* What keeps StopOrRunComing.  A message in q_process stays there until   *)
(* process reads it; the timer's stop goes into q_process.                 *)
(***************************************************************************)
\* What process reads is all that leaves its queue.
LEMMA ReceiveLeaves ==
    ASSUME TypeOK, NEW s, NEW m, Receive(s, m), NEW x, x # Received, In(x, queue["q_process"])
    PROVE  In(x, queue'["q_process"])
<1>1. queue["q_process"] \in Seq(Msg) /\ queue["q_process"] # <<>>
  BY DEF TypeOK, Queues, Receive
<1>2. queue'["q_process"] = Tail(queue["q_process"])
  BY DEF Receive, Pop, TypeOK, Queues
<1> QED BY <1>1, <1>2, InTail DEF Received

\* A read of another message than the two leaves them in q_process.
LEMMA ReceiveKeeps ==
    ASSUME TypeOK, NEW s, NEW m, Receive(s, m),
           Received \notin {"CMD_VAD_RUN", "CMD_ASR_STOP"},
           PcOK, UNCHANGED outbox, StopOrRunComing
    PROVE  StopOrRunComing'
<1>3. process_pc = "read"
  BY DEF Receive
<1>4. CASE outbox["timer"] = "CMD_ASR_STOP"
  BY <1>4 DEF StopOrRunComing
<1>5. CASE In("CMD_VAD_RUN", queue["q_process"])
  <2>1. In("CMD_VAD_RUN", queue'["q_process"])
    BY <1>5, ReceiveLeaves
  <2> QED BY <2>1 DEF StopOrRunComing
<1>6. CASE In("CMD_ASR_STOP", queue["q_process"])
  <2>1. In("CMD_ASR_STOP", queue'["q_process"])
    BY <1>6, ReceiveLeaves
  <2> QED BY <2>1 DEF StopOrRunComing
<1> QED BY <1>3, <1>4, <1>5, <1>6 DEF StopOrRunComing

\* A step of another thread that leaves process, the timer's outbox and q_process alone.
LEMMA OthersKeep ==
    ASSUME StopOrRunComing, UNCHANGED processVars,
           queue'["q_process"] = queue["q_process"], outbox'["timer"] = outbox["timer"]
    PROVE  StopOrRunComing'
BY DEF StopOrRunComing, processVars

\* A send to q_process by any thread, the timer's included.
LEMMA SendKeeps ==
    ASSUME TypeOK, NEW s \in Sender, Send(s), StopOrRunComing
    PROVE  StopOrRunComing'
<1>1. queue["q_process"] \in Seq(Msg) /\ outbox[s] \in Msg
  BY DEF TypeOK, Queues, Send
<1>2. queue'["q_process"] = Append(queue["q_process"], outbox[s])
  BY DEF Send, Push, TypeOK, Queues
<1>3. \A x : In(x, queue'["q_process"]) <=> In(x, queue["q_process"]) \/ x = outbox[s]
  BY <1>1, <1>2, InAppend
<1>4. CASE s = "timer" /\ outbox["timer"] = "CMD_ASR_STOP"
  BY <1>3, <1>4 DEF StopOrRunComing
<1>5. CASE s # "timer"
  <2>1. outbox'["timer"] = outbox["timer"]
    BY <1>5 DEF Send, TypeOK, Sender
  <2> QED BY <1>3, <2>1 DEF StopOrRunComing, Send, processVars
<1>6. CASE outbox["timer"] # "CMD_ASR_STOP"
  BY <1>3, <1>6 DEF StopOrRunComing, Send, processVars
<1> QED BY <1>4, <1>5, <1>6

LEMMA LockProcess == TypeOK /\ PcOK /\ LockOK /\ Process => LockOK'
<1> SUFFICES ASSUME TypeOK, PcOK, LockOK, Process PROVE LockOK'
  OBVIOUS
<1> USE DEF threadVars
<1>r. ASSUME NEW s, NEW m, Receive(s, m)
      PROVE  Received \in m /\ process_pc = "read" /\ state \in s
  BY <1>r, ReceiveOK
<1>i. ASSUME NEW s, NEW ev, Return(s, ev), s # "SPEECHING" PROVE LockOK'
  BY <1>i DEF Return, LockOK
<1>1. CASE VadRunWhenIdle \/ VadRunWhenSpeeching \/ DdsFullWhenIdle
  BY <1>1 DEF VadRunWhenIdle, VadRunWhenSpeeching, DdsFullWhenIdle, LockOK
<1>2. CASE SendVad
  <2>1. queue'["q_process"] = queue["q_process"]
    BY <1>2 DEF SendVad, Push, TypeOK, Queues
  <2>2. process_pc = "send_vad" /\ lock' = lock /\ UNCHANGED outbox
    BY <1>2 DEF SendVad
  <2> QED BY <2>1, <2>2 DEF LockOK, StopOrRunComing
<1>3. CASE SendSelf
  <2>1. /\ queue["q_process"] \in Seq(Msg)
        /\ \/ /\ in = "CMD_ASR_RESET"
              /\ queue'["q_process"] = Append(queue["q_process"], "CMD_VAD_RUN")
           \/ /\ state = "SPEECHING"
              /\ queue'["q_process"] = Append(queue["q_process"], "CMD_ASR_RUN")
        /\ process_pc = "send_self" /\ lock' = lock /\ UNCHANGED outbox
    BY <1>3 DEF SendSelf, Push, PcOK, TypeOK, Queues
  <2>2. CASE queue'["q_process"] = Append(queue["q_process"], "CMD_VAD_RUN")
    <3>1. In("CMD_VAD_RUN", queue'["q_process"])
      BY <2>1, <2>2, InAppend DEF Msg
    <3> QED BY <3>1 DEF LockOK, StopOrRunComing
  <2>3. CASE /\ state = "SPEECHING"
             /\ queue'["q_process"] = Append(queue["q_process"], "CMD_ASR_RUN")
    <3>1. \A x : In(x, queue["q_process"]) => In(x, queue'["q_process"])
      BY <2>1, <2>3, InAppend DEF Msg
    <3> QED BY <2>1, <2>3, <3>1 DEF LockOK, StopOrRunComing
  <2> QED BY <2>1, <2>2, <2>3
<1>4. CASE AsrStop
  <2>1. Received = "CMD_ASR_STOP"
    BY <1>4, <1>r DEF AsrStop
  <2>2. CASE ReleaseAndReturn("WAIT_FOR_ASR")
    BY <2>2, <1>i DEF ReleaseAndReturn
  <2>3. CASE BlockAt("wait_dds", Received) \/ BlockAt("wait_asr", Received)
    BY <2>1, <2>3 DEF BlockAt, LockOK, StopOrRunComing
  <2> QED BY <1>4, <2>2, <2>3 DEF AsrStop, EndEngineRing
<1>5. CASE AsrStopWhenIdle
  <2>1. state = "IDLE"
    BY <1>5, <1>r DEF AsrStopWhenIdle
  <2> QED BY <1>5, <2>1 DEF AsrStopWhenIdle, BlockAt, LockOK
<1>6. ASSUME NEW s, NEW m, Receive(s, m), m \cap {"CMD_VAD_RUN", "CMD_ASR_STOP"} = {},
             UNCHANGED outbox, lock' = lock, state' = state, process_pc' # "send_vad"
      PROVE  LockOK'
  <2>1. Received \notin {"CMD_VAD_RUN", "CMD_ASR_STOP"}
    BY <1>6, <1>r
  <2>2. StopOrRunComing => StopOrRunComing'
    BY <1>6, <2>1, ReceiveKeeps
  <2> QED BY <1>6, <2>2 DEF LockOK
<1>7. CASE AsrReset \/ AsrRunWhenSpeeching \/ SpeechBeginWhenSpeeching
  <2>1. CASE AsrReset
    BY <1>6, <2>1 DEF AsrReset, BlockAt
  <2>2. CASE AsrRunWhenSpeeching
    BY <1>6, <2>2 DEF AsrRunWhenSpeeching, BlockAt
  <2>3. CASE SpeechBeginWhenSpeeching
    BY <1>6, <2>3 DEF SpeechBeginWhenSpeeching, BlockAt
  <2> QED BY <1>7, <2>1, <2>2, <2>3
<1>8. CASE NetworkUpdate
  BY <1>6, <1>8 DEF NetworkUpdate, Return
<1>9. CASE Refused
  <2>1. Receive({"IDLE", "SPEECHING", "WAIT_FOR_ASR"}, Unhandled(state)) /\ state' = state
    BY <1>9 DEF Refused, Return
  <2>2. Unhandled(state) \cap {"CMD_VAD_RUN", "CMD_ASR_STOP"} = {}
    BY DEF Unhandled, TypeOK
  <2> QED BY <1>6, <1>9, <2>1, <2>2 DEF Refused, Return
<1>10. CASE VadWaitOver
  <2>1. CASE ReleaseAndReturn("IDLE")
    BY <2>1, <1>i DEF ReleaseAndReturn
  <2>2. CASE /\ UNCHANGED <<queue, lock, outbox>> /\ state' = state
             /\ process_pc = "wait_vad" /\ process_pc' # "send_vad"
    BY <2>2 DEF LockOK, StopOrRunComing
  <2> QED BY <1>10, <2>1, <2>2 DEF VadWaitOver, EndEngineRing, BlockAt
<1>11. CASE EngineWaitOver
  <2>1. CASE ReleaseAndReturn("WAIT_FOR_ASR")
    BY <2>1, <1>i DEF ReleaseAndReturn
  <2>2. CASE /\ UNCHANGED <<queue, lock, outbox>> /\ state' = state
             /\ in = "CMD_ASR_RESET" /\ process_pc' = "send_self"
    BY <2>2 DEF LockOK, StopOrRunComing
  <2> QED BY <1>11, <2>1, <2>2 DEF EngineWaitOver, BlockAt
<1>12. CASE VadRunWhenWaitForAsr \/ AsrRunWhenWaitForAsr \/ SendEngine
  BY <1>12, <1>i DEF VadRunWhenWaitForAsr, AsrRunWhenWaitForAsr, SendEngine
<1>13. CASE Result \/ ResultWhenIdle \/ Failure
  BY <1>13, <1>i DEF Result, ResultWhenIdle, Failure
<1> QED BY <1>1, <1>2, <1>3, <1>4, <1>5, <1>7, <1>8, <1>9, <1>10, <1>11, <1>12, <1>13 DEF Process

\* The threads vad, ddsh and asr and the cloud do not touch what StopOrRunComing is about.
Quiet == /\ UNCHANGED processVars
         /\ lock' = lock
         /\ queue'["q_process"] = queue["q_process"]
         /\ outbox'["timer"] = outbox["timer"]

LEMMA QuietThreads == TypeOK /\ (Vad \/ Ddsh \/ Asr \/ Dds) => Quiet
<1> SUFFICES ASSUME TypeOK, Vad \/ Ddsh \/ Asr \/ Dds PROVE Quiet
  OBVIOUS
<1> USE DEF Quiet, processVars, vadRest, ddshRest, asrRest, ddsRest
<1>1. ASSUME NEW n \in Queues \ {"q_process"}, Pop(n)
      PROVE  queue'["q_process"] = queue["q_process"]
  BY <1>1 DEF Pop, TypeOK, Queues
<1>2. ASSUME NEW s \in Sender \ {"timer"}, NEW m, Post(s, m)
      PROVE  outbox'["timer"] = outbox["timer"]
  BY <1>2 DEF Post, TypeOK, Sender
<1>3. CASE VadReceive
  BY <1>3, <1>1 DEF VadReceive, Queues
<1>4. CASE VadAborted
  BY <1>4 DEF VadAborted
<1>5. CASE VadSpeech
  BY <1>5, <1>2 DEF VadSpeech, Sender
<1>6. CASE VadSilence
  BY <1>6, <1>2 DEF VadSilence, Sender
<1>7. CASE VadTimeout
  BY <1>7, <1>2 DEF VadTimeout, Sender
<1>8. CASE VadRunOver
  BY <1>8 DEF VadRunOver
<1>9. CASE DdshReceive
  BY <1>9, <1>1 DEF DdshReceive, Queues
<1>10. CASE DdshHalfOver
  BY <1>10 DEF DdshHalfOver
<1>11. CASE DdshFullOver
  BY <1>11 DEF DdshFullOver
<1>12. CASE AsrReceive
  BY <1>12, <1>1 DEF AsrReceive, Queues
<1>13. CASE AsrCancel \/ AsrFinish
  BY <1>13, <1>2 DEF AsrCancel, AsrFinish, Sender
<1>14. CASE AsrDone
  BY <1>14 DEF AsrDone
<1>15. CASE DdsResponse
  BY <1>15, <1>2 DEF DdsResponse, Sender, Reply
<1>16. CASE DdsVadResult
  BY <1>16, <1>2 DEF DdsVadResult, Sender, Reply
<1>17. CASE DdsError
  BY <1>17, <1>2 DEF DdsError, Sender, Reply
<1> QED BY <1>3, <1>4, <1>5, <1>6, <1>7, <1>8, <1>9, <1>10, <1>11, <1>12, <1>13, <1>14, <1>15, <1>16, <1>17 DEF Vad, Ddsh, Asr, Dds

LEMMA LockOthers == TypeOK /\ LockOK /\ [Next]_vars /\ ~Process => LockOK'
<1> SUFFICES ASSUME TypeOK, LockOK, [Next]_vars, ~Process PROVE LockOK'
  OBVIOUS
<1> USE DEF processVars, threadVars
<1>1. ASSUME NEW s \in Sender, Send(s) PROVE LockOK'
  <2>1. UNCHANGED <<processVars, lock>>
    BY <1>1 DEF Send
  <2> QED BY <1>1, <2>1, SendKeeps DEF LockOK
<1>2. CASE TimerExpires
  <2>1. outbox'["timer"] = "CMD_ASR_STOP"
    BY <1>2 DEF TimerExpires, Post, TypeOK, Sender
  <2> QED BY <2>1 DEF LockOK, StopOrRunComing
<1>3. CASE Quiet
  BY <1>3, OthersKeep DEF Quiet, LockOK
<1>4. CASE ResetOpensRing \/ \E c \in Calls : Call(c)
  <2>1. UNCHANGED <<processVars, queue, lock>>
    BY <1>4 DEF ResetOpensRing, Call
  <2>2. \E m : Post("app", m)
    BY <1>4 DEF ResetOpensRing, Call, Post
  <2>3. outbox'["timer"] = outbox["timer"]
    BY <2>2 DEF Post, TypeOK, Sender
  <2> QED BY <1>3, <2>1, <2>3 DEF Quiet
<1>5. CASE Vad \/ Ddsh \/ Asr \/ Dds
  BY <1>3, <1>5, QuietThreads
<1>6. CASE NetProbe \/ NetApply \/ UNCHANGED vars
  BY <1>3, <1>6 DEF Quiet, NetProbe, NetApply, netRest, vars
<1> QED BY <1>1, <1>2, <1>4, <1>5, <1>6 DEF Next
\* The other threads only add to it.
LEMMA OthersLeave ==
    ASSUME TypeOK, [Next]_vars, ~Process, NEW x, In(x, queue["q_process"])
    PROVE  In(x, queue'["q_process"])
<1>1. ASSUME NEW s \in Sender, Send(s) PROVE In(x, queue'["q_process"])
  <2>1. queue["q_process"] \in Seq(Msg) /\ outbox[s] \in Msg
    BY <1>1 DEF TypeOK, Queues, Send
  <2>2. queue'["q_process"] = Append(queue["q_process"], outbox[s])
    BY <1>1 DEF Send, Push, TypeOK, Queues
  <2> QED BY <2>1, <2>2, InAppend
<1>2. CASE Vad \/ Ddsh \/ Asr \/ Dds
  BY <1>2, QuietThreads DEF Quiet
<1>3. CASE ResetOpensRing \/ (\E c \in Calls : Call(c)) \/ TimerExpires
  BY <1>3 DEF ResetOpensRing, Call, TimerExpires
<1>4. CASE NetProbe \/ NetApply \/ UNCHANGED vars
  BY <1>4 DEF NetProbe, NetApply, netRest, vars
<1> QED BY <1>1, <1>2, <1>3, <1>4 DEF Next
-------------------------------------------------------------------------------
LEMMA NextIInv == IInv /\ [Next]_vars => IInv'
BY TypeNext, PcNext, LockProcess, LockOthers DEF IInv

(***************************************************************************)
(* The queues never hold more than their capacity, every buffer, bit and   *)
(* thread stays in its states, and only messages of the program are sent.  *)
(***************************************************************************)
THEOREM TypeCorrect == Spec => []TypeOK
<1>1. IInv => TypeOK
  BY DEF IInv
<1> QED BY InitIInv, NextIInv, <1>1, PTL DEF Spec

(***************************************************************************)
(* In SPEECHING the engine lock is taken, or the message that takes it or  *)
(* ends SPEECHING is on its way to process: for every number of calls and  *)
(* callbacks, any queue capacities, and the network check running or not.  *)
(***************************************************************************)
THEOREM EngineLock == Spec => []EngineLockHeld
<1>1. IInv => EngineLockHeld
  BY DEF IInv, LockOK, StopOrRunComing, EngineLockHeld
<1> QED BY InitIInv, NextIInv, <1>1, PTL DEF Spec
-------------------------------------------------------------------------------
(***************************************************************************)
(* EngineRingReady speaks of where process reads.  It is inductive once it *)
(* is required while process is busy announcing the begin of speech to     *)
(* itself, and once CMD_VAD_RUN has reopened the buffer before it is sent  *)
(* on to q_vad.                                                            *)
(***************************************************************************)
RingOK ==
    /\ /\ state = "SPEECHING"
       /\ process_pc = "read" \/ (process_pc = "send_self" /\ in = "INFO_SPEECH_BEGIN")
       => rb[EngineRing] = "open" \/ In("CMD_VAD_RUN", queue["q_process"])
    /\ state = "SPEECHING" /\ process_pc = "send_vad" => rb[EngineRing] = "open"

\* A step that does not change the engine.
Pinned == asr_type' = asr_type

LEMMA RingOthers == TypeOK /\ RingOK /\ [Next]_vars /\ ~Process /\ Pinned => RingOK'
<1> SUFFICES ASSUME TypeOK, RingOK, [Next]_vars, ~Process, Pinned PROVE RingOK'
  OBVIOUS
<1>1. UNCHANGED processVars
  BY OnlyProcess
<1>2. In("CMD_VAD_RUN", queue["q_process"]) => In("CMD_VAD_RUN", queue'["q_process"])
  BY OthersLeave
<1>3. EngineRing' = EngineRing /\ EngineRing \in Rings /\ EngineRing # "rb_local_vad"
  BY DEF Pinned, EngineRing, Rings
<1>4. rb'[EngineRing] = rb[EngineRing] \/ rb'[EngineRing] = "open"
  <2>1. CASE ResetOpensRing
    BY <1>3, <2>1 DEF ResetOpensRing, RingStart, TypeOK
  <2>2. CASE Vad
    BY <1>3, <2>2 DEF Vad, VadReceive, VadAborted, VadSpeech, VadSilence, VadTimeout, VadRunOver,
                      vadRest, TypeOK
  <2>3. CASE Ddsh \/ Asr
    BY <2>3 DEF Ddsh, DdshReceive, DdshHalfOver, DdshFullOver, ddshRest,
                Asr, AsrReceive, AsrCancel, AsrFinish, AsrDone, asrRest
  <2>4. CASE Dds \/ NetProbe \/ NetApply
    BY <2>4 DEF Dds, DdsResponse, DdsVadResult, DdsError, ddsRest, NetProbe, NetApply, netRest
  <2>5. CASE (\E s \in Sender : Send(s)) \/ (\E c \in Calls : Call(c)) \/ TimerExpires
    BY <2>5 DEF Send, Call, TimerExpires
  <2>6. CASE UNCHANGED vars
    BY <2>6 DEF vars
  <2> QED BY <2>1, <2>2, <2>3, <2>4, <2>5, <2>6 DEF Next
<1> QED BY <1>1, <1>2, <1>3, <1>4 DEF RingOK, processVars

LEMMA RingProcess == TypeOK /\ PcOK /\ RingOK /\ Process /\ Pinned => RingOK'
<1> SUFFICES ASSUME TypeOK, PcOK, RingOK, Process, Pinned PROVE RingOK'
  OBVIOUS
<1> USE DEF threadVars
<1>r. ASSUME NEW s, NEW m, Receive(s, m)
      PROVE  Received \in m /\ process_pc = "read" /\ state \in s
  BY <1>r, ReceiveOK
<1>e. EngineRing' = EngineRing /\ EngineRing \in Rings /\ EngineRing # "rb_local_vad"
  BY DEF Pinned, EngineRing, Rings
<1>i. ASSUME NEW s, NEW ev, Return(s, ev), s # "SPEECHING" PROVE RingOK'
  BY <1>i DEF Return, RingOK
<1>1. CASE VadRunWhenIdle \/ DdsFullWhenIdle \/ AsrStopWhenIdle
  <2>1. state' = "IDLE"
    BY <1>1, <1>r DEF VadRunWhenIdle, DdsFullWhenIdle, AsrStopWhenIdle, BlockAt
  <2> QED BY <2>1 DEF RingOK
<1>2. CASE VadRunWhenSpeeching
  <2>1. rb'[EngineRing] = "open"
    BY <1>2, <1>e DEF VadRunWhenSpeeching, RingStart, TypeOK
  <2> QED BY <1>e, <2>1 DEF RingOK
<1>3. CASE SendVad
  <2>1. process_pc = "send_vad" /\ state \in {"IDLE", "SPEECHING"}
    BY <1>3 DEF SendVad, PcOK, TypeOK
  <2>2. rb'[EngineRing] = "open"
    BY <1>3, <1>e, <2>1 DEF SendVad, RingStart, RingOK, TypeOK
  <2> QED BY <1>e, <2>2 DEF RingOK
<1>4. CASE SendSelf
  <2>1. /\ queue["q_process"] \in Seq(Msg)
        /\ process_pc = "send_self" /\ rb' = rb
        /\ \/ /\ in = "CMD_ASR_RESET"
              /\ queue'["q_process"] = Append(queue["q_process"], "CMD_VAD_RUN")
           \/ /\ state = "SPEECHING" /\ in = "INFO_SPEECH_BEGIN"
              /\ queue'["q_process"] = Append(queue["q_process"], "CMD_ASR_RUN")
    BY <1>4 DEF SendSelf, Push, PcOK, TypeOK, Queues
  <2>2. rb'[EngineRing] = "open" \/ In("CMD_VAD_RUN", queue'["q_process"])
    <3>1. CASE queue'["q_process"] = Append(queue["q_process"], "CMD_VAD_RUN")
      BY <2>1, <3>1, InAppend DEF Msg
    <3>2. CASE queue'["q_process"] = Append(queue["q_process"], "CMD_ASR_RUN")
      <4>1. In("CMD_VAD_RUN", queue["q_process"]) => In("CMD_VAD_RUN", queue'["q_process"])
        BY <2>1, <3>2, InAppend DEF Msg
      <4> QED BY <2>1, <4>1, <3>1 DEF RingOK
    <3> QED BY <2>1, <3>1, <3>2
  <2>3. process_pc' = "read"
    BY <1>4 DEF SendSelf, Return
  <2> QED BY <1>e, <2>2, <2>3 DEF RingOK
<1>5. CASE SpeechBeginWhenSpeeching \/ NetworkUpdate \/ Refused
  <2>1. PICK s, m : Receive(s, m) /\ Received # "CMD_VAD_RUN"
    <3>1. "CMD_VAD_RUN" \notin Unhandled(state)
      BY DEF Unhandled, TypeOK
    <3> QED BY <1>5, <1>r, <3>1 DEF SpeechBeginWhenSpeeching, NetworkUpdate, Refused
  <2>2. /\ rb' = rb /\ state' = state /\ process_pc = "read"
        /\ process_pc' \in {"read", "send_self"}
    BY <1>5, <1>r DEF SpeechBeginWhenSpeeching, NetworkUpdate, Refused, BlockAt, Return
  <2>3. In("CMD_VAD_RUN", queue["q_process"]) => In("CMD_VAD_RUN", queue'["q_process"])
    BY <2>1, ReceiveLeaves
  <2> QED BY <1>e, <2>2, <2>3 DEF RingOK
<1>6. CASE AsrRunWhenSpeeching \/ AsrReset
  BY <1>6 DEF AsrRunWhenSpeeching, AsrReset, BlockAt, RingOK
<1>7. CASE AsrStop
  <2>1. CASE ReleaseAndReturn("WAIT_FOR_ASR")
    BY <2>1, <1>i DEF ReleaseAndReturn
  <2>2. CASE BlockAt("wait_dds", Received) \/ BlockAt("wait_asr", Received)
    BY <2>2 DEF BlockAt, RingOK
  <2> QED BY <1>7, <2>1, <2>2 DEF AsrStop, EndEngineRing
<1>8. CASE VadWaitOver
  <2>1. CASE ReleaseAndReturn("IDLE")
    BY <2>1, <1>i DEF ReleaseAndReturn
  <2>2. CASE /\ in = "CMD_ASR_RESET"
             /\ \E pc \in {"wait_dds", "wait_asr", "send_self"} : BlockAt(pc, in)
    BY <2>2 DEF BlockAt, RingOK
  <2> QED BY <1>8, <2>1, <2>2 DEF VadWaitOver, EndEngineRing
<1>9. CASE EngineWaitOver
  <2>1. CASE ReleaseAndReturn("WAIT_FOR_ASR")
    BY <2>1, <1>i DEF ReleaseAndReturn
  <2>2. CASE in = "CMD_ASR_RESET" /\ BlockAt("send_self", in)
    BY <2>2 DEF BlockAt, RingOK
  <2> QED BY <1>9, <2>1, <2>2 DEF EngineWaitOver
<1>10. CASE VadRunWhenWaitForAsr \/ AsrRunWhenWaitForAsr \/ SendEngine
  BY <1>10, <1>i DEF VadRunWhenWaitForAsr, AsrRunWhenWaitForAsr, SendEngine
<1>11. CASE Result \/ ResultWhenIdle \/ Failure
  BY <1>11, <1>i DEF Result, ResultWhenIdle, Failure
<1> QED BY <1>1, <1>2, <1>3, <1>4, <1>5, <1>6, <1>7, <1>8, <1>9, <1>10, <1>11 DEF Process

(***************************************************************************)
(* As long as nobody changes the engine: whenever process may dispatch     *)
(* CMD_ASR_RUN, the engine's buffer is open or the CMD_VAD_RUN that opens  *)
(* it is queued, however starts, stops, resets, timeouts and callbacks     *)
(* interleave.                                                             *)
(***************************************************************************)
THEOREM EngineRingOpen == Spec /\ [][Pinned]_vars => []EngineRingReady
<1>1. Init => RingOK
  BY DEF Init, RingOK
<1>2. IInv /\ RingOK /\ [Next]_vars /\ [Pinned]_vars => RingOK'
  <2>1. UNCHANGED vars => Pinned
    BY DEF Pinned, vars, engineVars
  <2> QED BY <2>1, RingOthers, RingProcess DEF IInv
<1>3. RingOK => EngineRingReady
  BY DEF RingOK, EngineRingReady
<1> QED BY InitIInv, NextIInv, <1>1, <1>2, <1>3, PTL DEF Spec
-------------------------------------------------------------------------------
(***************************************************************************)
(* CMD_NETWORK_UPDATE and CMD_ASR_RESET are sent by the application alone: *)
(* when it never makes the call, no thread is sending the message and none *)
(* is queued.                                                              *)
(***************************************************************************)
Absent(m) == /\ \A s \in Sender : outbox[s] # m
             /\ ~In(m, queue["q_process"])

LEMMA AbsentNext ==
    ASSUME TypeOK, PcOK, [Next]_vars,
           NEW x \in {"CMD_NETWORK_UPDATE", "CMD_ASR_RESET"}, Absent(x),
           x = "CMD_NETWORK_UPDATE" => "network" \notin Calls,
           x = "CMD_ASR_RESET" => "reset" \notin Calls \/ dds_type = "FULL"
    PROVE  Absent(x)'
<1> USE DEF threadVars, processVars
<1>q. queue["q_process"] \in Seq(Msg)
  BY DEF TypeOK, Queues
<1>s. ASSUME UNCHANGED outbox, queue'["q_process"] = queue["q_process"] PROVE Absent(x)'
  BY <1>s DEF Absent
<1>r. ASSUME UNCHANGED outbox, NEW s, NEW m, Receive(s, m) PROVE Absent(x)'
  <2>1. queue'["q_process"] = Tail(queue["q_process"]) /\ queue["q_process"] # <<>>
    BY <1>r DEF Receive, Pop, TypeOK, Queues
  <2>2. ~In(x, queue'["q_process"])
    BY <1>q, <2>1, InTailOnly DEF Absent
  <2> QED BY <1>r, <2>2 DEF Absent
<1>p. ASSUME queue'["q_process"] = queue["q_process"],
             NEW s, NEW m, Post(s, m), m # x
      PROVE  Absent(x)'
  BY <1>p DEF Absent, Post, TypeOK
<1>1. CASE Process
  <2>1. CASE SendSelf
    <3>1. \E m \in Msg \ {x} : queue'["q_process"] = Append(queue["q_process"], m)
      BY <2>1 DEF SendSelf, Push, TypeOK, Queues, Msg
    <3>2. ~In(x, queue'["q_process"])
      BY <1>q, <3>1, InAppend DEF Absent
    <3> QED BY <2>1, <3>2 DEF SendSelf, Absent
  <2>2. CASE SendVad \/ SendEngine \/ VadWaitOver \/ EngineWaitOver
    BY <1>s, <2>2 DEF SendVad, SendEngine, VadWaitOver, EngineWaitOver, Push, TypeOK, Queues
  <2>3. CASE Result \/ ResultWhenIdle \/ Failure \/ NetworkUpdate \/ Refused
    BY <1>r, <2>3 DEF Result, ResultWhenIdle, Failure, NetworkUpdate, Refused
  <2>4. CASE VadRunWhenIdle \/ VadRunWhenSpeeching \/ VadRunWhenWaitForAsr \/ DdsFullWhenIdle
    BY <1>r, <2>4 DEF VadRunWhenIdle, VadRunWhenSpeeching, VadRunWhenWaitForAsr, DdsFullWhenIdle
  <2>5. CASE \/ AsrRunWhenSpeeching \/ AsrRunWhenWaitForAsr \/ AsrStop \/ AsrStopWhenIdle
             \/ AsrReset \/ SpeechBeginWhenSpeeching
    BY <1>r, <2>5 DEF AsrRunWhenSpeeching, AsrRunWhenWaitForAsr, AsrStop, AsrStopWhenIdle,
                      AsrReset, SpeechBeginWhenSpeeching
  <2> QED BY <1>1, <2>1, <2>2, <2>3, <2>4, <2>5 DEF Process
<1>2. ASSUME NEW s \in Sender, Send(s) PROVE Absent(x)'
  <2>1. /\ queue'["q_process"] = Append(queue["q_process"], outbox[s])
        /\ outbox[s] \in Msg /\ outbox[s] # x
        /\ outbox' = [outbox EXCEPT ![s] = outbox'[s]] /\ outbox'[s] \in {OpenRing, NoMsg}
    BY <1>2 DEF Send, Push, TypeOK, Queues, Absent
  <2>2. ~In(x, queue'["q_process"])
    BY <1>q, <2>1, InAppend DEF Absent
  <2>3. x \notin {OpenRing, NoMsg}
    BY DEF OpenRing, NoMsg
  <2> QED BY <2>1, <2>2, <2>3 DEF Absent, TypeOK
<1>3. CASE ResetOpensRing
  BY <1>3, <1>p DEF ResetOpensRing, Post, NoMsg
<1>4. ASSUME NEW c \in Calls, Call(c) PROVE Absent(x)'
  <2>1. queue' = queue
    BY <1>4 DEF Call
  <2>2. CASE c = "start"
    <3>1. Post("app", "CMD_DDS_FULL") \/ Post("app", "CMD_VAD_RUN")
      BY <1>4, <2>2 DEF Call
    <3> QED BY <1>p, <2>1, <3>1
  <2>3. CASE c = "stop"
    <3>1. Post("app", "CMD_ASR_STOP")
      BY <1>4, <2>3 DEF Call
    <3> QED BY <1>p, <2>1, <3>1
  <2>4. CASE c = "reset"
    <3>1. Post("app", "CMD_ASR_RESET") /\ x # "CMD_ASR_RESET"
      BY <1>4, <2>4 DEF Call
    <3> QED BY <1>p, <2>1, <3>1
  <2>5. CASE c = "network"
    <3>1. Post("app", "CMD_NETWORK_UPDATE") /\ x # "CMD_NETWORK_UPDATE"
      BY <1>4, <2>5 DEF Call
    <3> QED BY <1>p, <2>1, <3>1
  <2> QED BY <1>4, <2>2, <2>3, <2>4, <2>5 DEF Call
<1>5. CASE TimerExpires
  BY <1>5, <1>p DEF TimerExpires
<1>6. CASE Vad
  <2>1. queue'["q_process"] = queue["q_process"]
    BY <1>6, QuietThreads DEF Quiet
  <2>2. CASE VadSpeech \/ VadSilence
    BY <1>p, <2>1, <2>2 DEF VadSpeech, VadSilence
  <2>3. CASE VadTimeout
    <3>1. \/ Post("vad", "INFO_SPEECH_BEGIN_TIMEOUT")
          \/ Post("vad", "INFO_SPEECH_END_TIMEOUT")
      BY <2>3 DEF VadTimeout
    <3> QED BY <1>p, <2>1, <3>1
  <2>4. CASE VadReceive \/ VadAborted \/ VadRunOver
    BY <1>s, <2>1, <2>4 DEF VadReceive, VadAborted, VadRunOver
  <2> QED BY <1>6, <2>2, <2>3, <2>4 DEF Vad
<1>7. CASE Ddsh
  <2>1. queue'["q_process"] = queue["q_process"]
    BY <1>7, QuietThreads DEF Quiet
  <2> QED BY <1>s, <1>7, <2>1 DEF Ddsh, DdshReceive, DdshHalfOver, DdshFullOver, ddshRest
<1>8. CASE Asr
  <2>1. queue'["q_process"] = queue["q_process"]
    BY <1>8, QuietThreads DEF Quiet
  <2>2. CASE AsrFinish
    BY <1>p, <1>s, <2>1, <2>2 DEF AsrFinish
  <2>3. CASE AsrReceive \/ AsrCancel \/ AsrDone
    BY <1>s, <2>1, <2>3 DEF AsrReceive, AsrCancel, AsrDone
  <2> QED BY <1>8, <2>2, <2>3 DEF Asr
<1>9. CASE Dds
  <2>1. queue'["q_process"] = queue["q_process"]
    BY <1>9, QuietThreads DEF Quiet
  <2>2. CASE DdsResponse
    <3>1. Post("dds", "INFO_ASR_FULL_DM") \/ Post("dds", "INFO_ASR_DM")
      BY <2>2 DEF DdsResponse, Reply
    <3> QED BY <1>p, <2>1, <3>1
  <2>3. CASE DdsVadResult \/ DdsError
    BY <1>p, <2>1, <2>3 DEF DdsVadResult, DdsError, Reply
  <2> QED BY <1>9, <2>2, <2>3 DEF Dds
<1>10. CASE NetProbe \/ NetApply \/ UNCHANGED vars
  BY <1>10, <1>s DEF NetProbe, NetApply, netRest, vars
<1> QED BY <1>1, <1>2, <1>3, <1>4, <1>5, <1>6, <1>7, <1>8, <1>9, <1>10 DEF Next

\* Who changes the engine: the network check and the message of the network update.
LEMMA EngineKept ==
    ASSUME TypeOK, [Next]_vars, ~NetCheck, net_pc = "delay", Absent("CMD_NETWORK_UPDATE")
    PROVE  Pinned /\ net_pc' = "delay"
<1> USE DEF Pinned, engineVars
<1>1. CASE Process
  <2>1. ~NetworkUpdate
    <3>1. ASSUME NetworkUpdate PROVE FALSE
      <4>1. /\ queue["q_process"] \in Seq(Msg) /\ queue["q_process"] # <<>>
            /\ Head(queue["q_process"]) = "CMD_NETWORK_UPDATE"
        BY <3>1 DEF NetworkUpdate, Receive, TypeOK, Queues
      <4> QED BY <4>1, InHead DEF Absent
    <3> QED BY <3>1
  <2> QED BY <1>1, <2>1
        DEF Process, VadRunWhenIdle, VadRunWhenSpeeching, VadRunWhenWaitForAsr, SendVad,
            DdsFullWhenIdle, AsrRunWhenSpeeching, AsrRunWhenWaitForAsr, SendEngine, AsrStop,
            AsrStopWhenIdle, AsrReset, VadWaitOver, EngineWaitOver, SpeechBeginWhenSpeeching,
            SendSelf, Result, ResultWhenIdle, Failure, Refused
<1>2. CASE (\E s \in Sender : Send(s)) \/ ResetOpensRing \/ (\E c \in Calls : Call(c)) \/ TimerExpires
  BY <1>2 DEF Send, ResetOpensRing, Call, TimerExpires
<1>3. CASE Vad \/ Ddsh
  BY <1>3 DEF Vad, VadReceive, VadAborted, VadSpeech, VadSilence, VadTimeout, VadRunOver, vadRest,
              Ddsh, DdshReceive, DdshHalfOver, DdshFullOver, ddshRest
<1>4. CASE Asr \/ Dds
  BY <1>4 DEF Asr, AsrReceive, AsrCancel, AsrFinish, AsrDone, asrRest,
              Dds, DdsResponse, DdsVadResult, DdsError, ddsRest
<1>5. CASE NetProbe \/ NetApply
  BY <1>5 DEF NetProbe, NetApply
<1>6. CASE UNCHANGED vars
  BY <1>6 DEF vars
<1> QED BY <1>1, <1>2, <1>3, <1>4, <1>5, <1>6 DEF Next

(***************************************************************************)
(* Without the network check and network updates nobody does change it:    *)
(* speech is never announced to an engine whose buffer refuses the audio   *)
(* for the rest of the dialogue.                                           *)
(***************************************************************************)
THEOREM EngineRingPinned ==
    ASSUME ~NetCheck, "network" \notin Calls
    PROVE  Spec => []EngineRingReady
<1> DEFINE NoSwitch == net_pc = "delay" /\ Absent("CMD_NETWORK_UPDATE")
<1>1. Init => NoSwitch
  BY EmptySeq DEF Init, Absent, In, Queues, NoMsg
<1>2. IInv /\ NoSwitch /\ [Next]_vars => NoSwitch' /\ [Pinned]_vars
  BY EngineKept, AbsentNext DEF IInv
<1> HIDE DEF NoSwitch
<1> QED BY InitIInv, NextIInv, <1>1, <1>2, EngineRingOpen, PTL DEF Spec
-------------------------------------------------------------------------------
(***************************************************************************)
(* VadStreamServed is inductive but for one step: a reset that process     *)
(* reads in IDLE, where the table handles it like CMD_VAD_RUN and sends    *)
(* CMD_ASR_RESET on to the thread vad, which drops it.                     *)
(***************************************************************************)
IdleReset == VadRunWhenIdle /\ Received = "CMD_ASR_RESET"

\* The run or the session that reads the microphone, or the message that starts it.
VadServed  == vad_pc \in {"silence", "speech", "ended"} \/ In("CMD_VAD_RUN", queue["q_vad"])
FullServed == ddsh_pc = "full" \/ In("CMD_DDS_FULL", queue["q_dds_helper"])

LEMMA ServedOthers == TypeOK /\ VadStreamServed /\ [Next]_vars /\ ~Process => VadStreamServed'
<1> SUFFICES ASSUME TypeOK, VadStreamServed, [Next]_vars, ~Process PROVE VadStreamServed'
  OBVIOUS
<1>1. UNCHANGED processVars
  BY OnlyProcess
<1> USE DEF processVars
<1>q. /\ queue["q_vad"] \in Seq(Msg) /\ queue["q_dds_helper"] \in Seq(Msg)
  BY DEF TypeOK, Queues
\* A step that serves as before, or after which the buffer is not open.
<1>k. ASSUME \/ rb'["rb_local_vad"] # "open"
             \/ /\ rb'["rb_local_vad"] = "open" => rb["rb_local_vad"] = "open"
                /\ VadServed => VadServed'
                /\ FullServed => FullServed'
      PROVE  VadStreamServed'
  BY <1>1, <1>k DEF VadStreamServed, VadServed, FullServed
<1>2. CASE \E s \in Sender : Send(s)
  <2>1. UNCHANGED <<rb, vad_pc, ddsh_pc, queue["q_vad"], queue["q_dds_helper"]>>
    BY <1>2 DEF Send, Push, TypeOK, Queues
  <2> QED BY <1>k, <2>1 DEF VadServed, FullServed
<1>3. CASE ResetOpensRing
  <2>1. UNCHANGED <<rb["rb_local_vad"], vad_pc, ddsh_pc, queue>>
    BY <1>3 DEF ResetOpensRing, EngineRing, TypeOK, Rings
  <2> QED BY <1>k, <2>1 DEF VadServed, FullServed
<1>4. CASE (\E c \in Calls : Call(c)) \/ TimerExpires \/ Dds \/ NetProbe \/ NetApply
           \/ UNCHANGED vars
  <2>1. UNCHANGED <<rb, vad_pc, ddsh_pc, queue>>
    BY <1>4 DEF Call, TimerExpires, Dds, DdsResponse, DdsVadResult, DdsError, ddsRest,
                NetProbe, NetApply, netRest, threadVars, vars
  <2> QED BY <1>k, <2>1 DEF VadServed, FullServed
<1>5. CASE Vad
  <2>1. CASE VadReceive
    <3>1. /\ queue["q_vad"] # <<>> /\ queue'["q_vad"] = Tail(queue["q_vad"])
          /\ UNCHANGED <<rb, ddsh_pc, queue["q_dds_helper"]>>
          /\ vad_pc = "wait"
          /\ Head(queue["q_vad"]) = "CMD_VAD_RUN" => vad_pc' = "silence"
      BY <2>1 DEF VadReceive, vadRest, Pop, TypeOK, Queues
    <3>2. VadServed => VadServed'
      BY <1>q, <3>1, InTail DEF VadServed
    <3> QED BY <1>k, <3>1, <3>2 DEF FullServed
  <2>2. CASE VadAborted
    BY <1>k, <2>2 DEF VadAborted
  <2>3. CASE VadSpeech \/ VadSilence
    <3>1. UNCHANGED <<rb, ddsh_pc, queue>> /\ vad_pc' \in {"speech", "ended"}
      BY <2>3 DEF VadSpeech, VadSilence, vadRest
    <3> QED BY <1>k, <3>1 DEF VadServed, FullServed
  <2>4. CASE VadTimeout
    <3>1. rb'["rb_local_vad"] # "open"
      BY <2>4 DEF VadTimeout, RingAbort, TypeOK, Rings
    <3> QED BY <1>k, <3>1
  <2>5. CASE VadRunOver
    <3>1. CASE vad_pc = "ended"
      <4>1. rb'["rb_local_vad"] # "open"
        BY <2>5, <3>1 DEF VadRunOver, RingAbort, TypeOK, Rings
      <4> QED BY <1>k, <4>1
    <3>2. CASE vad_pc = "timed_out"
      <4>1. UNCHANGED <<rb, ddsh_pc, queue>>
        BY <2>5, <3>2 DEF VadRunOver, vadRest
      <4> QED BY <1>k, <3>2, <4>1 DEF VadServed, FullServed
    <3> QED BY <2>5, <3>1, <3>2 DEF VadRunOver
  <2> QED BY <1>5, <2>1, <2>2, <2>3, <2>4, <2>5 DEF Vad
<1>6. CASE Ddsh
  <2>1. CASE DdshReceive
    <3>1. /\ queue["q_dds_helper"] # <<>>
          /\ queue'["q_dds_helper"] = Tail(queue["q_dds_helper"])
          /\ UNCHANGED <<rb, vad_pc, queue["q_vad"]>>
          /\ ddsh_pc = "wait"
          /\ Head(queue["q_dds_helper"]) = "CMD_DDS_FULL" => ddsh_pc' = "full"
      BY <2>1 DEF DdshReceive, ddshRest, Pop, TypeOK, Queues
    <3>2. FullServed => FullServed'
      BY <1>q, <3>1, InTail DEF FullServed
    <3> QED BY <1>k, <3>1, <3>2 DEF VadServed
  <2>2. CASE DdshHalfOver
    <3>1. UNCHANGED <<rb, vad_pc, queue>> /\ ddsh_pc = "half"
      BY <2>2 DEF DdshHalfOver, ddshRest
    <3> QED BY <1>k, <3>1 DEF VadServed, FullServed
  <2>3. CASE DdshFullOver
    <3>1. rb'["rb_local_vad"] # "open"
      BY <2>3 DEF DdshFullOver, ddshRest
    <3> QED BY <1>k, <3>1
  <2> QED BY <1>6, <2>1, <2>2, <2>3 DEF Ddsh
<1>7. CASE Asr
  <2>1. UNCHANGED <<rb, vad_pc, ddsh_pc, queue["q_vad"], queue["q_dds_helper"]>>
    BY <1>7 DEF Asr, AsrReceive, AsrCancel, AsrFinish, AsrDone, asrRest, Pop, TypeOK, Queues
  <2> QED BY <1>k, <2>1 DEF VadServed, FullServed
<1> QED BY <1>2, <1>3, <1>4, <1>5, <1>6, <1>7 DEF Next

LEMMA ServedProcess ==
    TypeOK /\ PcOK /\ VadStreamServed /\ Process /\ ~IdleReset => VadStreamServed'
<1> SUFFICES ASSUME TypeOK, PcOK, VadStreamServed, Process, ~IdleReset PROVE VadStreamServed'
  OBVIOUS
<1> USE DEF threadVars
<1>r. ASSUME NEW s, NEW m, Receive(s, m)
      PROVE  /\ Received \in m /\ process_pc = "read"
             /\ UNCHANGED <<queue["q_vad"], queue["q_dds_helper"]>>
  BY <1>r, ReceiveOK DEF Receive, Pop, TypeOK, Queues
<1>q. /\ queue["q_vad"] \in Seq(Msg) /\ queue["q_dds_helper"] \in Seq(Msg)
  BY DEF TypeOK, Queues
\* A handler that leaves the microphone's buffer and its readers as they are.
<1>k. ASSUME process_pc \notin {"send_vad", "send_ddsh"},
             UNCHANGED <<rb["rb_local_vad"], vad_pc, ddsh_pc, queue["q_vad"], queue["q_dds_helper"]>>
      PROVE  VadStreamServed'
  BY <1>k DEF VadStreamServed
<1>1. CASE VadRunWhenIdle \/ VadRunWhenSpeeching
  <2>1. process_pc' = "send_vad" /\ in' = "CMD_VAD_RUN"
    BY <1>1, <1>r DEF VadRunWhenIdle, VadRunWhenSpeeching, BlockAt, IdleReset
  <2> QED BY <2>1 DEF VadStreamServed
<1>2. CASE DdsFullWhenIdle
  <2>1. process_pc' = "send_ddsh" /\ in' = "CMD_DDS_FULL"
    BY <1>2, <1>r DEF DdsFullWhenIdle, BlockAt
  <2> QED BY <2>1 DEF VadStreamServed
<1>3. CASE SendVad
  <2>1. /\ process_pc = "send_vad" /\ in \in Msg
        /\ queue'["q_vad"] = Append(queue["q_vad"], in)
        /\ UNCHANGED <<vad_pc, ddsh_pc, queue["q_dds_helper"]>>
    BY <1>3 DEF SendVad, Push, PcOK, TypeOK, Queues, Msg
  <2>2. rb'["rb_local_vad"] = rb["rb_local_vad"]
    BY <1>3 DEF SendVad, EngineRing, TypeOK, Rings
  <2>3. /\ In("CMD_VAD_RUN", queue["q_vad"]) => In("CMD_VAD_RUN", queue'["q_vad"])
        /\ in = "CMD_VAD_RUN" => In("CMD_VAD_RUN", queue'["q_vad"])
    BY <1>q, <2>1, InAppend
  <2> QED BY <2>1, <2>2, <2>3 DEF VadStreamServed
<1>4. CASE SendEngine
  <2>1. /\ process_pc \in {"send_ddsh", "send_asr"} /\ in \in Msg
        /\ UNCHANGED <<rb, vad_pc, ddsh_pc, queue["q_vad"]>>
    BY <1>4 DEF SendEngine, Push, PcOK, TypeOK, Queues, Msg
  <2>2. /\ In("CMD_DDS_FULL", queue["q_dds_helper"]) =>
              In("CMD_DDS_FULL", queue'["q_dds_helper"])
        /\ process_pc = "send_ddsh" /\ in = "CMD_DDS_FULL" =>
              In("CMD_DDS_FULL", queue'["q_dds_helper"])
    <3>1. CASE process_pc = "send_ddsh"
      <4>1. queue'["q_dds_helper"] = Append(queue["q_dds_helper"], in)
        BY <1>4, <3>1 DEF SendEngine, Push, TypeOK, Queues
      <4> QED BY <1>q, <2>1, <4>1, InAppend
    <3>2. CASE process_pc = "send_asr"
      <4>1. queue'["q_dds_helper"] = queue["q_dds_helper"]
        BY <1>4, <3>2 DEF SendEngine, Push, TypeOK, Queues
      <4> QED BY <3>2, <4>1
    <3> QED BY <2>1, <3>1, <3>2
  <2> QED BY <2>1, <2>2 DEF VadStreamServed
<1>5. CASE AsrStopWhenIdle \/ AsrReset
  <2>1. rb'["rb_local_vad"] # "open"
    BY <1>5 DEF AsrStopWhenIdle, AsrReset, RingAbort, TypeOK, Rings
  <2> QED BY <2>1 DEF VadStreamServed
<1>6. CASE AsrStop
  <2>1. rb'["rb_local_vad"] = rb["rb_local_vad"]
    BY <1>6 DEF AsrStop, EndEngineRing, EngineRing, TypeOK, Rings
  <2> QED BY <1>6, <1>k, <1>r, <2>1 DEF AsrStop
<1>7. CASE VadWaitOver \/ EngineWaitOver
  <2>1. rb'["rb_local_vad"] = rb["rb_local_vad"]
    BY <1>7 DEF VadWaitOver, EngineWaitOver, EndEngineRing, EngineRing, TypeOK, Rings
  <2> QED BY <1>7, <1>k, <2>1 DEF VadWaitOver, EngineWaitOver
<1>8. CASE SendSelf
  <2>1. UNCHANGED <<queue["q_vad"], queue["q_dds_helper"]>>
    BY <1>8 DEF SendSelf, Push, TypeOK, Queues
  <2> QED BY <1>8, <1>k, <2>1 DEF SendSelf
<1>9. CASE VadRunWhenWaitForAsr \/ AsrRunWhenSpeeching \/ AsrRunWhenWaitForAsr \/ SpeechBeginWhenSpeeching
  BY <1>9, <1>k, <1>r DEF VadRunWhenWaitForAsr, AsrRunWhenSpeeching, AsrRunWhenWaitForAsr,
                          SpeechBeginWhenSpeeching
<1>10. CASE Result \/ ResultWhenIdle \/ Failure \/ NetworkUpdate \/ Refused
  BY <1>10, <1>k, <1>r DEF Result, ResultWhenIdle, Failure, NetworkUpdate, Refused
<1> QED BY <1>1, <1>2, <1>3, <1>4, <1>5, <1>6, <1>7, <1>8, <1>9, <1>10 DEF Process

(***************************************************************************)
(* That step is the only way to leave the microphone without a listener:   *)
(* in every behaviour without it an open microphone buffer has a reader,   *)
(* or the message that starts one is under way.                            *)
(***************************************************************************)
THEOREM MicrophoneServed == Spec /\ [][~IdleReset]_vars => []VadStreamServed
<1>1. Init => VadStreamServed
  BY DEF Init, VadStreamServed, Rings
<1>2. IInv /\ VadStreamServed /\ [Next]_vars /\ [~IdleReset]_vars => VadStreamServed'
  <2>1. CASE Process /\ ~IdleReset
    BY <2>1, ServedProcess DEF IInv
  <2>2. CASE ~Process
    BY <2>2, ServedOthers DEF IInv
  <2>3. CASE UNCHANGED vars
    BY <2>3 DEF vars, processVars, VadStreamServed
  <2> QED BY <2>1, <2>2, <2>3
<1> QED BY InitIInv, NextIInv, <1>1, <1>2, PTL DEF Spec

\* dds_type is set before the threads start, and by none of them.
LEMMA DuplexKept == [Next]_vars => dds_type' = dds_type
<1> SUFFICES ASSUME [Next]_vars PROVE dds_type' = dds_type
  OBVIOUS
<1> USE DEF engineVars
<1>1. CASE Process
  BY <1>1 DEF Process, VadRunWhenIdle, VadRunWhenSpeeching, VadRunWhenWaitForAsr, SendVad,
         DdsFullWhenIdle, AsrRunWhenSpeeching, AsrRunWhenWaitForAsr, SendEngine, AsrStop,
         AsrStopWhenIdle, AsrReset, VadWaitOver, EngineWaitOver, SpeechBeginWhenSpeeching,
         SendSelf, Result, ResultWhenIdle, Failure, NetworkUpdate, Refused
<1>2. CASE (\E s \in Sender : Send(s)) \/ ResetOpensRing \/ (\E c \in Calls : Call(c)) \/ TimerExpires
  BY <1>2 DEF Send, ResetOpensRing, Call, TimerExpires
<1>3. CASE Vad \/ Ddsh
  BY <1>3 DEF Vad, VadReceive, VadAborted, VadSpeech, VadSilence, VadTimeout, VadRunOver, vadRest,
              Ddsh, DdshReceive, DdshHalfOver, DdshFullOver, ddshRest
<1>4. CASE Asr \/ Dds
  BY <1>4 DEF Asr, AsrReceive, AsrCancel, AsrFinish, AsrDone, asrRest,
              Dds, DdsResponse, DdsVadResult, DdsError, ddsRest
<1>5. CASE NetProbe \/ NetApply \/ UNCHANGED vars
  BY <1>5 DEF NetProbe, NetApply, netRest, vars
<1> QED BY <1>1, <1>2, <1>3, <1>4, <1>5 DEF Next

(***************************************************************************)
(* So no dialogue is begun that nobody listens to, if the application does *)
(* not reset, or if the duplex is full, where asr_processor_reset returns  *)
(* at once.                                                                *)
(***************************************************************************)
THEOREM MicrophoneServedWithoutReset ==
    ASSUME "reset" \notin Calls \/ Duplexes \subseteq {"FULL"}
    PROVE  Spec => []VadStreamServed
<1> DEFINE NoReset == dds_type \in Duplexes /\ Absent("CMD_ASR_RESET")
<1>1. Init => NoReset
  BY EmptySeq DEF Init, Absent, In, Queues, NoMsg
<1>2. IInv /\ NoReset /\ [Next]_vars => NoReset' /\ [~IdleReset]_vars
  <2> SUFFICES ASSUME IInv, NoReset, [Next]_vars PROVE NoReset' /\ [~IdleReset]_vars
    OBVIOUS
  <2>1. Absent("CMD_ASR_RESET")'
    BY AbsentNext DEF IInv
  <2>2. dds_type' = dds_type
    BY DuplexKept
  <2>3. ~IdleReset
    <3>1. ASSUME IdleReset PROVE FALSE
      <4>1. /\ queue["q_process"] \in Seq(Msg) /\ queue["q_process"] # <<>>
            /\ Head(queue["q_process"]) = "CMD_ASR_RESET"
        BY <3>1 DEF IdleReset, VadRunWhenIdle, Receive, Received, IInv, TypeOK, Queues
      <4> QED BY <4>1, InHead DEF Absent
    <3> QED BY <3>1
  <2> QED BY <2>1, <2>2, <2>3
<1> HIDE DEF NoReset
<1> QED BY InitIInv, NextIInv, <1>1, <1>2, MicrophoneServed, PTL DEF Spec
===============================================================================
