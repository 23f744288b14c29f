------------------------------ MODULE Parts_proofs ------------------------------
(***************************************************************************)
(* Theorems about the parts that share no variable: EngineChoice,          *)
(* DdsSession, FactoryTest, VosDaemon and DeviceSearch, each of its own    *)
(* specification and for every value of its constants; and about their     *)
(* composition with the parts of Voice_proofs and WebConnect_proofs.       *)
(***************************************************************************)
EXTENDS MCParts, Voice_proofs, WebConnect_proofs, SequenceTheorems, TLAPS

-------------------------------------------------------------------------------
(***************************************************************************)
(* The engine set by hand (EngineChoice), for any number of settings.      *)
(***************************************************************************)

(***************************************************************************)
(* What makes the choice safe: whoever takes it has turned the check off,  *)
(* and the bit he waits for, cleared since, can only have been set by a    *)
(* net_check that has gone round since and found it off.                   *)
(***************************************************************************)
NoProbe == net_pc \in {"running", "tell"}

CheckOff  == choice_pc \in {"clear", "wait", "assign"} => ~net_check_running
SignTrue  == choice_pc = "assign" \/ (choice_pc = "wait" /\ or_asr_done) => NoProbe
PinStays  == pinned # "none" => ~net_check_running /\ NoProbe /\ asr_type = pinned

PinInv == CheckOff /\ SignTrue /\ PinStays

LEMMA PinStep == PinInv /\ [EngineNext]_engineVars => PinInv'
<1> SUFFICES ASSUME PinInv, [EngineNext]_engineVars PROVE PinInv'
  OBVIOUS
<1> USE DEF PinInv, CheckOff, SignTrue, PinStays, NoProbe, choiceVars
<1>1. CASE NetCheck
  <2>1. CASE NetReadsRunning BY <2>1 DEF NetReadsRunning, NetGoto
  <2>2. CASE NetReadsLock BY <2>2 DEF NetReadsLock, NetGoto
  <2>3. CASE NetProbes BY <2>3 DEF NetProbes, NetGoto
  <2>4. CASE NetApplies BY <2>4 DEF NetApplies, NetGoto
  <2>5. CASE NetTells BY <2>5 DEF NetTells, NetGoto
  <2> QED BY <1>1, <2>1, <2>2, <2>3, <2>4, <2>5 DEF NetCheck
<1>2. CASE Choice
  <2>1. CASE ChoiceStopsCheck BY <2>1 DEF ChoiceStopsCheck, ChoiceGoto
  <2>2. CASE ChoiceClearsBit BY <2>2 DEF ChoiceClearsBit, ChoiceGoto
  <2>3. CASE ChoiceWaits BY <2>3 DEF ChoiceWaits, ChoiceGoto
  <2>4. CASE ChoiceAssigns BY <2>4 DEF ChoiceAssigns, ChoiceGoto
  <2> QED BY <1>2, <2>1, <2>2, <2>3, <2>4 DEF Choice
<1>3. CASE RestoreNetCheck
  BY <1>3 DEF RestoreNetCheck
<1>4. CASE NetworkUpdate
  BY <1>4 DEF NetworkUpdate
<1>5. CASE LockChanges
  BY <1>5 DEF LockChanges
<1>6. ASSUME NEW e \in Engines, ChoiceBegins(e) PROVE PinInv'
  BY <1>6 DEF ChoiceBegins, ChoiceGoto
<1>7. CASE UNCHANGED engineVars
  BY <1>7 DEF engineVars
<1> QED BY <1>1, <1>2, <1>3, <1>4, <1>5, <1>6, <1>7 DEF EngineNext

(***************************************************************************)
(* The engine set by hand stays, however probes, restores and further      *)
(* settings interleave.                                                    *)
(***************************************************************************)
THEOREM EnginePinnedAlways == EngineSpec => []EnginePinned
<1>1. EngineInit => PinInv
  BY DEF EngineInit, PinInv, CheckOff, SignTrue, PinStays, NoProbe
<1>2. PinInv => EnginePinned
  BY DEF PinInv, PinStays, EnginePinned
<1> QED BY <1>1, <1>2, PinStep, PTL DEF EngineSpec

(***************************************************************************)
(* The types of EngineChoice's variables: its flags, and the rest.          *)
(***************************************************************************)
EngineMarks == /\ net_check_running \in BOOLEAN /\ choice_lock \in BOOLEAN
               /\ or_asr_done \in BOOLEAN

EngineData ==
    /\ asr_type \in Engines
    /\ net_pc \in {"running", "lock", "probe", "apply_local", "apply_dui", "tell"}
    /\ choice_pc \in {"idle", "stop", "clear", "wait", "assign"}
    /\ choice \in Engines
    /\ updates \in 0 .. 2
    /\ pinned \in Engines \cup {"none"}
    /\ choices \in 0 .. MaxChoices

\* They keep them.
LEMMA EngineTypeAlways == EngineSpec => []EngineTypeOK
<1>1. EngineInit => EngineMarks /\ EngineData
  <2>1. EngineInit => EngineMarks
    BY DEF EngineInit, EngineMarks
  <2>2. EngineInit => EngineData
    <3>1. 0 \in 0 .. MaxChoices /\ 2 \in 0 .. 2
      BY ChoicesAssumption
    <3> QED BY <3>1, Zenon DEF EngineInit, EngineData, Engines
  <2> QED BY <2>1, <2>2
<1>2. EngineMarks /\ [EngineNext]_engineVars => EngineMarks'
  BY Zenon DEF EngineMarks, engineVars, choiceVars, EngineNext, NetCheck, NetReadsRunning,
               NetReadsLock, NetProbes, NetApplies, NetTells, Choice, ChoiceStopsCheck,
               ChoiceClearsBit, ChoiceWaits, ChoiceAssigns, RestoreNetCheck, NetworkUpdate,
               LockChanges, ChoiceBegins
<1>3. EngineData /\ [EngineNext]_engineVars => EngineData'
  <2> SUFFICES ASSUME EngineData, [EngineNext]_engineVars PROVE EngineData'
    OBVIOUS
  <2> USE ChoicesAssumption DEF EngineData, Engines, choiceVars, NetGoto, ChoiceGoto
  <2>1. CASE NetReadsRunning \/ NetReadsLock \/ NetTells
    BY <2>1 DEF NetReadsRunning, NetReadsLock, NetTells
  <2>2. CASE NetProbes \/ NetApplies
    BY <2>2 DEF NetProbes, NetApplies
  <2>3. CASE Choice
    BY <2>3 DEF Choice, ChoiceStopsCheck, ChoiceClearsBit, ChoiceWaits, ChoiceAssigns
  <2>4. CASE RestoreNetCheck \/ NetworkUpdate \/ LockChanges
    BY <2>4 DEF RestoreNetCheck, NetworkUpdate, LockChanges
  <2>5. ASSUME NEW e \in Engines, ChoiceBegins(e) PROVE EngineData'
    <3>1. PICK pc \in {"stop", "idle"} : choice_pc' = pc
      BY <2>5 DEF ChoiceBegins
    <3>2. /\ choices < MaxChoices /\ choices' = choices + 1 /\ choice' = e
          /\ UNCHANGED <<asr_type, net_pc, updates, pinned>>
      BY <2>5 DEF ChoiceBegins
    <3> QED BY <3>1, <3>2
  <2>6. CASE UNCHANGED engineVars
    BY <2>6 DEF engineVars
  <2> QED BY <2>1, <2>2, <2>3, <2>4, <2>5, <2>6 DEF EngineNext, NetCheck
<1>4. EngineMarks /\ EngineData => EngineTypeOK
  BY DEF EngineMarks, EngineData, EngineTypeOK
<1> QED BY <1>1, <1>2, <1>3, <1>4, PTL DEF EngineSpec

-------------------------------------------------------------------------------
(***************************************************************************)
(* The session of the cloud (DdsSession), for any number of types the      *)
(* console sets.                                                           *)
(***************************************************************************)

(***************************************************************************)
(* The variables always have values of their types.                        *)
(***************************************************************************)
DataOK ==
    /\ dds_type \in Types
    /\ dds_bits \subseteq {"READY_DONE", "CHANGE_MODE"}
    /\ dds_pc \in {"wait", "in_start", "over"}
    /\ session \in {"none", "up", "told"}
    /\ dds_object \in Types \cup {"deleted"}
    /\ setter_pc \in [Setters -> {"login", "idle", "assign", "exit", "await", "delete", "build",
                                  "ready", "messages"}]
    /\ wanted \in [Setters -> Types]
    /\ login \in {"not_yet", "done", "failed"}
    /\ sets \in 0 .. MaxSets

FlagsOK == dds_lock \in BOOLEAN /\ missed \in BOOLEAN

LEMMA InitData == DdsInit => DataOK
  BY SetsAssumption DEF DdsInit, DataOK, Types, Setters

LEMMA DataStep == DataOK /\ [DdsNext]_ddsVars => DataOK'
<1> SUFFICES ASSUME DataOK, [DdsNext]_ddsVars PROVE DataOK'
  OBVIOUS
<1> USE SetsAssumption DEF DataOK, Types, Setters, SetterGoto
<1>1. CASE LoginDone
  BY <1>1 DEF LoginDone
<1>2. CASE MainInsists
  <2>1. PICK pc \in {"messages", "assign", "idle"} : SetterGoto("main", pc)
    BY <1>2 DEF MainInsists
  <2> QED BY <1>2, <2>1 DEF MainInsists
<1>3. CASE DialogueChanges
  BY <1>3 DEF DialogueChanges
<1>4. ASSUME NEW t \in Types, ConsoleSets(t) PROVE DataOK'
  <2>1. PICK pc \in {"assign", "idle"} : SetterGoto("console", pc)
    BY <1>4 DEF ConsoleSets
  <2> QED BY <1>4, <2>1 DEF ConsoleSets
<1>5. ASSUME NEW c \in Setters, Setter(c) PROVE DataOK'
  <2>1. CASE AssignType(c) BY <2>1 DEF AssignType
  <2>2. CASE SendExit(c) BY <2>2 DEF SendExit
  <2>3. CASE AwaitChangeMode(c) BY <2>3 DEF AwaitChangeMode
  <2>4. CASE DeleteObject(c) BY <2>4 DEF DeleteObject
  <2>5. CASE BuildObject(c) BY <2>5 DEF BuildObject
  <2>6. CASE SetReady(c) BY <2>6 DEF SetReady
  <2> QED BY <1>5, <2>1, <2>2, <2>3, <2>4, <2>5, <2>6 DEF Setter
<1>6. CASE Dds
  BY <1>6 DEF Dds, DdsStart, SessionUp, SessionObeys, SessionEnds, DdsOver, ddsRest
<1>7. CASE SessionEnds
  BY <1>7 DEF SessionEnds, ddsRest
<1>8. CASE UNCHANGED ddsVars
  BY <1>8 DEF ddsVars
<1> QED BY <1>1, <1>2, <1>3, <1>4, <1>5, <1>6, <1>7, <1>8 DEF DdsNext

LEMMA FlagsStep == FlagsOK /\ [DdsNext]_ddsVars => FlagsOK'
  BY DEF FlagsOK, ddsVars, DdsNext, LoginDone, MainInsists, ConsoleSets, DialogueChanges,
         Setter, AssignType, SendExit, AwaitChangeMode, DeleteObject, BuildObject, SetReady,
         Dds, DdsStart, SessionUp, SessionObeys, SessionEnds, DdsOver, ddsRest

(***************************************************************************)
(* Every variable of the dialogue session keeps its type, whoever sets the *)
(* type of the object and whenever a session starts.                       *)
(***************************************************************************)
THEOREM DdsTypeCorrect == DdsSpec => []DdsTypeOK
<1>1. DdsInit => FlagsOK
  BY DEF DdsInit, FlagsOK
<1>2. DataOK /\ FlagsOK => DdsTypeOK
  BY DEF DataOK, FlagsOK, DdsTypeOK
<1> QED BY <1>1, <1>2, InitData, DataStep, FlagsStep, PTL DEF DdsSpec

(***************************************************************************)
(* The object is handed over like a token: READY_DONE gives it to the      *)
(* thread dds, CHANGE_MODE gives it back, and each bit is taken by one.    *)
(***************************************************************************)
Ready     == "READY_DONE" \in dds_bits
Using     == dds_pc \in {"in_start", "over"}
Returned  == "CHANGE_MODE" \in dds_bits
Has(c)    == setter_pc[c] \in {"delete", "build", "ready"}

OneOwner ==
    /\ ~(Ready /\ Using) /\ ~(Ready /\ Returned) /\ ~(Using /\ Returned)
    /\ \A c \in Setters : Has(c) => ~Ready /\ ~Using /\ ~Returned
    /\ \A c, d \in Setters : Has(c) /\ Has(d) => c = d

\* Who deleted the object has it, and has not built the next.
DeletedByOwner == dds_object = "deleted" => \E c \in Setters : setter_pc[c] = "build"

\* Who changed the type last has still to build its object.
Rebuilding == dds_object # dds_type =>
                \E c \in Setters : setter_pc[c] \in {"exit", "await", "delete", "build"}

OwnerInv == OneOwner /\ DeletedByOwner /\ Rebuilding

LEMMA OwnerStep == DdsTypeOK /\ OwnerInv /\ [DdsNext]_ddsVars => OwnerInv'
<1> SUFFICES ASSUME DdsTypeOK, OwnerInv, [DdsNext]_ddsVars PROVE OwnerInv'
  OBVIOUS
<1> USE DEF DdsTypeOK, OwnerInv, OneOwner, DeletedByOwner, Rebuilding, Ready, Using, Returned,
            Has, Types, Setters, SetterGoto
<1>1. CASE LoginDone
  BY <1>1 DEF LoginDone
<1>2. CASE MainInsists
  <2>1. PICK pc \in {"messages", "assign", "idle"} : SetterGoto("main", pc)
    BY <1>2 DEF MainInsists
  <2> QED BY <1>2, <2>1 DEF MainInsists
<1>3. CASE DialogueChanges
  BY <1>3 DEF DialogueChanges
<1>4. ASSUME NEW t \in Types, ConsoleSets(t) PROVE OwnerInv'
  <2>1. PICK pc \in {"assign", "idle"} : SetterGoto("console", pc)
    BY <1>4 DEF ConsoleSets
  <2> QED BY <1>4, <2>1 DEF ConsoleSets
<1>5. ASSUME NEW c \in Setters, Setter(c) PROVE OwnerInv'
  <2>1. CASE AssignType(c) BY <2>1 DEF AssignType
  <2>2. CASE SendExit(c) BY <2>2 DEF SendExit
  <2>3. CASE AwaitChangeMode(c) BY <2>3 DEF AwaitChangeMode
  <2>4. CASE DeleteObject(c) BY <2>4 DEF DeleteObject
  <2>5. CASE BuildObject(c) BY <2>5 DEF BuildObject
  <2>6. CASE SetReady(c) BY <2>6 DEF SetReady
  <2> QED BY <1>5, <2>1, <2>2, <2>3, <2>4, <2>5, <2>6 DEF Setter
<1>6. CASE Dds
  <2>1. CASE DdsStart BY <2>1 DEF DdsStart, ddsRest
  <2>2. CASE SessionUp BY <2>2 DEF SessionUp, ddsRest
  <2>3. CASE SessionObeys BY <2>3 DEF SessionObeys, SessionEnds, ddsRest
  <2>4. CASE DdsOver BY <2>4 DEF DdsOver, ddsRest
  <2> QED BY <1>6, <2>1, <2>2, <2>3, <2>4 DEF Dds
<1>7. CASE SessionEnds
  BY <1>7 DEF SessionEnds, ddsRest
<1>8. CASE UNCHANGED ddsVars
  BY <1>8 DEF ddsVars
<1> QED BY <1>1, <1>2, <1>3, <1>4, <1>5, <1>6, <1>7, <1>8 DEF DdsNext

LEMMA OwnerAlways == DdsSpec => []OwnerInv
<1>1. DdsInit => OwnerInv
  BY DEF DdsInit, OwnerInv, OneOwner, DeletedByOwner, Rebuilding, Ready, Using, Returned, Has,
         Types, Setters
<1> QED BY <1>1, OwnerStep, DdsTypeCorrect, PTL DEF DdsSpec

(***************************************************************************)
(* Whoever sets the type, how often and when: s_ap.dds is neither deleted  *)
(* nor rebuilt while dds_start uses it.                                    *)
(***************************************************************************)
THEOREM DdsExclusiveAlways == DdsSpec => []DdsExclusive
<1>1. OwnerInv => DdsExclusive
  BY DEF OwnerInv, OneOwner, DeletedByOwner, Ready, Using, Returned, Has, DdsExclusive
<1> QED BY <1>1, OwnerAlways, PTL

(***************************************************************************)
(* When nobody changes the type, the object has the type that was set last.*)
(***************************************************************************)
THEOREM ModeAgreesAlways == DdsSpec => []ModeAgrees
<1>1. OwnerInv => ModeAgrees
  BY DEF OwnerInv, Rebuilding, ModeAgrees
<1> QED BY <1>1, OwnerAlways, PTL

-------------------------------------------------------------------------------
(***************************************************************************)
(* The factory test (FactoryTest), for any number of tests, any amount an  *)
(* engine wants and any size of the ring buffer.                           *)
(***************************************************************************)

\* A test is under way: from gFactoryEnable to the end of fct_end.
Running == gFactoryEnable \/ run_pc # "loop"

Data ==
    /\ tests \in Nat /\ ft_engine \in 0 .. tests /\ deleted \subseteq 1 .. tests
    /\ run_pc \in {"loop", "read", "feed", "calc", "end", "finish", "delete"}
    /\ start_pc \in {"idle", "new", "enable", "ring", "flag"}
    /\ fct_audio \in Seq(Nat) /\ piece \in Nat

(***************************************************************************)
(* The console and the thread take turns with the engine: the console has  *)
(* it before gFactoryEnable is set, the thread after that.                 *)
(***************************************************************************)
Turns ==
    /\ start_pc \in {"new", "enable"} => ~Running /\ tests \notin deleted \cup {0}
    /\ start_pc = "enable" => ft_engine = tests
    /\ Running => ft_engine = tests /\ tests \notin deleted \cup {0}
    /\ run_pc \in {"finish", "delete"} => ~gFactoryEnable

\* The ring buffer has been started, and the thread has not read before that.
OwnOnly ==
    ~early =>
        /\ Running /\ start_pc # "ring" =>
              \A i \in 1 .. Len(fct_audio) : fct_audio[i] = tests
        /\ run_pc = "feed" => piece \in {0, tests}
        /\ ~mixed

FctInv == Data /\ (~overlap => Turns /\ OwnOnly)

LEMMA StartStep == ASSUME FctInv, FctStart PROVE FctInv'
<1> USE DEF FctInv, Data, Turns, OwnOnly, Running, FctStart, StartGoto
<1>1. Data'
  OBVIOUS
<1>2. overlap' = (overlap \/ gFactoryEnable \/ run_pc # "loop")
  OBVIOUS
<1>3. ~overlap' => ~overlap /\ ~Running
  BY <1>2
<1>4. ~overlap' => Turns'
  BY <1>3
<1>5. ~overlap' => OwnOnly'
  BY <1>3
<1> QED BY <1>1, <1>4, <1>5

LEMMA TestStartStep == ASSUME FctInv, FactoryTestStart PROVE FctInv'
<1> USE DEF FctInv, Data, Turns, OwnOnly, Running, StartGoto
<1>1. CASE EngineNew
  BY <1>1 DEF EngineNew
<1>2. CASE Enable
  BY <1>2 DEF Enable
<1>3. CASE StartRing
  BY <1>3, EmptySeq DEF StartRing
<1>4. CASE StartFct
  BY <1>4 DEF StartFct
<1> QED BY <1>1, <1>2, <1>3, <1>4 DEF FactoryTestStart

LEMMA AudioStep == ASSUME FctInv, AudioFeed PROVE FctInv'
<1>1. /\ fct_audio' = Append(fct_audio, tests)
      /\ tests \in Nat /\ fct_audio \in Seq(Nat)
  BY DEF FctInv, Data, AudioFeed
<1>2. /\ fct_audio' \in Seq(Nat) /\ Len(fct_audio') = Len(fct_audio) + 1
      /\ Len(fct_audio) \in Nat
      /\ \A i \in 1 .. Len(fct_audio) : fct_audio'[i] = fct_audio[i]
      /\ fct_audio'[Len(fct_audio) + 1] = tests
  BY <1>1, AppendProperties, LenProperties
<1>3. ASSUME \A i \in 1 .. Len(fct_audio) : fct_audio[i] = tests
      PROVE  \A i \in 1 .. Len(fct_audio') : fct_audio'[i] = tests
  BY <1>2, <1>3
<1> QED BY <1>2, <1>3 DEF AudioFeed, FctInv, Data, Turns, OwnOnly, Running

LEMMA ReadStep == ASSUME FctInv, RunRead PROVE FctInv'
<1>1. /\ run_pc = "read" /\ run_pc' = "feed"
      /\ UNCHANGED <<ft_engine, deleted, gFactoryEnable, start_pc, tests, overlap, mixed>>
  BY DEF RunRead, RunGoto, runRest
<1>2. ~early' => ~early /\ start_pc # "ring"
  <2>1. early' = (early \/ start_pc = "ring")
    BY DEF RunRead
  <2> QED BY <2>1
<1>3. /\ fct_audio' \in Seq(Nat) /\ piece' \in Nat
      /\ (\A i \in 1 .. Len(fct_audio) : fct_audio[i] = tests) =>
           /\ \A i \in 1 .. Len(fct_audio') : fct_audio'[i] = tests
           /\ piece' \in {0, tests}
  <2>1. fct_audio \in Seq(Nat)
    BY DEF FctInv, Data
  <2>2. CASE fct_audio # <<>> /\ piece' = Head(fct_audio) /\ fct_audio' = Tail(fct_audio)
    <3>1. /\ Head(fct_audio) = fct_audio[1] /\ Head(fct_audio) \in Nat
          /\ Tail(fct_audio) \in Seq(Nat) /\ Len(Tail(fct_audio)) = Len(fct_audio) - 1
          /\ \A i \in 1 .. Len(Tail(fct_audio)) : Tail(fct_audio)[i] = fct_audio[i + 1]
          /\ Len(fct_audio) \in Nat /\ Len(fct_audio) # 0
      BY <2>1, <2>2, HeadTailProperties, LenProperties, EmptySeq
    <3> QED BY <2>2, <3>1
  <2>3. CASE piece' = 0 /\ UNCHANGED fct_audio
    BY <2>1, <2>3
  <2> QED BY <2>2, <2>3 DEF RunRead
<1>4. Data'
  BY <1>1, <1>3 DEF FctInv, Data
<1>5. ~overlap' => Turns'
  BY <1>1 DEF FctInv, Turns, Running
<1>6. ~overlap' => OwnOnly'
  BY <1>1, <1>2, <1>3 DEF FctInv, OwnOnly, Running
<1> QED BY <1>4, <1>5, <1>6 DEF FctInv

LEMMA FeedStep == ASSUME FctInv, RunFeed PROVE FctInv'
<1>1. /\ run_pc = "feed" /\ run_pc' \in {"calc", "loop"} /\ piece' = 0
      /\ UNCHANGED <<ft_engine, deleted, gFactoryEnable, fct_audio, start_pc, tests, overlap,
                     early>>
  BY DEF RunFeed, runRest
<1>2. mixed' = (mixed \/ (piece # 0 /\ piece # ft_engine))
  BY DEF RunFeed
<1>3. Data'
  BY <1>1 DEF FctInv, Data
<1>4. ~overlap' => Turns'
  BY <1>1 DEF FctInv, Turns, Running
<1>5. ASSUME ~overlap, ~early PROVE ~mixed'
  BY <1>1, <1>2, <1>5 DEF FctInv, Turns, OwnOnly, Running
<1>6. ~overlap' => OwnOnly'
  BY <1>1, <1>5 DEF FctInv, OwnOnly, Running
<1> QED BY <1>3, <1>4, <1>6 DEF FctInv

LEMMA RunStep == ASSUME FctInv, FactoryRun PROVE FctInv'
<1> USE DEF FctInv, Data, Turns, OwnOnly, Running, RunGoto, runRest
<1>1. CASE RunLoop
  BY <1>1 DEF RunLoop
<1>2. CASE RunCalc
  BY <1>2 DEF RunCalc
<1>3. CASE EndDisable
  BY <1>3 DEF EndDisable
<1>4. CASE EndFinish
  BY <1>4 DEF EndFinish
<1>5. CASE EndDelete
  BY <1>5 DEF EndDelete
<1> QED BY <1>1, <1>2, <1>3, <1>4, <1>5, ReadStep, FeedStep DEF FactoryRun

LEMMA FctAlways == FctSpec => []FctInv
<1>1. FctInit => FctInv
  BY EmptySeq DEF FctInit, FctInv, Data, Turns, OwnOnly, Running
<1>2. FctInv /\ [FctNext]_fctVars => FctInv'
  <2>1. ASSUME FctInv, UNCHANGED fctVars PROVE FctInv'
    BY <2>1 DEF fctVars, FctInv, Data, Turns, OwnOnly, Running
  <2> QED BY <2>1, StartStep, TestStartStep, AudioStep, RunStep DEF FctNext
<1> QED BY <1>1, <1>2, PTL DEF FctSpec

(***************************************************************************)
(* As long as no test is started before the last one is over, no engine is *)
(* used before it is created or after it was deleted, and none is deleted  *)
(* twice.                                                                  *)
(***************************************************************************)
THEOREM EngineLiveAlways == FctSpec => []EngineLive
<1>1. FctInv => EngineLive
  BY DEF FctInv, Turns, Running, EngineLive
<1> QED BY <1>1, FctAlways, PTL

(***************************************************************************)
(* Nor is an engine fed what was heard during an earlier test.             *)
(***************************************************************************)
THEOREM OwnAudioAlways == FctSpec => []OwnAudio
<1>1. FctInv => OwnAudio
  BY DEF FctInv, OwnOnly, OwnAudio
<1> QED BY <1>1, FctAlways, PTL

(***************************************************************************)
(* Once a test has been started there is one: the audio is heard during a  *)
(* test that has a number.                                                 *)
(***************************************************************************)
TestStarted == fct_test_flag \/ start_pc # "idle" => tests # 0

FctMarks ==
    /\ gFactoryEnable \in BOOLEAN /\ fct_test_flag \in BOOLEAN
    /\ overlap \in BOOLEAN /\ early \in BOOLEAN /\ mixed \in BOOLEAN

FctCounts ==
    /\ tests \in 0 .. MaxTests /\ results \in Nat /\ length \in 0 .. Enough
    /\ rb_fct \in Ghost!RingStatus
    /\ fct_audio \in Seq(1 .. MaxTests) /\ Len(fct_audio) <= RingSize
    /\ piece \in 0 .. MaxTests

\* The variables of FactoryTest keep their types.
LEMMA FctTypeAlways == FctSpec => []FctTypeOK
<1>1. FctInit => FctMarks /\ TestStarted /\ FctCounts
  <2>1. FctInit => FctMarks
    BY DEF FctInit, FctMarks
  <2>2. FctInit => TestStarted
    BY DEF FctInit, TestStarted
  <2>3. FctInit => FctCounts
    <3>1. /\ 0 \in 0 .. MaxTests /\ 0 \in Nat /\ 0 \in 0 .. Enough
          /\ <<>> \in Seq(1 .. MaxTests) /\ Len(<<>>) <= RingSize
      BY FctAssumption
    <3>2. "closed" \in Ghost!RingStatus
      BY DEF Ghost!RingStatus
    <3> QED BY <3>1, <3>2, Zenon DEF FctInit, FctCounts
  <2> QED BY <2>1, <2>2, <2>3
<1>2. FctMarks /\ [FctNext]_fctVars => FctMarks'
  <2> SUFFICES ASSUME FctMarks, [FctNext]_fctVars PROVE FctMarks'
    OBVIOUS
  <2> USE DEF FctMarks, runRest
  <2>1. CASE FctStart \/ FactoryTestStart \/ AudioFeed
    BY <2>1, Zenon DEF FctStart, FactoryTestStart, EngineNew, Enable, StartRing, StartFct,
                       AudioFeed
  <2>2. CASE RunRead \/ RunFeed
    BY <2>2, Zenon DEF RunRead, RunFeed
  <2>3. CASE RunLoop \/ RunCalc \/ EndDisable \/ EndFinish \/ EndDelete
    BY <2>3, Zenon DEF RunLoop, RunCalc, EndDisable, EndFinish, EndDelete
  <2>4. CASE UNCHANGED fctVars
    BY <2>4 DEF fctVars
  <2> QED BY <2>1, <2>2, <2>3, <2>4 DEF FctNext, FactoryRun
<1>3. FctInv /\ TestStarted /\ [FctNext]_fctVars => TestStarted'
  <2> SUFFICES ASSUME FctInv, TestStarted, [FctNext]_fctVars PROVE TestStarted'
    OBVIOUS
  <2> USE DEF TestStarted, StartGoto, RunGoto, runRest
  <2>1. CASE FctStart
    BY <2>1 DEF FctStart, FctInv, Data
  <2>2. CASE FactoryTestStart \/ AudioFeed
    BY <2>2 DEF FactoryTestStart, EngineNew, Enable, StartRing, StartFct, AudioFeed
  <2>3. CASE FactoryRun
    BY <2>3 DEF FactoryRun, RunLoop, RunRead, RunFeed, RunCalc, EndDisable, EndFinish, EndDelete
  <2>4. CASE UNCHANGED fctVars
    BY <2>4 DEF fctVars
  <2> QED BY <2>1, <2>2, <2>3, <2>4 DEF FctNext
<1>4. TestStarted /\ FctCounts /\ [FctNext]_fctVars => FctCounts'
  <2> SUFFICES ASSUME TestStarted, FctCounts, [FctNext]_fctVars PROVE FctCounts'
    OBVIOUS
  <2> USE FctAssumption DEF FctCounts, StartGoto, RunGoto, runRest, Ghost!RingStatus
  <2>1. CASE FctStart
    BY <2>1 DEF FctStart
  <2>2. CASE FactoryTestStart
    <3>1. CASE EngineNew
      BY <3>1 DEF EngineNew
    <3>2. CASE StartRing
      <4>1. <<>> \in Seq(1 .. MaxTests) /\ Len(<<>>) <= RingSize
        OBVIOUS
      <4> QED BY <3>2, <4>1 DEF StartRing, Ghost!RingStart
    <3>3. CASE Enable \/ StartFct
      BY <3>3 DEF Enable, StartFct
    <3> QED BY <2>2, <3>1, <3>2, <3>3 DEF FactoryTestStart
  <2>3. CASE AudioFeed
    <3>1. tests \in 1 .. MaxTests
      BY <2>3 DEF AudioFeed, TestStarted
    <3>2. fct_audio' \in Seq(1 .. MaxTests) /\ Len(fct_audio') = Len(fct_audio) + 1
      BY <2>3, <3>1, AppendProperties DEF AudioFeed
    <3>3. Len(fct_audio) \in Nat
      BY LenProperties
    <3> QED BY <2>3, <3>2, <3>3 DEF AudioFeed
  <2>4. CASE RunRead
    <3>1. CASE fct_audio # <<>> /\ piece' = Head(fct_audio) /\ fct_audio' = Tail(fct_audio)
      <4>1. /\ Head(fct_audio) \in 1 .. MaxTests /\ Tail(fct_audio) \in Seq(1 .. MaxTests)
            /\ Len(Tail(fct_audio)) = Len(fct_audio) - 1 /\ Len(fct_audio) \in Nat
        BY <3>1, HeadTailProperties, LenProperties
      <4>2. piece' \in 0 .. MaxTests /\ Len(fct_audio') <= RingSize
        BY <3>1, <4>1
      <4> QED BY <2>4, <3>1, <4>1, <4>2 DEF RunRead
    <3>2. CASE piece' = 0 /\ UNCHANGED fct_audio
      BY <2>4, <3>2 DEF RunRead
    <3> QED BY <2>4, <3>1, <3>2 DEF RunRead
  <2>5. CASE RunFeed
    <3>1. length' \in 0 .. Enough
      BY <2>5 DEF RunFeed
    <3> QED BY <2>5, <3>1 DEF RunFeed
  <2>6. CASE RunLoop \/ RunCalc \/ EndDisable \/ EndFinish \/ EndDelete
    BY <2>6 DEF RunLoop, RunCalc, EndDisable, EndFinish, EndDelete, Ghost!RingFinish
  <2>7. CASE UNCHANGED fctVars
    BY <2>7 DEF fctVars
  <2> QED BY <2>1, <2>2, <2>3, <2>4, <2>5, <2>6, <2>7 DEF FctNext, FactoryRun
<1>5. FctInv /\ FctMarks /\ FctCounts => FctTypeOK
  BY FctAssumption DEF FctInv, Data, FctMarks, FctCounts, FctTypeOK
<1> QED BY <1>1, <1>2, <1>3, <1>4, <1>5, FctAlways, PTL DEF FctSpec

-------------------------------------------------------------------------------
(***************************************************************************)
(* The daemon (VosDaemon), for any number of changes of card and process.  *)
(***************************************************************************)

LEMMA DaemonTypeStep == DaemonTypeOK /\ [DaemonNext]_daemonVars => DaemonTypeOK'
<1> SUFFICES ASSUME DaemonTypeOK, [DaemonNext]_daemonVars PROVE DaemonTypeOK'
  OBVIOUS
<1> USE ChangesAssumption DEF DaemonTypeOK, UsbNodes, Unknown, DaemonGoto, daemonRest
<1>1. CASE Search
  <2>1. Change(ps_this, ps_this') \in 0 .. 2
    BY DEF Change
  <2>2. ps' \in 0 .. 2
    BY <1>1, <2>1 DEF Search
  <2> QED BY <1>1, <2>2 DEF Search
<1>2. CASE Pgrep BY <1>2 DEF Pgrep
<1>3. CASE Killall BY <1>3 DEF Killall
<1>4. CASE ScriptKills BY <1>4 DEF ScriptKills
<1>5. CASE ScriptLooks BY <1>5 DEF ScriptLooks
<1>6. CASE CardChanges BY <1>6 DEF CardChanges
<1>7. CASE PowerLost BY <1>7 DEF PowerLost
<1>8. CASE FirmwareLoaded BY <1>8 DEF FirmwareLoaded
<1>9. CASE ProcessEnds BY <1>9 DEF ProcessEnds
<1>10. CASE UNCHANGED daemonVars BY <1>10 DEF daemonVars
<1> QED BY <1>1, <1>2, <1>3, <1>4, <1>5, <1>6, <1>7, <1>8, <1>9, <1>10 DEF DaemonNext, Daemon

LEMMA DaemonTypeInit == DaemonInit => DaemonTypeOK
<1> SUFFICES ASSUME DaemonInit PROVE DaemonTypeOK
  OBVIOUS
<1>1. node \in UsbNodes
  BY DEF DaemonInit, UsbNodes
<1>2. process \in {"down", "fresh", "stale"}
  BY DEF DaemonInit
<1>3. 0 \in 0 .. MaxChanges /\ 1 \in 0 .. 2
  BY ChangesAssumption
<1>4. power \in BOOLEAN /\ shifted \in BOOLEAN
  BY DEF DaemonInit
<1> QED BY <1>1, <1>2, <1>3, <1>4 DEF DaemonInit, DaemonTypeOK, UsbNodes

(***************************************************************************)
(* Every variable of the daemon keeps its type: ps and ps_this are numbers *)
(* the daemon tells apart, whatever is plugged in or pulled out meanwhile. *)
(***************************************************************************)
THEOREM DaemonTypeAlways == DaemonSpec => []DaemonTypeOK
  BY DaemonTypeInit, DaemonTypeStep, PTL DEF DaemonSpec

\* The card is gone, or no worse than the daemon's last search found it.
AsFound == \/ node = 0
           \/ ps_this = 1 /\ node \in {1, 2}
           \/ ps_this = 2 /\ node = 2

(***************************************************************************)
(* Without a change between a search and the start it leads to, the        *)
(* process is started for the card the daemon knows, and what it then sees *)
(* of a card whose process is fresh (at most the firmware it has loaded)   *)
(* is no change that would have the process killed.                        *)
(***************************************************************************)
StartedAsFound ==
    /\ process = "fresh" => node # 0
    /\ daemon_pc = "look" => process = "down"
    /\ ~shifted =>
          /\ process = "fresh" => ps_this # 0 /\ AsFound
          /\ daemon_pc = "pgrep" /\ process = "fresh" => ps = 0
          /\ daemon_pc = "pgrep" /\ (usb_ret \in {1, 2} \/ ps \in {1, 2}) => AsFound /\ ps_this # 0
          /\ daemon_pc \in {"killall", "script", "look"} => AsFound /\ ps_this # 0
          /\ daemon_pc = "killall" => process # "fresh"

LEMMA StartedStep ==
    DaemonTypeOK /\ StartedAsFound /\ [DaemonNext]_daemonVars => StartedAsFound'
<1> SUFFICES ASSUME DaemonTypeOK, StartedAsFound, [DaemonNext]_daemonVars PROVE StartedAsFound'
  OBVIOUS
<1> USE DEF DaemonTypeOK, UsbNodes, Unknown, StartedAsFound, AsFound, DaemonGoto, daemonRest
<1>1. CASE Search
  BY <1>1 DEF Search, Change
<1>2. CASE Pgrep
  BY <1>2 DEF Pgrep
<1>3. CASE Killall
  BY <1>3 DEF Killall
<1>4. CASE ScriptKills
  BY <1>4 DEF ScriptKills
<1>5. CASE ScriptLooks
  BY <1>5 DEF ScriptLooks
<1>6. CASE CardChanges
  BY <1>6 DEF CardChanges
<1>7. CASE PowerLost
  BY <1>7 DEF PowerLost
<1>8. CASE FirmwareLoaded
  BY <1>8 DEF FirmwareLoaded
<1>9. CASE ProcessEnds
  BY <1>9 DEF ProcessEnds
<1>10. CASE UNCHANGED daemonVars
  BY <1>10 DEF daemonVars
<1> QED BY <1>1, <1>2, <1>3, <1>4, <1>5, <1>6, <1>7, <1>8, <1>9, <1>10 DEF DaemonNext, Daemon

(***************************************************************************)
(* The daemon does not kill a process that holds the card as it is now,    *)
(* unless the card changed between a search and the start it led to.       *)
(***************************************************************************)
THEOREM RestartJustifiedAlways == DaemonSpec => RestartJustified
<1>1. DaemonInit => StartedAsFound
  BY DEF DaemonInit, StartedAsFound, AsFound, UsbNodes
<1>2. StartedAsFound =>
        (daemon_pc = "killall" /\ daemon_pc' = "script" /\ process = "fresh" => shifted)
  BY DEF StartedAsFound
<1> QED BY <1>1, <1>2, DaemonTypeInit, DaemonTypeStep, StartedStep, PTL
        DEF DaemonSpec, RestartJustified

-------------------------------------------------------------------------------
(***************************************************************************)
(* The search of the tables (DeviceSearch), for any tables, searches and   *)
(* refreshes.                                                              *)
(***************************************************************************)

(***************************************************************************)
(* The mutex keeps a search and a refresh apart: the tables stay as they   *)
(* are from the count of their items on.                                   *)
(***************************************************************************)
Apart == /\ search_pc \in {"item", "attribute", "unlock", "fault"} => config_lock = "search"
         /\ refresh_pc # "idle" => config_lock = "refresh"

\* What a listing of a set gains at its end.
LEMMA ListingAppend ==
    ASSUME NEW s \in Seq(Nat), NEW S, IsListing(s, S), NEW e \in Nat, \A x \in S : x < e
    PROVE  Append(s, e) \in Seq(Nat) /\ IsListing(Append(s, e), S \cup {e})
<1> DEFINE t == Append(s, e)
<1>1. /\ t \in Seq(Nat) /\ Len(t) = Len(s) + 1 /\ Len(s) \in Nat
      /\ \A k \in 1 .. Len(s) : t[k] = s[k]
      /\ t[Len(s) + 1] = e
  OBVIOUS
<1> HIDE DEF t
<1>2. {t[k] : k \in 1 .. Len(t)} = S \cup {e}
  <2>1. {s[k] : k \in 1 .. Len(s)} = S
    BY DEF IsListing
  <2>2. \A k : k \in 1 .. Len(t) <=> k \in 1 .. Len(s) \/ k = Len(s) + 1
    BY <1>1
  <2> QED BY <1>1, <2>1, <2>2
<1>3. ASSUME NEW k \in 1 .. Len(t), NEW l \in 1 .. Len(t), k < l PROVE t[k] < t[l]
  <2>1. k \in 1 .. Len(s) /\ t[k] = s[k]
    BY <1>1, <1>3
  <2>2. CASE l \in 1 .. Len(s)
    BY <1>1, <1>3, <2>1, <2>2 DEF IsListing
  <2>3. CASE l = Len(s) + 1
    <3>1. s[k] \in S
      BY <2>1 DEF IsListing
    <3> QED BY <1>1, <2>1, <2>3, <3>1
  <2> QED BY <1>1, <2>2, <2>3
<1> QED BY <1>1, <1>2, <1>3 DEF IsListing, t

LEMMA SeqOfFunction ==
    ASSUME NEW S, NEW n \in Nat, NEW f \in [1 .. n -> S]
    PROVE  f \in Seq(S) /\ Len(f) = n
<1>1. f \in Seq(S)
  BY SeqDef
<1> QED BY <1>1, LenProperties

LEMMA NothingListed == IsListing(<<>>, {})
  BY DEF IsListing

Packet == [device : Nat, attributes : Seq(Nat)]

PacketOf(i, as) == [device |-> i, attributes |-> as]

(***************************************************************************)
(* The packets of out list the places found, each with its attributes.     *)
(***************************************************************************)
PlacesOf(out) == [k \in 1 .. Len(out) |-> out[k].device]

Packs(out, found, attributes) ==
    /\ out \in Seq(Packet)
    /\ IsListing(PlacesOf(out), found)
    /\ \A k \in 1 .. Len(out) : IsListing(out[k].attributes, attributes[out[k].device])

LEMMA PacksNothing == ASSUME NEW attributes PROVE Packs(<<>>, {}, attributes)
<1>1. PlacesOf(<<>>) = <<>>
  BY DEF PlacesOf
<1> QED BY <1>1, NothingListed DEF Packs

LEMMA PacksMore ==
    ASSUME NEW out, NEW found, NEW attributes, Packs(out, found, attributes),
           NEW i \in Nat, NEW as \in Seq(Nat), IsListing(as, attributes[i]),
           \A x \in found : x < i
    PROVE  Packs(Append(out, PacketOf(i, as)), found \cup {i}, attributes)
<1> DEFINE p == PacketOf(i, as)
           more == Append(out, p)
<1>1. out \in Seq(Packet) /\ p \in Packet
  BY DEF Packs, Packet, PacketOf
<1>2. /\ more \in Seq(Packet) /\ Len(more) = Len(out) + 1 /\ Len(out) \in Nat
      /\ \A k \in 1 .. Len(out) : more[k] = out[k]
      /\ more[Len(out) + 1] = p
  <2> HIDE DEF p
  <2> QED BY <1>1
<1>3. p.device = i /\ p.attributes = as
  BY DEF PacketOf
<1> HIDE DEF p, more
<1>4. PlacesOf(out) \in Seq(Nat) /\ Len(PlacesOf(out)) = Len(out)
  <2>1. \A k \in 1 .. Len(out) : out[k] \in Packet
    BY <1>1
  <2>2. PlacesOf(out) \in [1 .. Len(out) -> Nat]
    BY <2>1 DEF PlacesOf, Packet
  <2>3. PlacesOf(out) \in Seq(Nat)
    BY <1>2, <2>2, SeqDef
  <2> QED BY <1>2, <2>2, <2>3, LenProperties
<1>5. PlacesOf(more) = Append(PlacesOf(out), i)
  <2>1. /\ Append(PlacesOf(out), i) \in Seq(Nat)
        /\ Len(Append(PlacesOf(out), i)) = Len(out) + 1
        /\ \A k \in 1 .. Len(out) : Append(PlacesOf(out), i)[k] = PlacesOf(out)[k]
        /\ Append(PlacesOf(out), i)[Len(out) + 1] = i
    BY <1>4
  <2>2. \A k \in 1 .. Len(more) : more[k] \in Packet
    BY <1>2
  <2>3. PlacesOf(more) \in [1 .. Len(more) -> Nat]
    BY <2>2 DEF PlacesOf, Packet
  <2>4. PlacesOf(more) \in Seq(Nat)
    BY <1>2, <2>3, SeqDef
  <2>5. Len(PlacesOf(more)) = Len(out) + 1
    BY <1>2, <2>3, <2>4, LenProperties
  <2>6. ASSUME NEW k \in 1 .. Len(out) + 1 PROVE PlacesOf(more)[k] = Append(PlacesOf(out), i)[k]
    <3>1. PlacesOf(more)[k] = more[k].device
      BY <1>2 DEF PlacesOf
    <3>2. CASE k \in 1 .. Len(out)
      BY <1>2, <2>1, <3>1, <3>2 DEF PlacesOf
    <3>3. CASE k = Len(out) + 1
      BY <1>2, <1>3, <2>1, <3>1, <3>3
    <3>4. k \in 1 .. Len(out) \/ k = Len(out) + 1
      BY <1>2
    <3> QED BY <3>2, <3>3, <3>4
  <2> QED BY <2>1, <2>4, <2>5, <2>6, SeqEqual
<1>6. IsListing(PlacesOf(more), found \cup {i})
  BY <1>4, <1>5, ListingAppend DEF Packs
<1>7. ASSUME NEW k \in 1 .. Len(more)
      PROVE  IsListing(more[k].attributes, attributes[more[k].device])
  <2>1. CASE k \in 1 .. Len(out)
    BY <1>2, <2>1 DEF Packs
  <2>2. CASE k = Len(out) + 1
    BY <1>2, <1>3, <2>2
  <2> QED BY <1>2, <2>1, <2>2
<1> QED BY <1>2, <1>6, <1>7 DEF Packs, more, p

LEMMA PacketExcept ==
    ASSUME NEW p \in Packet, NEW b \in Seq(Nat)
    PROVE  [p EXCEPT !.attributes = b] = [device |-> p.device, attributes |-> b]
  BY DEF Packet

\* The last packet gains an attribute.
GainAtEnd(s, j) == [s EXCEPT ![Len(s)].attributes = Append(@, j)]

LEMMA LastGains ==
    ASSUME NEW out \in Seq(Packet), NEW i \in Nat, NEW as \in Seq(Nat), NEW j \in Nat
    PROVE  GainAtEnd(Append(out, PacketOf(i, as)), j) = Append(out, PacketOf(i, Append(as, j)))
<1>0. Append(as, j) \in Seq(Nat)
  BY AppendProperties
<1> DEFINE p == PacketOf(i, as)
           q == PacketOf(i, Append(as, j))
           s == Append(out, p)
           t == Append(out, q)
           u == [s EXCEPT ![Len(s)].attributes = Append(@, j)]
<1> HIDE DEF s, t, u
<1>1. p \in Packet /\ q \in Packet /\ q = [p EXCEPT !.attributes = Append(@, j)]
  <2>1. p \in Packet /\ q \in Packet /\ p.device = i /\ p.attributes = as
    BY <1>0 DEF Packet, PacketOf
  <2>2. q = [device |-> p.device, attributes |-> Append(p.attributes, j)]
    <3> HIDE DEF p
    <3> QED BY <2>1 DEF PacketOf
  <2> HIDE DEF p, q
  <2>3. Append(p.attributes, j) \in Seq(Nat)
    BY <1>0, <2>1
  <2>4. [p EXCEPT !.attributes = Append(p.attributes, j)]
        = [device |-> p.device, attributes |-> Append(p.attributes, j)]
    BY <2>1, <2>3, PacketExcept
  <2> QED BY <2>1, <2>2, <2>4
<1> HIDE DEF p, q
<1> USE DEF s, t, u
<1>2. /\ s \in Seq(Packet) /\ t \in Seq(Packet) /\ Len(out) \in Nat
      /\ Len(s) = Len(out) + 1 /\ Len(t) = Len(out) + 1
      /\ s[Len(out) + 1] = p /\ t[Len(out) + 1] = q
      /\ \A k \in 1 .. Len(out) : s[k] = out[k] /\ t[k] = out[k]
  BY <1>1
<1> HIDE DEF s, t
<1>3. u = [s EXCEPT ![Len(s)] = q]
  BY <1>1, <1>2
<1>4. u \in Seq(Packet) /\ Len(u) = Len(s)
      /\ \A k \in 1 .. Len(s) : u[k] = IF k = Len(s) THEN q ELSE s[k]
  <2>1. Len(s) \in 1 .. Len(s)
    BY <1>2
  <2>2. s \in Seq(Packet) /\ q \in Packet
    BY <1>1, <1>2
  <2>3. s \in [1 .. Len(s) -> Packet] /\ Len(s) \in Nat
    BY <2>2, LenProperties
  <2>4. /\ u \in [1 .. Len(s) -> Packet]
        /\ \A k \in 1 .. Len(s) : u[k] = IF k = Len(s) THEN q ELSE s[k]
    BY <1>3, <2>1, <2>2, <2>3
  <2> HIDE DEF u
  <2> QED BY <2>3, <2>4, SeqOfFunction
<1> HIDE DEF u
<1>5. \A k \in 1 .. Len(u) : u[k] = t[k]
  BY <1>2, <1>4
<1>6. u = t
  BY <1>2, <1>4, <1>5, SeqEqual
<1> QED BY <1>6 DEF GainAtEnd, s, t, u, p, q

(***************************************************************************)
(* What is to be found, what of it lies before a place, and how far the    *)
(* loops have come: what lies before i and j is packed, with no flag left  *)
(* from an earlier device.                                                 *)
(***************************************************************************)
ByScene == search_info.search_type = "SCENE_NAME"

Found == IF ByScene THEN FoundScenes ELSE FoundDevices

AttributesFound == [i \in Nat |-> IF ByScene THEN {} ELSE Chosen(dev_array_js[i])]

Before(S, n) == {x \in S : x < n}

TableLen == IF ByScene THEN Len(sence_array_js) ELSE Len(dev_array_js)

PackedOf(out, packed, found, attributes, i, chosen) ==
    \/ chosen = {} /\ ~packed /\ Packs(out, found, attributes)
    \/ /\ chosen # {} /\ packed
       /\ \E o, as : /\ Packs(o, found, attributes)
                     /\ as \in Seq(Nat) /\ IsListing(as, chosen)
                     /\ out = Append(o, PacketOf(i, as))

AtItem == /\ item \in 1 .. item_num + 1
          /\ Packs(out_js, Before(Found, item), AttributesFound)

AtAttribute ==
    /\ ~ByScene /\ item \in 1 .. item_num /\ Passes(TheDevice)
    /\ out_name_matched <=> search_info.search_type \in ByName /\ TheDevice.named
    /\ attr \in 1 .. Len(TheDevice.attribute) + 1
    /\ PackedOf(out_js, find_dev_flag, Before(Found, item), AttributesFound, item,
                Before(Chosen(TheDevice), attr))

TableTypes == dev_array_js \in Seq(Device) /\ sence_array_js \in Seq(Scene)

SearchInv ==
    /\ Apart /\ TableTypes
    /\ search_pc \in {"item", "attribute", "unlock"} => item_num = TableLen
    /\ search_pc = "item" => AtItem
    /\ search_pc = "attribute" => AtAttribute
    /\ search_pc = "unlock" => Packs(out_js, Found, AttributesFound)

LEMMA FoundPlaces ==
    TableTypes => /\ TableLen \in Nat /\ Found \subseteq 1 .. TableLen
                  /\ \A i \in Nat : AttributesFound[i] = IF ByScene THEN {} ELSE Chosen(dev_array_js[i])
  BY DEF TableTypes, TableLen, Found, FoundScenes, FoundDevices, AttributesFound

\* A step of the loops leaves what they look for as it is.
LoopRest == UNCHANGED <<tableVars, search_info, item_num, config_lock, refreshVars>>

LEMMA SameSearch ==
    ASSUME UNCHANGED <<tableVars, search_info>>
    PROVE  /\ Found' = Found /\ AttributesFound' = AttributesFound /\ TableLen' = TableLen
           /\ (ByScene' <=> ByScene) /\ (TableTypes' <=> TableTypes)
           /\ \A d : (Passes(d)' <=> Passes(d)) /\ Chosen(d)' = Chosen(d)
  BY DEF tableVars, Found, AttributesFound, TableLen, ByScene, TableTypes, FoundScenes,
         FoundDevices, Passes, Chosen, Named

LEMMA LocksStep == SearchInv /\ SearchLocks => SearchInv'
<1> SUFFICES ASSUME SearchInv, SearchLocks PROVE SearchInv'
  OBVIOUS
<1>1. /\ search_pc' = "item" /\ config_lock' = "search" /\ config_lock = "free"
      /\ item' = 1 /\ out_js' = <<>> /\ item_num' = TableLen
      /\ UNCHANGED <<tableVars, search_info, refreshVars>>
  BY DEF SearchLocks, TableLen, ByScene
<1>2. TableTypes /\ Apart
  BY DEF SearchInv
<1>3. Apart'
  BY <1>1, <1>2 DEF Apart, refreshVars
<1>4. TableTypes' /\ TableLen' = TableLen
  BY <1>1, <1>2, SameSearch
<1>5. Before(Found', 1) = {}
  BY <1>1, <1>2, SameSearch, FoundPlaces DEF Before
<1>6. item' \in 1 .. item_num' + 1
  BY <1>1, <1>2, FoundPlaces
<1>7. Packs(out_js', Before(Found', item'), AttributesFound')
  BY <1>1, <1>5, PacksNothing
<1> QED BY <1>1, <1>3, <1>4, <1>6, <1>7 DEF SearchInv, AtItem

LEMMA ItemsOverStep == SearchInv /\ ItemsOver => SearchInv'
<1> SUFFICES ASSUME SearchInv, ItemsOver PROVE SearchInv'
  OBVIOUS
<1>1. /\ search_pc = "item" /\ search_pc' = "unlock" /\ item > item_num
      /\ UNCHANGED <<tableVars, search_info, item_num, config_lock, refreshVars, out_js>>
  BY DEF ItemsOver, searchRest
<1>2. TableTypes /\ Apart /\ AtItem /\ item_num = TableLen
  BY <1>1 DEF SearchInv
<1>3. Before(Found, item) = Found
  <2>1. Found \subseteq 1 .. item_num /\ item_num \in Nat /\ item \in Nat
    BY <1>2, FoundPlaces DEF AtItem
  <2>2. \A x \in Found : x < item
    BY <1>1, <2>1
  <2> QED BY <2>2 DEF Before
<1>4. Apart'
  BY <1>1, <1>2 DEF Apart, refreshVars
<1> QED BY <1>1, <1>2, <1>3, <1>4, SameSearch DEF SearchInv, AtItem

\* The place after one that is not found, and after one that is.
LEMMA BeforeNext ==
    ASSUME NEW S, S \subseteq Nat, NEW n \in Nat
    PROVE  /\ n \notin S => Before(S, n + 1) = Before(S, n)
           /\ n \in S => Before(S, n + 1) = Before(S, n) \cup {n}
           /\ \A x \in Before(S, n) : x < n
<1>1. \A x \in S : x < n + 1 <=> x < n \/ x = n
  OBVIOUS
<1> QED BY <1>1 DEF Before

LEMMA DeviceStep == SearchInv /\ DeviceTested => SearchInv'
<1> SUFFICES ASSUME SearchInv, DeviceTested PROVE SearchInv'
  OBVIOUS
<1>1. /\ search_pc = "item" /\ item <= item_num /\ ~ByScene
      /\ find_dev_flag' = FALSE /\ attr' = 1
      /\ (out_name_matched' <=> search_info.search_type \in ByName /\ Passes(TheDevice)
                                /\ TheDevice.named)
      /\ UNCHANGED <<tableVars, search_info, item_num, config_lock, refreshVars, out_js>>
  BY DEF DeviceTested, AtDevice, searchRest, ByScene
<1>2. TableTypes /\ Apart /\ AtItem /\ item_num = TableLen
  BY <1>1 DEF SearchInv
<1>3. /\ item \in 1 .. item_num /\ item \in Nat /\ TheDevice = dev_array_js[item]
      /\ TheDevice \in Device
  BY <1>1, <1>2, FoundPlaces DEF AtItem, TheDevice, ItemOf, TableLen, TableTypes
<1>4. Apart' /\ TableTypes' /\ item_num' = TableLen'
  BY <1>1, <1>2, SameSearch DEF Apart, refreshVars
<1>5. CASE Passes(TheDevice)
  <2>1. search_pc' = "attribute" /\ item' = item
    BY <1>5 DEF DeviceTested
  <2>2. TheDevice' = TheDevice /\ Passes(TheDevice)' /\ Chosen(TheDevice)' = Chosen(TheDevice)
    BY <1>1, <1>5, <2>1 DEF TheDevice, tableVars, Passes, Chosen, Named
  <2>3. Before(Chosen(TheDevice), 1) = {} /\ Len(TheDevice.attribute) \in Nat
    BY <1>3 DEF Before, Chosen, Named, Device
  <2>4. PackedOf(out_js, FALSE, Before(Found, item), AttributesFound, item, {})
    BY <1>2 DEF AtItem, PackedOf
  <2>5. AtAttribute'
    <3>1. Found' = Found /\ AttributesFound' = AttributesFound /\ ~ByScene'
      BY <1>1, SameSearch
    <3>2. PackedOf(out_js', find_dev_flag', Before(Found', item'), AttributesFound', item',
                   Before(Chosen(TheDevice)', attr'))
      BY <1>1, <2>1, <2>2, <2>3, <2>4, <3>1
    <3>3. attr' \in 1 .. Len(TheDevice'.attribute) + 1
      BY <1>1, <2>2, <2>3
    <3>4. out_name_matched' <=> search_info'.search_type \in ByName /\ TheDevice'.named
      BY <1>1, <1>5, <2>2
    <3>5. item' \in 1 .. item_num'
      BY <1>1, <1>3, <2>1
    <3> QED BY <2>2, <3>1, <3>2, <3>3, <3>4, <3>5 DEF AtAttribute
  <2> QED BY <1>4, <2>1, <2>5 DEF SearchInv
<1>6. CASE ~Passes(TheDevice)
  <2>1. search_pc' = "item" /\ item' = item + 1
    BY <1>1, <1>6 DEF DeviceTested
  <2>2. item \notin Found
    BY <1>1, <1>3, <1>6 DEF Found, FoundDevices
  <2>3. Before(Found, item + 1) = Before(Found, item)
    BY <1>2, <1>3, <2>2, BeforeNext, FoundPlaces
  <2>4. AtItem'
    <3>1. Found' = Found /\ AttributesFound' = AttributesFound
      BY <1>1, SameSearch
    <3>2. item' \in 1 .. item_num' + 1
      BY <1>1, <1>2, <1>3, <2>1, FoundPlaces
    <3>3. Packs(out_js', Before(Found', item'), AttributesFound')
      BY <1>1, <1>2, <2>1, <2>3, <3>1 DEF AtItem
    <3> QED BY <3>2, <3>3 DEF AtItem
  <2> QED BY <1>4, <2>1, <2>4 DEF SearchInv
<1> QED BY <1>5, <1>6

\* The test of an attribute answers what Chosen says.
LEMMA AttributeChosen ==
    ASSUME AtAttribute, attr <= Len(TheDevice.attribute)
    PROVE  /\ attr \in Named(TheDevice) <=> Compared(TheAttribute)
           /\ attr \in Chosen(TheDevice) <=>
                 Compared(TheAttribute) /\ TheAttribute.identifier = "wanted"
<1>1. attr \in 1 .. Len(TheDevice.attribute)
  BY DEF AtAttribute
<1>2. out_name_matched <=> search_info.search_type \in ByName /\ TheDevice.named
  BY DEF AtAttribute
<1>3. attr \in Named(TheDevice) <=> Compared(TheAttribute)
  BY <1>1, <1>2 DEF Named, Compared, TheAttribute
<1> QED BY <1>3 DEF Chosen, TheAttribute

LEMMA AttributeStep == SearchInv /\ AttributeTested => SearchInv'
<1> SUFFICES ASSUME SearchInv, AttributeTested PROVE SearchInv'
  OBVIOUS
<1> DEFINE d == TheDevice
           C == Before(Chosen(d), attr)
           F == Before(Found, item)
           A == AttributesFound
<1>1. /\ search_pc = "attribute" /\ search_pc' = "attribute" /\ attr <= Len(d.attribute)
      /\ attr' = attr + 1
      /\ UNCHANGED <<item, out_name_matched, tableVars, search_info, item_num, config_lock,
                     refreshVars>>
  BY DEF AttributeTested, AtAnAttribute, searchRest
<1>2. TableTypes /\ Apart /\ AtAttribute /\ item_num = TableLen
  BY <1>1 DEF SearchInv
<1>3. /\ item \in 1 .. item_num /\ item_num \in Nat /\ item \in Nat
      /\ d = dev_array_js[item] /\ d \in Device /\ Len(d.attribute) \in Nat
      /\ attr \in Nat /\ attr' \in 1 .. Len(d.attribute) + 1
  <2>1. item \in 1 .. Len(dev_array_js) /\ item_num = Len(dev_array_js)
    BY <1>2 DEF AtAttribute, TableLen
  <2>2. d = dev_array_js[item] /\ d \in Device
    BY <1>2, <2>1 DEF TheDevice, ItemOf, TableTypes
  <2>3. Len(d.attribute) \in Nat
    BY <2>2 DEF Device
  <2> QED BY <1>1, <1>2, <2>1, <2>2, <2>3 DEF AtAttribute, TableTypes
<1>4. Apart' /\ TableTypes' /\ item_num' = TableLen'
  BY <1>1, <1>2, SameSearch DEF Apart, refreshVars
<1>5. /\ d' = d /\ Chosen(d)' = Chosen(d) /\ Passes(d)' /\ Found' = Found /\ A' = A
      /\ ~ByScene'
  BY <1>1, <1>2, SameSearch DEF TheDevice, AtAttribute, tableVars, Chosen, Named, Passes
<1>6. /\ attr \notin Chosen(d) => Before(Chosen(d), attr') = C
      /\ attr \in Chosen(d) => Before(Chosen(d), attr') = C \cup {attr}
      /\ \A x \in C : x < attr
  <2>1. Chosen(d) \subseteq Nat
    BY DEF Chosen, Named
  <2> HIDE DEF d
  <2> QED BY <1>1, <1>3, <2>1, BeforeNext
<1>7. PackedOf(out_js, find_dev_flag, F, A, item, C)
  BY <1>2 DEF AtAttribute
<1>8. PackedOf(out_js', find_dev_flag', F, A, item, Before(Chosen(d), attr'))
  <2>1. CASE attr \notin Chosen(d)
    <3>1. UNCHANGED <<out_js, find_dev_flag>>
      BY <1>1, <1>2, <2>1, AttributeChosen DEF AttributeTested
    <3> QED BY <1>6, <1>7, <2>1, <3>1
  <2>2. CASE attr \in Chosen(d) /\ ~find_dev_flag
    <3>1. /\ find_dev_flag' = TRUE
          /\ out_js' = Append(out_js, PacketOf(item, <<attr>>))
      BY <1>1, <1>2, <2>2, AttributeChosen DEF AttributeTested, PacketOf
    <3>2. C = {} /\ Packs(out_js, F, A)
      BY <1>7, <2>2 DEF PackedOf
    <3>3. <<attr>> = Append(<<>>, attr) /\ <<>> \in Seq(Nat)
      OBVIOUS
    <3>4. <<attr>> \in Seq(Nat) /\ IsListing(<<attr>>, {} \cup {attr})
      <4>1. IsListing(<<>>, {}) /\ \A x \in {} : x < attr
        BY NothingListed
      <4>2. Append(<<>>, attr) \in Seq(Nat) /\ IsListing(Append(<<>>, attr), {} \cup {attr})
        BY <1>3, <3>3, <4>1, ListingAppend
      <4> QED BY <3>3, <4>2
    <3>5. Before(Chosen(d), attr') = {} \cup {attr} /\ {} \cup {attr} # {}
      BY <1>6, <2>2, <3>2
    <3> HIDE DEF d, C, F, A
    <3> QED BY <3>1, <3>2, <3>4, <3>5 DEF PackedOf
  <2>3. CASE attr \in Chosen(d) /\ find_dev_flag
    <3>1. /\ find_dev_flag' = find_dev_flag
          /\ out_js' = GainAtEnd(out_js, attr)
      BY <1>1, <1>2, <2>3, AttributeChosen DEF AttributeTested, GainAtEnd
    <3>2. PICK o, as : /\ Packs(o, F, A)
                       /\ as \in Seq(Nat) /\ IsListing(as, C)
                       /\ out_js = Append(o, PacketOf(item, as))
      BY <1>7, <2>3 DEF PackedOf
    <3>3. o \in Seq(Packet)
      BY <3>2 DEF Packs
    <3>4. out_js' = Append(o, PacketOf(item, Append(as, attr)))
      <4>1. item \in Nat /\ attr \in Nat /\ as \in Seq(Nat)
        BY <1>3, <3>2
      <4>2. GainAtEnd(out_js, attr) = Append(o, PacketOf(item, Append(as, attr)))
        BY <3>2, <3>3, <4>1, LastGains
      <4> QED BY <3>1, <4>2
    <3>5. Append(as, attr) \in Seq(Nat) /\ IsListing(Append(as, attr), C \cup {attr})
      BY <1>3, <1>6, <3>2, ListingAppend
    <3>6. Before(Chosen(d), attr') = C \cup {attr} /\ C \cup {attr} # {}
      BY <1>6, <2>3
    <3> HIDE DEF d, C, F, A
    <3> QED BY <2>3, <3>1, <3>2, <3>4, <3>5, <3>6 DEF PackedOf
  <2>4. find_dev_flag \/ ~find_dev_flag
    OBVIOUS
  <2> QED BY <2>1, <2>2, <2>3
<1>9. AtAttribute'
  <2>1. PackedOf(out_js', find_dev_flag', Before(Found', item'), AttributesFound', item',
                 Before(Chosen(TheDevice)', attr'))
    BY <1>1, <1>5, <1>8
  <2>2. out_name_matched' <=> search_info'.search_type \in ByName /\ TheDevice'.named
    BY <1>1, <1>2, <1>5 DEF AtAttribute
  <2>3. item' \in 1 .. item_num' /\ attr' \in 1 .. Len(TheDevice'.attribute) + 1
    BY <1>1, <1>3, <1>5
  <2> QED BY <1>5, <2>1, <2>2, <2>3 DEF AtAttribute
<1> QED BY <1>1, <1>4, <1>9 DEF SearchInv

LEMMA AttributesOverStep == SearchInv /\ AttributesOver => SearchInv'
<1> SUFFICES ASSUME SearchInv, AttributesOver PROVE SearchInv'
  OBVIOUS
<1> DEFINE d == TheDevice
           F == Before(Found, item)
           A == AttributesFound
<1>1. /\ search_pc = "attribute" /\ search_pc' = "item" /\ attr > Len(d.attribute)
      /\ item' = item + 1
      /\ UNCHANGED <<out_js, tableVars, search_info, item_num, config_lock, refreshVars>>
  BY DEF AttributesOver, searchRest
<1>2. TableTypes /\ Apart /\ AtAttribute /\ item_num = TableLen
  BY <1>1 DEF SearchInv
<1>3. /\ item \in 1 .. item_num /\ item_num \in Nat /\ item \in Nat
      /\ d = dev_array_js[item] /\ d \in Device /\ Len(d.attribute) \in Nat
      /\ attr \in Nat /\ item \in 1 .. Len(dev_array_js)
  <2>1. item \in 1 .. Len(dev_array_js) /\ item_num = Len(dev_array_js)
    BY <1>2 DEF AtAttribute, TableLen
  <2>2. d = dev_array_js[item] /\ d \in Device
    BY <1>2, <2>1 DEF TheDevice, ItemOf, TableTypes
  <2>3. Len(d.attribute) \in Nat
    BY <2>2 DEF Device
  <2> QED BY <1>1, <1>2, <2>1, <2>2, <2>3 DEF AtAttribute, TableTypes
<1>4. Apart' /\ TableTypes' /\ item_num' = TableLen' /\ Found' = Found /\ A' = A
  BY <1>1, <1>2, SameSearch DEF Apart, refreshVars
<1>5. Before(Chosen(d), attr) = Chosen(d)
  <2>1. \A x \in Chosen(d) : x < attr
    BY <1>1, <1>3 DEF Chosen, Named
  <2> QED BY <2>1 DEF Before
<1>6. PackedOf(out_js, find_dev_flag, F, A, item, Chosen(d))
  BY <1>2, <1>5 DEF AtAttribute
<1>7. item \in Found <=> Chosen(d) # {}
  BY <1>2, <1>3 DEF Found, FoundDevices, AtAttribute
<1>8. A[item] = Chosen(d) /\ Found \subseteq Nat
  BY <1>2, <1>3, FoundPlaces DEF AtAttribute
<1>9. Packs(out_js, Before(Found, item + 1), A)
  <2>1. CASE Chosen(d) = {}
    BY <1>3, <1>6, <1>7, <1>8, <2>1, BeforeNext DEF PackedOf
  <2>2. CASE Chosen(d) # {}
    <3>1. PICK o, as : /\ Packs(o, F, A)
                       /\ as \in Seq(Nat) /\ IsListing(as, Chosen(d))
                       /\ out_js = Append(o, PacketOf(item, as))
      BY <1>6, <2>2 DEF PackedOf
    <3>2. Before(Found, item + 1) = F \cup {item} /\ \A x \in F : x < item
      BY <1>3, <1>7, <1>8, <2>2, BeforeNext
    <3> HIDE DEF d, F, A
    <3>3. IsListing(as, A[item])
      BY <1>8, <3>1
    <3>4. Packs(Append(o, PacketOf(item, as)), F \cup {item}, A)
      BY <1>3, <3>1, <3>2, <3>3, PacksMore
    <3> QED BY <3>1, <3>2, <3>4
  <2> QED BY <2>1, <2>2
<1>10. AtItem'
  <2>1. item' \in 1 .. item_num' + 1
    BY <1>1, <1>3
  <2> QED BY <1>1, <1>4, <1>9, <2>1 DEF AtItem
<1> QED BY <1>1, <1>4, <1>10 DEF SearchInv

LEMMA SceneStep == SearchInv /\ SceneTested => SearchInv'
<1> SUFFICES ASSUME SearchInv, SceneTested PROVE SearchInv'
  OBVIOUS
<1> DEFINE F == Before(Found, item)
           A == AttributesFound
<1>1. /\ search_pc = "item" /\ search_pc' = "item" /\ item <= item_num /\ ByScene
      /\ item' = item + 1
      /\ UNCHANGED <<tableVars, search_info, item_num, config_lock, refreshVars>>
      /\ out_js' = IF TheScene.ok /\ TheScene.named
                   THEN Append(out_js, PacketOf(item, <<>>)) ELSE out_js
  BY DEF SceneTested, searchRest, ByScene, PacketOf
<1>2. TableTypes /\ Apart /\ AtItem /\ item_num = TableLen
  BY <1>1 DEF SearchInv
<1>3. /\ item \in 1 .. Len(sence_array_js) /\ item \in Nat /\ item_num \in Nat
      /\ TheScene = sence_array_js[item]
  BY <1>1, <1>2, FoundPlaces DEF AtItem, TheScene, ItemOf, TableLen, TableTypes
<1>4. Apart' /\ TableTypes' /\ item_num' = TableLen' /\ Found' = Found /\ A' = A
  BY <1>1, <1>2, SameSearch DEF Apart, refreshVars
<1>5. item \in Found <=> TheScene.ok /\ TheScene.named
  BY <1>1, <1>3 DEF Found, FoundScenes
<1>6. A[item] = {} /\ Found \subseteq Nat /\ Packs(out_js, F, A)
  BY <1>1, <1>2, <1>3, FoundPlaces DEF AtItem
<1>7. Packs(out_js', Before(Found, item + 1), A)
  <2>1. CASE item \notin Found
    BY <1>1, <1>3, <1>5, <1>6, <2>1, BeforeNext
  <2>2. CASE item \in Found
    <3>1. Before(Found, item + 1) = F \cup {item} /\ \A x \in F : x < item
      BY <1>3, <1>6, <2>2, BeforeNext
    <3>2. out_js' = Append(out_js, PacketOf(item, <<>>))
      BY <1>1, <1>5, <2>2
    <3>3. <<>> \in Seq(Nat)
      OBVIOUS
    <3> HIDE DEF F, A
    <3>4. IsListing(<<>>, A[item])
      BY <1>6, NothingListed
    <3>5. Packs(Append(out_js, PacketOf(item, <<>>)), F \cup {item}, A)
      BY <1>3, <1>6, <3>1, <3>3, <3>4, PacksMore
    <3> QED BY <3>1, <3>2, <3>5
  <2> QED BY <2>1, <2>2
<1>8. AtItem'
  <2>1. item' \in 1 .. item_num' + 1
    BY <1>1, <1>2, <1>3 DEF AtItem
  <2> QED BY <1>1, <1>4, <1>7, <2>1 DEF AtItem
<1> QED BY <1>1, <1>4, <1>8 DEF SearchInv

\* A refresh, or a question, finds no search in its loops.
LEMMA OutsideStep ==
    ASSUME SearchInv, \/ Refresh \/ SearchUnlocks
                      \/ \E t \in SearchTypes, d \in 0 .. 1 : Ask(t, d)
    PROVE  SearchInv'
<1>0. TableTypes /\ Apart
  BY DEF SearchInv
<1>1. CASE SearchUnlocks
  <2>1. /\ search_pc = "unlock" /\ search_pc' = "idle" /\ config_lock' = "free"
        /\ UNCHANGED <<tableVars, search_info, refreshVars>>
    BY <1>1 DEF SearchUnlocks
  <2>2. Apart'
    BY <1>0, <2>1 DEF Apart, refreshVars
  <2> QED BY <1>0, <2>1, <2>2, SameSearch DEF SearchInv
<1>2. CASE \E t \in SearchTypes, d \in 0 .. 1 : Ask(t, d)
  <2>1. /\ search_pc' = "lock" /\ UNCHANGED <<tableVars, config_lock, refreshVars>>
    BY <1>2 DEF Ask
  <2> QED BY <1>0, <2>1 DEF SearchInv, Apart, TableTypes, tableVars, refreshVars
<1>3. CASE RefreshLocks
  <2>1. search_pc \notin {"item", "attribute", "unlock", "fault"} /\ search_pc' = search_pc
        /\ config_lock' = "refresh" /\ UNCHANGED tableVars
    BY <1>0, <1>3 DEF RefreshLocks, Apart, refreshRest
  <2> QED BY <1>0, <2>1 DEF SearchInv, Apart, TableTypes, tableVars
<1>4. CASE RefreshDeletes \/ RefreshReads \/ RefreshUnlocks
  <2>1. refresh_pc # "idle" /\ search_pc' = search_pc
        /\ (config_lock' = config_lock \/ refresh_pc' = "idle")
    BY <1>4 DEF RefreshDeletes, RefreshReads, RefreshUnlocks, refreshRest
  <2>2. search_pc \notin {"item", "attribute", "unlock", "fault"} /\ config_lock = "refresh"
    BY <1>0, <2>1 DEF Apart
  <2>3. dev_array_js' \in DeviceTables \cup {<<>>, dev_array_js}
        /\ sence_array_js' \in SceneTables \cup {<<>>, sence_array_js}
    BY <1>4 DEF RefreshDeletes, RefreshReads, RefreshUnlocks, tableVars
  <2>4. TableTypes'
    <3>1. <<>> \in Seq(Device) /\ <<>> \in Seq(Scene)
      OBVIOUS
    <3> QED BY <1>0, <2>3, <3>1, TablesAssumption DEF TableTypes
  <2>5. Apart'
    BY <2>1, <2>2 DEF Apart
  <2> QED BY <2>1, <2>2, <2>4, <2>5 DEF SearchInv
<1> QED BY <1>1, <1>2, <1>3, <1>4 DEF Refresh

\* A fault leaves the mutex locked, and the tables as they are.
LEMMA FaultsStep == SearchInv /\ SearchFaults => SearchInv'
<1> SUFFICES ASSUME SearchInv, SearchFaults PROVE SearchInv'
  OBVIOUS
<1>1. /\ search_pc \in {"item", "attribute"} /\ search_pc' = "fault"
      /\ UNCHANGED <<tableVars, config_lock, refreshVars>>
  BY DEF SearchFaults, AtDevice, AtAnAttribute, searchRest
<1>2. Apart' /\ TableTypes'
  BY <1>1 DEF SearchInv, Apart, TableTypes, tableVars, refreshVars
<1> QED BY <1>1, <1>2 DEF SearchInv

LEMMA SearchInvStep == SearchInv /\ [SearchNext]_searchVars => SearchInv'
<1> SUFFICES ASSUME SearchInv, [SearchNext]_searchVars PROVE SearchInv'
  OBVIOUS
<1>1. CASE UNCHANGED searchVars
  <2>1. UNCHANGED <<tableVars, config_lock, search_pc, search_info, item_num, item, attr,
                    find_dev_flag, out_name_matched, out_js, refreshVars>>
    BY <1>1 DEF searchVars, loopVars
  <2>2. TheDevice' = TheDevice
    BY <2>1 DEF TheDevice, tableVars
  <2>3. Apart'
    BY <2>1 DEF SearchInv, Apart, refreshVars
  <2>4. AtItem => AtItem'
    BY <2>1, SameSearch DEF AtItem
  <2>5. AtAttribute => AtAttribute'
    <3>1. Chosen(TheDevice)' = Chosen(TheDevice) /\ (Passes(TheDevice)' <=> Passes(TheDevice))
      BY <2>1, <2>2 DEF Chosen, Named, Passes
    <3> QED BY <2>1, <2>2, <3>1, SameSearch DEF AtAttribute
  <2> QED BY <2>1, <2>3, <2>4, <2>5, SameSearch DEF SearchInv
<1> QED BY <1>1, LocksStep, ItemsOverStep, DeviceStep, AttributeStep, AttributesOverStep,
           SceneStep, FaultsStep, OutsideStep DEF SearchNext, Generate

(***************************************************************************)
(* What ends the process: of the devices and attributes the loops have     *)
(* passed, none could; one of the table did, once it has.                  *)
(***************************************************************************)
Survives ==
    /\ search_pc \in {"item", "attribute"} => Before(FatalDevices, item) = {}
    /\ search_pc = "attribute" => Before(Nulls(TheDevice), attr) = {}
    /\ search_pc = "unlock" => FatalDevices = {}
    /\ search_pc = "fault" => FatalDevices # {}

LEMMA SameFatal ==
    ASSUME UNCHANGED <<tableVars, search_info>>
    PROVE  FatalDevices' = FatalDevices /\ \A d : Nulls(d)' = Nulls(d)
  BY DEF tableVars, FatalDevices, Fatal, NullPk, Passes, Nulls, Named

LEMMA FatalPlaces ==
    ASSUME TableTypes
    PROVE  FatalDevices \subseteq 1 .. Len(dev_array_js) /\ FatalDevices \subseteq Nat
           /\ (ByScene => FatalDevices = {}) /\ \A d : Nulls(d) \subseteq Nat
  BY DEF TableTypes, FatalDevices, ByScene, Nulls, Named

\* A device that is passed over does not end the process.
LEMMA DevicePassed == SearchInv /\ Survives /\ DeviceTested => Survives'
<1> SUFFICES ASSUME SearchInv, Survives, DeviceTested PROVE Survives'
  OBVIOUS
<1>1. /\ search_pc = "item" /\ item <= item_num /\ ~ByScene /\ ~NullPk(TheDevice) /\ attr' = 1
      /\ UNCHANGED <<tableVars, search_info>>
  BY DEF DeviceTested, AtDevice, searchRest, ByScene
<1>2. /\ TableTypes /\ item \in Nat /\ TheDevice = dev_array_js[item]
      /\ Before(FatalDevices, item) = {}
  BY <1>1, FoundPlaces DEF SearchInv, Survives, AtItem, TheDevice, ItemOf, TableLen, TableTypes
<1>3. FatalDevices' = FatalDevices /\ \A d : Nulls(d)' = Nulls(d) /\ Nulls(d) \subseteq Nat
  BY <1>1, <1>2, SameFatal, FatalPlaces
<1>4. CASE Passes(TheDevice)
  <2>1. search_pc' = "attribute" /\ item' = item
    BY <1>4 DEF DeviceTested
  <2>2. TheDevice' = TheDevice
    BY <1>1, <2>1 DEF TheDevice, tableVars
  <2>3. Before(Nulls(TheDevice), 1) = {}
    BY DEF Before, Nulls, Named
  <2>4. Nulls(TheDevice)' = Nulls(TheDevice)
    BY <1>1, <2>2 DEF Nulls, Named
  <2> QED BY <1>1, <1>2, <1>3, <2>1, <2>3, <2>4 DEF Survives
<1>5. CASE ~Passes(TheDevice)
  <2>1. search_pc' = "item" /\ item' = item + 1
    BY <1>1, <1>5 DEF DeviceTested
  <2>2. item \notin FatalDevices
    BY <1>1, <1>2, <1>5 DEF FatalDevices, Fatal
  <2>3. Before(FatalDevices, item + 1) = {}
    BY <1>2, <2>2, BeforeNext, FatalPlaces
  <2> QED BY <1>3, <2>1, <2>3 DEF Survives
<1> QED BY <1>4, <1>5

\* Nor does an attribute that is, or a device that has no other.
LEMMA AttributePassed == SearchInv /\ Survives /\ (AttributeTested \/ AttributesOver) => Survives'
<1> SUFFICES ASSUME SearchInv, Survives, AttributeTested \/ AttributesOver PROVE Survives'
  OBVIOUS
<1>1. search_pc = "attribute" /\ UNCHANGED <<tableVars, search_info>>
  BY DEF AttributeTested, AttributesOver, AtAnAttribute, searchRest
<1>2. /\ TableTypes /\ AtAttribute /\ item_num = TableLen
      /\ Before(FatalDevices, item) = {} /\ Before(Nulls(TheDevice), attr) = {}
  BY <1>1 DEF SearchInv, Survives
<1>3. /\ item \in 1 .. Len(dev_array_js) /\ item \in Nat /\ attr \in Nat
      /\ TheDevice = dev_array_js[item] /\ Len(TheDevice.attribute) \in Nat
  <2>1. item \in 1 .. Len(dev_array_js)
    BY <1>2 DEF AtAttribute, TableLen
  <2>2. TheDevice = dev_array_js[item] /\ TheDevice \in Device
    BY <1>2, <2>1 DEF TheDevice, ItemOf, TableTypes
  <2>3. Len(TheDevice.attribute) \in Nat
    BY <2>2 DEF Device
  <2> QED BY <1>2, <2>1, <2>2, <2>3 DEF AtAttribute, TableTypes
<1>4. FatalDevices' = FatalDevices /\ \A d : Nulls(d)' = Nulls(d) /\ Nulls(d) \subseteq Nat
  BY <1>1, <1>2, SameFatal, FatalPlaces
<1>5. CASE AttributeTested
  <2>1. /\ search_pc' = "attribute" /\ item' = item /\ attr' = attr + 1
        /\ attr <= Len(TheDevice.attribute)
        /\ ~(Compared(TheAttribute) /\ TheAttribute.identifier = "absent")
    BY <1>1, <1>5 DEF AttributeTested, AtAnAttribute
  <2>2. attr \notin Nulls(TheDevice)
    <3>1. attr \in Named(TheDevice) <=> Compared(TheAttribute)
      BY <1>2, <2>1, AttributeChosen
    <3> QED BY <2>1, <3>1 DEF Nulls, TheAttribute
  <2>3. Before(Nulls(TheDevice), attr + 1) = {}
    <3>1. Nulls(TheDevice) \subseteq Nat
      BY <1>4
    <3> QED BY <1>2, <1>3, <2>2, <3>1, BeforeNext
  <2>4. TheDevice' = TheDevice
    BY <1>1, <2>1 DEF TheDevice, tableVars
  <2>5. Nulls(TheDevice)' = Nulls(TheDevice)
    BY <1>1, <2>4 DEF Nulls, Named
  <2> QED BY <1>2, <1>4, <2>1, <2>3, <2>5 DEF Survives
<1>6. CASE AttributesOver
  <2>1. search_pc' = "item" /\ item' = item + 1 /\ attr > Len(TheDevice.attribute)
    BY <1>6 DEF AttributesOver
  <2>2. Nulls(TheDevice) = {}
    <3>1. \A x \in Nulls(TheDevice) : x < attr
      BY <1>3, <2>1 DEF Nulls, Named
    <3> QED BY <1>2, <3>1 DEF Before
  <2>3. ~NullPk(TheDevice)
    BY <1>2 DEF AtAttribute, Passes, NullPk
  <2>4. item \notin FatalDevices
    BY <1>3, <2>2, <2>3 DEF FatalDevices, Fatal
  <2>5. Before(FatalDevices, item + 1) = {}
    BY <1>2, <1>3, <2>4, BeforeNext, FatalPlaces
  <2> QED BY <1>4, <2>1, <2>5 DEF Survives
<1> QED BY <1>5, <1>6

\* What ends the process is in the table.
LEMMA FaultFatal == SearchInv /\ SearchFaults => FatalDevices' # {}
<1> SUFFICES ASSUME SearchInv, SearchFaults PROVE FatalDevices' # {}
  OBVIOUS
<1>0. FatalDevices' = FatalDevices
  <2>1. UNCHANGED <<tableVars, search_info>>
    BY DEF SearchFaults, searchRest
  <2> QED BY <2>1, SameFatal
<1>1. CASE AtDevice /\ NullPk(TheDevice)
  <2>1. item \in 1 .. Len(dev_array_js) /\ TheDevice = dev_array_js[item] /\ ~ByScene
    BY <1>1, FoundPlaces DEF AtDevice, SearchInv, AtItem, TheDevice, ItemOf, TableLen, TableTypes,
                             ByScene
  <2>2. item \in FatalDevices
    BY <1>1, <2>1 DEF FatalDevices, Fatal, ByScene
  <2> QED BY <1>0, <2>2
<1>2. CASE AtAnAttribute /\ Compared(TheAttribute) /\ TheAttribute.identifier = "absent"
  <2>1. AtAttribute /\ item_num = TableLen /\ attr <= Len(TheDevice.attribute)
    BY <1>2 DEF SearchInv, AtAnAttribute
  <2>2. item \in 1 .. Len(dev_array_js) /\ TheDevice = dev_array_js[item]
    BY <2>1 DEF AtAttribute, TableLen, TheDevice, ItemOf
  <2>3. attr \in Nulls(TheDevice)
    BY <1>2, <2>1, AttributeChosen DEF Nulls, TheAttribute
  <2>4. item \in FatalDevices
    BY <2>1, <2>2, <2>3 DEF FatalDevices, Fatal, AtAttribute, ByScene
  <2> QED BY <1>0, <2>4
<1> QED BY <1>1, <1>2 DEF SearchFaults

LEMMA SurvivesStep == SearchInv /\ Survives /\ [SearchNext]_searchVars => Survives'
<1> SUFFICES ASSUME SearchInv, Survives, [SearchNext]_searchVars PROVE Survives'
  OBVIOUS
<1>0. TableTypes /\ Apart
  BY DEF SearchInv
<1>1. CASE SearchLocks
  <2>1. search_pc' = "item" /\ item' = 1 /\ UNCHANGED <<tableVars, search_info>>
    BY <1>1 DEF SearchLocks
  <2>2. Before(FatalDevices, 1) = {}
    BY <1>0, FatalPlaces DEF Before, TableTypes
  <2> QED BY <2>1, <2>2, SameFatal DEF Survives
<1>2. CASE ItemsOver
  <2>1. /\ search_pc = "item" /\ search_pc' = "unlock" /\ item > item_num
        /\ UNCHANGED <<tableVars, search_info>>
    BY <1>2 DEF ItemsOver, searchRest
  <2>2. AtItem /\ item_num = TableLen /\ Before(FatalDevices, item) = {}
    BY <2>1 DEF SearchInv, Survives
  <2>3. \A x \in FatalDevices : x < item
    BY <1>0, <2>1, <2>2, FatalPlaces, FoundPlaces DEF AtItem, TableLen, TableTypes
  <2>4. FatalDevices = {}
    BY <2>2, <2>3 DEF Before
  <2> QED BY <2>1, <2>4, SameFatal DEF Survives
<1>3. CASE SceneTested
  <2>1. /\ search_pc' = "item" /\ ByScene /\ UNCHANGED <<tableVars, search_info>>
    BY <1>3 DEF SceneTested, ByScene, searchRest
  <2>2. FatalDevices' = {}
    BY <1>0, <2>1, FatalPlaces, SameFatal
  <2> QED BY <2>1, <2>2 DEF Survives, Before
<1>4. CASE SearchFaults
  <2>1. search_pc' = "fault"
    BY <1>4 DEF SearchFaults
  <2> QED BY <1>4, <2>1, FaultFatal DEF Survives
<1>5. CASE SearchUnlocks \/ \E t \in SearchTypes, d \in 0 .. 1 : Ask(t, d)
  <2>1. search_pc' \in {"idle", "lock"}
    BY <1>5 DEF SearchUnlocks, Ask
  <2> QED BY <2>1 DEF Survives
<1>6. CASE Refresh
  <2>1. search_pc \notin {"item", "attribute", "unlock", "fault"} /\ search_pc' = search_pc
    BY <1>0, <1>6 DEF Apart, Refresh, RefreshLocks, RefreshDeletes, RefreshReads, RefreshUnlocks,
                      refreshRest
  <2> QED BY <2>1 DEF Survives
<1>7. CASE UNCHANGED searchVars
  <2>1. UNCHANGED <<tableVars, search_info, search_pc, item, attr>>
    BY <1>7 DEF searchVars, loopVars
  <2>2. TheDevice' = TheDevice
    BY <2>1 DEF TheDevice, tableVars
  <2>3. Nulls(TheDevice)' = Nulls(TheDevice)
    BY <2>1, <2>2 DEF Nulls, Named
  <2> QED BY <2>1, <2>3, SameFatal DEF Survives
<1> QED BY <1>1, <1>2, <1>3, <1>4, <1>5, <1>6, <1>7, DevicePassed, AttributePassed
           DEF SearchNext, Generate

(***************************************************************************)
(* What generate_ctrl_protocol_data has packed when its loops are over is  *)
(* what the search asked for, of any table, whatever is refreshed and      *)
(* whenever: every device found, in order, with the attributes chosen, and *)
(* no other.  Its loops come to an end if, and only if, the table has no   *)
(* device without the PK or the identifier that this search reads through. *)
(***************************************************************************)
THEOREM SearchExactAlways == SearchSpec => []SearchExact
<1>1. SearchInit => SearchInv /\ Survives
  BY TablesAssumption DEF SearchInit, SearchInv, Apart, TableTypes, Survives
<1>2. SearchInv /\ Survives => SearchExact
  <2> SUFFICES ASSUME SearchInv, Survives PROVE SearchExact
    OBVIOUS
  <2>1. CASE search_pc = "unlock"
    <3>1. Packs(out_js, Found, AttributesFound) /\ FatalDevices = {}
      BY <2>1 DEF SearchInv, Survives
    <3>2. ASSUME NEW k \in 1 .. Len(out_js)
          PROVE  AttributesFound[out_js[k].device]
                 = IF ByScene THEN {} ELSE Chosen(dev_array_js[out_js[k].device])
      <4>1. out_js \in Seq(Packet)
        BY <3>1 DEF Packs
      <4>2. out_js[k] \in Packet
        BY <4>1
      <4>3. out_js[k].device \in Nat
        BY <4>2 DEF Packet
      <4> QED BY <4>3 DEF AttributesFound
    <3> QED BY <2>1, <3>1, <3>2 DEF SearchExact, Packs, PlacesOf, Found, ByScene
  <2>2. CASE search_pc # "unlock"
    BY <2>2 DEF Survives, SearchExact
  <2> QED BY <2>1, <2>2
<1> QED BY <1>1, <1>2, SearchInvStep, SurvivesStep, PTL DEF SearchSpec

(***************************************************************************)
(* What SearchInv leaves open of the types of DeviceSearch.                *)
(***************************************************************************)
SearchMarks ==
    /\ config_lock \in {"free", "search", "refresh"}
    /\ search_pc \in {"idle", "lock", "item", "attribute", "unlock", "fault"}
    /\ refresh_pc \in {"idle", "delete", "devices", "scenes", "unlock"}
    /\ find_dev_flag \in BOOLEAN /\ out_name_matched \in BOOLEAN

SearchTables ==
    /\ dev_array_js \in DeviceTables \cup {<<>>}
    /\ sence_array_js \in SceneTables \cup {<<>>}
    /\ search_info \in [search_type : SearchTypes, dev_type : 0 .. 1]
    /\ searches \in 0 .. MaxSearches /\ refreshes \in 0 .. MaxRefreshes

SearchPlaces ==
    /\ item_num \in Nat /\ item \in 1 .. item_num + 1 /\ attr \in Nat \ {0}
    /\ out_js \in Seq(Packet)

LEMMA MarksOfSearch == SearchMarks /\ [SearchNext]_searchVars => SearchMarks'
<1> SUFFICES ASSUME SearchMarks, [SearchNext]_searchVars PROVE SearchMarks'
  OBVIOUS
<1> USE DEF SearchMarks, tableVars, loopVars, refreshVars, searchRest, refreshRest
<1>1. CASE \/ SearchLocks \/ ItemsOver \/ AttributesOver \/ SceneTested \/ SearchFaults
           \/ SearchUnlocks
  BY <1>1 DEF SearchLocks, ItemsOver, AttributesOver, SceneTested, SearchFaults, SearchUnlocks
<1>2. CASE DeviceTested
  <2>1. find_dev_flag' \in BOOLEAN /\ out_name_matched' \in BOOLEAN
    BY <1>2, Zenon DEF DeviceTested
  <2> QED BY <1>2, <2>1 DEF DeviceTested
<1>3. CASE AttributeTested
  <2>1. find_dev_flag' \in BOOLEAN
    BY <1>3, Zenon DEF AttributeTested
  <2>2. UNCHANGED <<search_pc, out_name_matched, config_lock, refresh_pc>>
    BY <1>3 DEF AttributeTested
  <2> QED BY <2>1, <2>2
<1>4. CASE Refresh \/ UNCHANGED searchVars \/ \E t \in SearchTypes, d \in 0 .. 1 : Ask(t, d)
  BY <1>4 DEF Refresh, RefreshLocks, RefreshDeletes, RefreshReads, RefreshUnlocks, Ask, searchVars
<1> QED BY <1>1, <1>2, <1>3, <1>4 DEF SearchNext, Generate

LEMMA TablesStep == SearchTables /\ [SearchNext]_searchVars => SearchTables'
<1> SUFFICES ASSUME SearchTables, [SearchNext]_searchVars PROVE SearchTables'
  OBVIOUS
<1> USE SearchesAssumption
    DEF SearchTables, tableVars, loopVars, refreshVars, searchRest, refreshRest
<1>1. CASE Generate \/ UNCHANGED searchVars
  <2>1. UNCHANGED <<tableVars, search_info, searches, refreshes>>
    BY <1>1 DEF Generate, SearchLocks, ItemsOver, DeviceTested, AttributeTested, AttributesOver,
                SceneTested, SearchFaults, SearchUnlocks, searchVars
  <2> QED BY <2>1
<1>2. CASE Refresh
  BY <1>2 DEF Refresh, RefreshLocks, RefreshDeletes, RefreshReads, RefreshUnlocks
<1>3. ASSUME NEW t \in SearchTypes, NEW d \in 0 .. 1, Ask(t, d) PROVE SearchTables'
  BY <1>3 DEF Ask
<1> QED BY <1>1, <1>2, <1>3 DEF SearchNext

\* Inside the loops, SearchInv says that packets are packed, and of an item there is.
PacketsTyped == /\ search_pc \in {"item", "attribute"} => out_js \in Seq(Packet)
                /\ search_pc = "attribute" => item \in 1 .. item_num

LEMMA InLoops == SearchInv => PacketsTyped
<1> SUFFICES ASSUME SearchInv PROVE PacketsTyped
  OBVIOUS
<1> USE DEF PacketsTyped
<1>1. CASE search_pc = "item"
  BY <1>1 DEF SearchInv, AtItem, Packs
<1>2. CASE search_pc = "attribute"
  <2>1. AtAttribute /\ TableTypes /\ item_num = TableLen
    BY <1>2 DEF SearchInv
  <2>2. item \in 1 .. item_num /\ item \in Nat
    BY <2>1, FoundPlaces DEF AtAttribute
  <2>3. \/ out_js \in Seq(Packet)
        \/ \E o \in Seq(Packet), as \in Seq(Nat) : out_js = Append(o, PacketOf(item, as))
    BY <2>1 DEF AtAttribute, PackedOf, Packs
  <2>4. ASSUME NEW o \in Seq(Packet), NEW as \in Seq(Nat), out_js = Append(o, PacketOf(item, as))
        PROVE  out_js \in Seq(Packet)
    <3>1. PacketOf(item, as) \in Packet
      BY <2>2 DEF Packet, PacketOf
    <3> QED BY <2>4, <3>1, AppendProperties
  <2> QED BY <2>2, <2>3, <2>4
<1> QED BY <1>1, <1>2

LEMMA PlacesStep ==
    SearchInv /\ PacketsTyped /\ PacketsTyped' /\ SearchPlaces /\ [SearchNext]_searchVars
        => SearchPlaces'
<1> SUFFICES ASSUME SearchInv, PacketsTyped, PacketsTyped', SearchPlaces, [SearchNext]_searchVars
             PROVE  SearchPlaces'
  OBVIOUS
<1> USE DEF SearchPlaces, PacketsTyped, tableVars, loopVars, refreshVars, searchRest, refreshRest
<1>1. CASE SearchLocks
  <2>1. Len(dev_array_js) \in Nat /\ Len(sence_array_js) \in Nat
    BY DEF SearchInv, TableTypes
  <2>2. <<>> \in Seq(Packet)
    OBVIOUS
  <2> QED BY <1>1, <2>1, <2>2 DEF SearchLocks
<1>2. CASE ItemsOver \/ SearchFaults \/ SearchUnlocks
  BY <1>2 DEF ItemsOver, SearchFaults, SearchUnlocks
<1>3. CASE DeviceTested
  BY <1>3 DEF DeviceTested, AtDevice
<1>4. CASE AttributeTested
  <2>1. out_js' \in Seq(Packet)
    <3>1. search_pc' = "attribute"
      BY <1>4 DEF AttributeTested, AtAnAttribute
    <3> QED BY <3>1
  <2>2. attr' = attr + 1 /\ UNCHANGED <<item, item_num>>
    BY <1>4 DEF AttributeTested
  <2> QED BY <2>1, <2>2
<1>5. CASE AttributesOver
  <2>1. item \in 1 .. item_num
    BY <1>5 DEF AttributesOver
  <2> QED BY <1>5, <2>1 DEF AttributesOver
<1>6. CASE SceneTested
  <2>1. out_js' \in Seq(Packet)
    <3>1. search_pc' = "item"
      BY <1>6 DEF SceneTested
    <3> QED BY <3>1
  <2>2. item <= item_num /\ item' = item + 1 /\ UNCHANGED <<attr, item_num>>
    BY <1>6 DEF SceneTested
  <2> QED BY <2>1, <2>2
<1>7. CASE Refresh \/ UNCHANGED searchVars \/ \E t \in SearchTypes, d \in 0 .. 1 : Ask(t, d)
  BY <1>7 DEF Refresh, RefreshLocks, RefreshDeletes, RefreshReads, RefreshUnlocks, Ask, searchVars
<1> QED BY <1>1, <1>2, <1>3, <1>4, <1>5, <1>6, <1>7 DEF SearchNext, Generate

\* The variables of DeviceSearch keep their types.
LEMMA SearchTypeAlways == SearchSpec => []SearchTypeOK
<1>1. SearchInit => SearchInv /\ SearchMarks /\ SearchTables /\ SearchPlaces
  <2>1. SearchInit => SearchInv
    BY TablesAssumption DEF SearchInit, SearchInv, Apart, TableTypes
  <2>2. SearchInit => SearchMarks
    BY DEF SearchInit, SearchMarks
  <2>3. SearchInit => SearchTables
    BY SearchesAssumption DEF SearchInit, SearchTables, SearchTypes
  <2>4. SearchInit => SearchPlaces
    BY DEF SearchInit, SearchPlaces
  <2> QED BY <2>1, <2>2, <2>3, <2>4
<1>2. SearchMarks /\ SearchTables /\ SearchPlaces => SearchTypeOK
  BY DEF SearchMarks, SearchTables, SearchPlaces, Packet, SearchTypeOK
<1> QED BY <1>1, <1>2, SearchInvStep, InLoops, MarksOfSearch, TablesStep, PlacesStep, PTL
       DEF SearchSpec

-------------------------------------------------------------------------------
(***************************************************************************)
(* The parts in one composition (MCParts), for any values of the constants *)
(* of each: every part behaves as its own specification says, so that what *)
(* is proved of a part alone holds of it in the composition.               *)
(***************************************************************************)
THEOREM EveryPart ==
    Spec => /\ ThSpec /\ WakeSpec /\ VoiceSpec /\ DdsSpec /\ EngineSpec
            /\ FctSpec /\ DaemonSpec /\ SearchSpec /\ GuiSpec /\ WebSpec /\ ListSpec
<1>1. Init => /\ ThInit /\ WakeInit /\ VoiceInit /\ DdsInit /\ EngineInit
              /\ FctInit /\ DaemonInit /\ SearchInit /\ GuiInit /\ WebInit /\ ListInit
  BY DEF Init
<1>2. [Next]_partsVars => /\ [ThNext]_thVars /\ [WakeNext]_wakeVars /\ [VoiceNext]_voiceVars
                          /\ [DdsNext]_ddsVars /\ [EngineNext]_engineVars /\ [FctNext]_fctVars
                          /\ [DaemonNext]_daemonVars /\ [SearchNext]_searchVars
                          /\ [GuiNext]_guiVars /\ [WebNext]_webVars /\ [ListNext]_listVars
  BY DEF partsVars, Next, ThPart, WakePart, VoicePart, DdsPart, EnginePart, FctPart,
         DaemonPart, SearchPart, GuiPart, WebPart, ListPart
<1> QED BY <1>1, <1>2, PTL DEF Spec, ThSpec, WakeSpec, VoiceSpec, DdsSpec, EngineSpec, FctSpec,
                               DaemonSpec, SearchSpec, GuiSpec, WebSpec, ListSpec

(***************************************************************************)
(* The variables of the ten parts that state types keep them: no counter,  *)
(* queue, ring buffer or index of TH_process.c, voice_message_prase.c,     *)
(* asr_processor.c, factory_test.c, vos_daemon.c, protocol_conversion.c,   *)
(* main.c and webclient.c leaves its range.                                *)
(***************************************************************************)
THEOREM PartsTypeAlways == Spec => []TypeOK
<1>1. /\ ThTypeOK /\ WakeTypeOK /\ VoiceTypeOK /\ DdsTypeOK /\ EngineTypeOK
      /\ FctTypeOK /\ DaemonTypeOK /\ SearchTypeOK /\ GuiTypeOK /\ WebTypeOK
      => TypeOK
  BY DEF TypeOK
<1> QED BY <1>1, EveryPart, ThTypeAlways, WakeTypeAlways, VoiceTypeAlways, DdsTypeCorrect,
           EngineTypeAlways, FctTypeAlways, DaemonTypeAlways, SearchTypeAlways, GuiTypeAlways,
           WebTypeAlways, PTL
===============================================================================
