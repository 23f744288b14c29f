------------------------------ MODULE FactoryTest ------------------------------
(***************************************************************************)
(* The factory test of the microphones (app/src/factory_test.c with        *)
(* factory_test_start and export_fct_result of app/src/main.c).  The       *)
(* console starts a test; the card's callback writes audio to rb_fct; the  *)
(* thread fct_test feeds it to the engine of mic_ft.c until that has       *)
(* enough, exports the result and ends the test (fct_end).  The current    *)
(* engine and gFactoryEnable are shared without a lock.                    *)
(*                                                                         *)
(* A test has a number, its engine too.  What mic_ft.c calculates is left  *)
(* out: an engine counts what it was fed.                                  *)
(***************************************************************************)
EXTENDS Naturals, Sequences

CONSTANTS
    MaxTests, \* how many tests are started
    Enough,   \* the pieces of audio an engine wants
    RingSize  \* the pieces rb_fct holds

ASSUME FctAssumption == /\ MaxTests \in Nat
                        /\ Enough \in Nat \ {0} /\ RingSize \in Nat \ {0}

Ghost == INSTANCE Ghost

VARIABLES
    ft_engine,      \* ft_var.ft_enging: the test it is of, 0 for NULL
    deleted,        \* the engines deleted
    length,         \* what the current engine was fed
    gFactoryEnable, \* is a test running?
    rb_fct,         \* the flags of the ring buffer
    fct_audio,      \* the tests during which the pieces in it were heard
    fct_test_flag,  \* does the card's callback deliver?
    run_pc,         \* the thread fct_test
    piece,          \* the piece it has read, 0 if none
    start_pc,       \* the console in factory_test_start
    tests,          \* the tests started
    results,        \* the results exported
    overlap,        \* was a test started before the last one was over?
    early,          \* has the thread read between gFactoryEnable and gh_ringbuf_start?
    mixed           \* has an engine been fed an earlier test's audio?

fctVars == <<ft_engine, deleted, length, gFactoryEnable, rb_fct, fct_audio, fct_test_flag,
             run_pc, piece, start_pc, tests, results, overlap, early, mixed>>

FctTypeOK ==
    /\ ft_engine \in 0 .. MaxTests /\ deleted \subseteq 1 .. MaxTests
    /\ length \in 0 .. Enough
    /\ gFactoryEnable \in BOOLEAN /\ fct_test_flag \in BOOLEAN
    /\ rb_fct \in Ghost!RingStatus
    /\ fct_audio \in Seq(1 .. MaxTests) /\ Len(fct_audio) <= RingSize
    /\ run_pc \in {"loop", "read", "feed", "calc", "end", "finish", "delete"}
    /\ piece \in 0 .. MaxTests
    /\ start_pc \in {"idle", "new", "enable", "ring", "flag"}
    /\ tests \in 0 .. MaxTests /\ results \in Nat
    /\ overlap \in BOOLEAN /\ early \in BOOLEAN /\ mixed \in BOOLEAN

FctInit ==
    /\ ft_engine = 0 /\ deleted = {} /\ length = 0
    /\ gFactoryEnable = FALSE /\ fct_test_flag = FALSE
    /\ rb_fct = "closed" /\ fct_audio = <<>>
    /\ run_pc = "loop" /\ piece = 0 /\ start_pc = "idle"
    /\ tests = 0 /\ results = 0
    /\ overlap = FALSE /\ early = FALSE /\ mixed = FALSE
-------------------------------------------------------------------------------
StartGoto(from, to) == start_pc = from /\ start_pc' = to

\* fct_start: ft_var is cleared ...
FctStart ==
    /\ StartGoto("idle", "new") /\ tests < MaxTests
    /\ tests' = tests + 1
    /\ ft_engine' = 0
    /\ overlap' = (overlap \/ gFactoryEnable \/ run_pc # "loop")
    /\ UNCHANGED <<deleted, length, gFactoryEnable, rb_fct, fct_audio, fct_test_flag, run_pc,
                   piece, results, early, mixed>>

\* ... the engine is created ...
EngineNew ==
    /\ StartGoto("new", "enable")
    /\ ft_engine' = tests /\ length' = 0
    /\ UNCHANGED <<deleted, gFactoryEnable, rb_fct, fct_audio, fct_test_flag, run_pc, piece,
                   tests, results, overlap, early, mixed>>

\* ... gFactoryEnable set ...
Enable ==
    /\ StartGoto("enable", "ring")
    /\ gFactoryEnable' = TRUE
    /\ UNCHANGED <<ft_engine, deleted, length, rb_fct, fct_audio, fct_test_flag, run_pc, piece,
                   tests, results, overlap, early, mixed>>

\* Slip: the ring buffer is opened again, but not emptied.
RingReopened ==
    /\ StartGoto("ring", "flag")
    /\ rb_fct' = Ghost!RingStart(rb_fct)
    /\ UNCHANGED <<ft_engine, deleted, length, gFactoryEnable, fct_audio, fct_test_flag, run_pc,
                   piece, tests, results, overlap, early, mixed>>

\* ... and the ring buffer started, which empties it.
StartRing ==
    /\ StartGoto("ring", "flag")
    /\ rb_fct' = Ghost!RingStart(rb_fct) /\ fct_audio' = <<>>
    /\ UNCHANGED <<ft_engine, deleted, length, gFactoryEnable, fct_test_flag, run_pc, piece,
                   tests, results, overlap, early, mixed>>

\* thsdk_start_fct
StartFct ==
    /\ StartGoto("flag", "idle")
    /\ fct_test_flag' = TRUE
    /\ UNCHANGED <<ft_engine, deleted, length, gFactoryEnable, rb_fct, fct_audio, run_pc, piece,
                   tests, results, overlap, early, mixed>>

FactoryTestStart == EngineNew \/ Enable \/ StartRing \/ StartFct

\* fct_audio_feed by origin_callback: gh_ringbuf_try_write takes what there is room for.
AudioFeed ==
    /\ fct_test_flag /\ rb_fct = "open" /\ Len(fct_audio) < RingSize
    /\ fct_audio' = Append(fct_audio, tests)
    /\ UNCHANGED <<ft_engine, deleted, length, gFactoryEnable, rb_fct, fct_test_flag, run_pc,
                   piece, start_pc, tests, results, overlap, early, mixed>>
-------------------------------------------------------------------------------
\* factory_run
RunGoto(from, to) == run_pc = from /\ run_pc' = to
runRest == <<start_pc, tests, overlap>>

RunLoop ==
    /\ RunGoto("loop", "read") /\ gFactoryEnable
    /\ UNCHANGED <<ft_engine, deleted, length, gFactoryEnable, rb_fct, fct_audio, fct_test_flag,
                   piece, results, early, mixed, runRest>>

\* gh_ringbuf_blocked_read waits for a piece, or finds the buffer finished and empty.
RunRead ==
    /\ RunGoto("read", "feed")
    /\ \/ fct_audio # <<>> /\ piece' = Head(fct_audio) /\ fct_audio' = Tail(fct_audio)
       \/ fct_audio = <<>> /\ ~Ghost!ReaderStays(rb_fct) /\ piece' = 0 /\ UNCHANGED fct_audio
    /\ early' = (early \/ start_pc = "ring")
    /\ UNCHANGED <<ft_engine, deleted, length, gFactoryEnable, rb_fct, fct_test_flag, results,
                   mixed, runRest>>

\* Nothing is said of a process that has used NULL or a deleted engine: it stops here.
EngineThere == ft_engine \notin deleted \cup {0}

\* Slip: one piece more than enough is waited for.
FeedPastEnough ==
    /\ run_pc = "feed" /\ EngineThere
    /\ length' = IF piece # 0 /\ length < Enough THEN length + 1 ELSE length
    /\ mixed' = (mixed \/ (piece # 0 /\ piece # ft_engine))
    /\ piece' = 0
    /\ run_pc' = IF length' > Enough THEN "calc" ELSE "loop"
    /\ UNCHANGED <<ft_engine, deleted, gFactoryEnable, rb_fct, fct_audio, fct_test_flag, results,
                   early, runRest>>

\* ft_engine_feed answers 0 as soon as the engine has enough.
RunFeed ==
    /\ run_pc = "feed" /\ EngineThere
    /\ length' = IF piece # 0 /\ length < Enough THEN length + 1 ELSE length
    /\ mixed' = (mixed \/ (piece # 0 /\ piece # ft_engine))
    /\ piece' = 0
    /\ run_pc' = IF length' = Enough THEN "calc" ELSE "loop"
    /\ UNCHANGED <<ft_engine, deleted, gFactoryEnable, rb_fct, fct_audio, fct_test_flag, results,
                   early, runRest>>

\* ft_engine_calc, and export_fct_result with its result or without one.
RunCalc ==
    /\ RunGoto("calc", "end") /\ EngineThere
    /\ results' = results + 1
    /\ fct_test_flag' = FALSE
    /\ UNCHANGED <<ft_engine, deleted, length, gFactoryEnable, rb_fct, fct_audio, piece, early,
                   mixed, runRest>>

\* Slip: fct_end forgets the flag.
EndEnabled ==
    /\ RunGoto("end", "finish")
    /\ UNCHANGED <<ft_engine, deleted, length, gFactoryEnable, rb_fct, fct_audio, fct_test_flag,
                   piece, results, early, mixed, runRest>>

\* fct_end: the flag, the ring buffer and the engine, whose pointer stays.
EndDisable ==
    /\ RunGoto("end", "finish")
    /\ gFactoryEnable' = FALSE
    /\ UNCHANGED <<ft_engine, deleted, length, rb_fct, fct_audio, fct_test_flag, piece, results,
                   early, mixed, runRest>>

EndFinish ==
    /\ RunGoto("finish", "delete")
    /\ rb_fct' = Ghost!RingFinish(rb_fct)
    /\ UNCHANGED <<ft_engine, deleted, length, gFactoryEnable, fct_audio, fct_test_flag, piece,
                   results, early, mixed, runRest>>

EndDelete ==
    /\ RunGoto("delete", "loop") /\ ft_engine \notin deleted
    /\ deleted' = IF ft_engine = 0 THEN deleted ELSE deleted \cup {ft_engine}
    /\ UNCHANGED <<ft_engine, length, gFactoryEnable, rb_fct, fct_audio, fct_test_flag, piece,
                   results, early, mixed, runRest>>

FactoryRun == RunLoop \/ RunRead \/ RunFeed \/ RunCalc \/ EndDisable \/ EndFinish \/ EndDelete

FctNext == FctStart \/ FactoryTestStart \/ AudioFeed \/ FactoryRun

FctSpec == FctInit /\ [][FctNext]_fctVars
-------------------------------------------------------------------------------
(***************************************************************************)
(* An engine is fed, asked and deleted only while it exists, and so        *)
(* deleted once, though its pointer stays after fct_end; a test started    *)
(* while another runs is excepted.                                         *)
(***************************************************************************)
EngineLive == run_pc \in {"feed", "calc", "delete"} /\ ~overlap
                  => ft_engine \notin deleted \cup {0}

(***************************************************************************)
(* A result is of its own test's audio, though audio is left in the buffer *)
(* when a test ends, unless the thread reads before the buffer is started. *)
(***************************************************************************)
OwnAudio == mixed => early \/ overlap

(***************************************************************************)
(* A test ends with its result exported as long as audio comes.            *)
(***************************************************************************)
TestEnds == results # tests ~> results = tests \/ overlap
===============================================================================
