# A TLA+ verification of vos_sdk

vos_sdk is the voice SDK of a robot: a wakeup word starts a dialogue, a local voice
activity detector (VAD) finds the speech, a local engine or the cloud recognises it, and the
answer is spoken and acted upon. It is written in C; every part runs on threads of its own
that talk through bounded message queues, ring buffers, event groups and callbacks. The
modules here model the parts whose correctness depends on how those threads interleave; TLC
checks them on small instances and TLAPS proves the central invariants for every value of
the constants.

All models describe the build of `app/aimakefile`: `DDS_ENABLE`, `USE_TH_PROCESS`,
`USE_LOCAL_VAD`, `USE_LOCAL_ASR`, `LOCAL_ASR_IN_TH`, `USE_TIMEOUT` and `USE_DDS_FULL_DUPLEX`
defined, `USE_CLOUD_VAD` and `USE_TEST_MODE` not.

    tlc -config AsrDialogue.cfg MCAsrProcessor      # one run
    tlapm AsrProcessor_proofs.tla                   # the proofs of one module

## 1. Inventory

| Component | State | Operations and threads | Talks to |
|---|---|---|---|
| asr_processor (`component/aispeech/asr_processor`) | `process_run`'s state IDLE / SPEECHING / WAIT_FOR_ASR; four queues; three ring buffers; the event group; `asr_type`, `dds_type`, `net_status_check_lock`, `dds_timeout`, a one-shot timer | calls `start`, `stop`, `reset`, `feed`, `update_network_status`, `set_dds_type`, `asr_set_dui_or_local`; threads `process`, `vad`, `asr`, `ddsh`, `dds`, `net_check` | main (by `event_cb`), the cloud's library, the two speech engines |
| application (`app/src/main.c`) | `main`'s state WAIT_FOR_WAKEUP / WAIT_FOR_ASR / PLAYING; `s_app.q`; `fsm_stack` of deferred jobs, `app_stack` of custom prompts | the table `app_run_table`; callbacks of the recogniser, the player and the wakeup processor | asr_processor, player_manager, TH processor |
| task stack (`app/src/taskstack.c`) | a bounded list of jobs | push, pop, pop_clean | used by main |
| TH processor (`th_processor`) | answers' bits, status, method, version, progress of an upgrade; the watch dog's flag and mode | the thread TH (`th_run`, `start_dfu`, `th_set_info`), the watch dog, the card library's callbacks | the sound card's firmware, main, the daemon (by ending the process) |
| voice message rules (`voice_message_prase.c`) | the countdown to sleep, the last phrase and its flag, the socket to the screen | `voice_on_prase` on two threads, `voice_sleep_cheak`, `proc_server_thr`, `send_server` | main, the robot's screen application |
| device search (`protocol_conversion.c`) | the tables of devices and scenes, their lock | `generate_ctrl_protocol_data`, `refresh_search_config` | skills, the screen's link |
| skills (`app_skill.c`) | none (a table) | dispatch by name | main |
| web client (`webclient`) | connection, request and response state, a data buffer | set URL, connect, send header and body, read header and body, drop response, close; a TCP transport | cloud services |
| factory test (`factory_test.c`, `mic_ft.c`) | the engine, a ring buffer, an enable flag | `fct_start`, `fct_end`, the thread `fct_test`, the feeding callback | main's console, TH processor |
| vos daemon (`vos_daemon`, `speech_ctrl.sh`) | the USB node it knew last | a loop: look for the card, look for the process, run the script | the whole process, the card's power |
| lists (`lstLib.c`) | head, tail, count; the nodes' pointers | insert, delete, get, concat, extract, Nth | voice rules |
| OTA server, monitor, messages, volume | see PROJECT.json: never started, or no state | | |
| network status (`netstatus.c`) | the answers of the probed hosts | `net_status_check` | asr_processor's `net_check` |
| ghost, player, player_manager, duilite, dds | headers and object code only | queues, rings, timers; prompts; engines; cloud session | external |

What is hard about this system, and so what the properties are for:

* **bounded queues with blocking sends everywhere.** Every `gh_queue_send` waits for ever, and
  `process` sends to queues whose readers send to it, and to its own queue;
* **messages that overtake each other**: a stop, a reset, a result and the internal
  `CMD_ASR_RUN` reach `process` in any order, in any of its states;
* **waits that give up** (100 ms) and go on while the thread waited for is still at work,
  whose bit then answers a later wait;
* **a test and an assignment with a network probe in between** (`net_check`);
* **deferred work**: a result waits on a stack for a prompt to end, while wakeups and further
  results come in, and the completion does not say which prompt it is of;
* **objects handed from one thread to another by event bits**: the cloud's session object, which
  a caller deletes and builds again; the choice of the engine, taken from the network check;
* **counters and flags shared without a lock**: the watch dog's flag, the countdown to sleep, the
  flag of the phrase filter, the factory test's engine pointer;
* **outside parts that come and go**: the card, the process under the daemon, the screen, a server;
* **three timeouts** (dialogue, begin and end of speech) on three threads, each racing the
  answer it stands in for.

What makes the parts correct:

* *asr_processor*: somebody reads the microphone's buffer whenever it is open; listening and
  waiting end; the engine is not changed within a dialogue; what process tells an engine to
  read is readable; a stop ends every session; process never blocks for good.
* *application*: a deferred job belongs to the dialogue in progress; each has an event coming
  that releases it; each is worked off; a result is processed when its own prompt has ended.
* *session and engine*: nobody touches the session object while it runs; the type reported is the
  type built; an engine set by hand stays; those who wait for a hand-over come back.
* *TH processor*: the boot ends or somebody ends it; the watch dog ends only a process that was
  silent for its limit, and any that is; parameters are set to a card that is idle.
* *voice rules*: a message is suppressed only if it repeats within the window; the screen is told
  to stop after the last activity, not before, and is told; a command arrives whole.
* *device search*: what is packed is what was searched, of the tables as they are.
* *web client*: a request is on the wire in order, to the host of its URL; a body is delivered
  once, in order, whatever the sizes of buffers and chunks.
* *factory test*: no engine is used after its end; a result is of its own test's audio.
* *daemon*: a process that serves the card is left alone; a card that stays is served.
* *lists*: they are sequences, from either end.

## 2. Plan

1. `Ghost`, `AsrProcessor`, `AsrProcessor_proofs`: the recogniser. **Done** (the parts listed
   in section 7 excepted).
2. `AppFsm`, `AppFsm_proofs`: main's loop, the task stack, the player. **Done**.
3. `VosSystem`: `AppFsm` and `AsrProcessor` composed on the real queue and the real
   `event_cb`. `AppFsm`, with the recogniser as it abstracts it, is the abstract specification;
   that the composition implements it is the main property. **Done**.
4. `DdsSession`, `EngineChoice`: the change of the session and of the engine. **Done**.
5. `ThProcessor`: boot and watch dog. **Done**.
6. `VoiceWake`, `VoiceCache`, `GuiLink`: countdown, phrase filter, link to the screen. **Done**.
7. `DeviceSearch`: search and lock, against a definition of the search. **Done**.
8. `BodyStream`, `WebClient`: reading a response; `WebConnect`: sending a request. **Done**.
9. `VosDaemon`, `FactoryTest`, `LinkedList` with `ListSeq`. **Done**. The OTA server and the
   third-party message queue were on the plan; nothing in the program starts or calls them.

10. The proofs of section 5: first of the recogniser's, the loop's and the client's invariants,
   then of the other parts, then that `VosSystem` implements `AppFsm` and the lists sequences. **Done**.

Left: the order of the start-up.

## 3. Modules and how they correspond to the code

Conventions. A step is the code between two points at which a thread can block or at which
another thread can observe it; `*_pc` variables say where a thread is. Handlers and variables
keep their names (`cmd_vad_run_when_wait_for_idle` is `VadRunWhenIdle`). Logging and payloads
are left out. `event`, `handled`, `wakeup`, `ended` and the counters are bookkeeping.
A module whose name ends in `_proofs` holds the theorems of the module or modules it extends, one whose
name begins with MC an instance for TLC.
A definition preceded by "Slip:" is a plausible mistake in the action below it; none is part
of a specification, each serves to show that a run can tell it from the code.

### Ghost (external)
The ring buffer and queue primitives, as the SDK relies on them: a buffer is closed, open,
aborted or finished; `gh_ringbuf_start` reopens it, `gh_ringbuf_blocked_read` returns at an
abort or at the end of what was written. `gh_ringbuf_can_read` is nondeterministic where an
answer depends on audio that is not represented.

### AsrProcessor
| in the model | in `asr_processor.c` |
|---|---|
| `state`, `process_pc`, `in` | `process_run`'s `state` and message; the blocking call it is in |
| `queue`, `rb`, `done` | `q_process`, `q_vad`, `q_asr`, `q_dds_helper`; `rb_local_vad`, `rb_dds`, `rb_asr`; the `BIT_*_DONE` |
| `lock`, `asr_type`, `dds_type` | `net_status_check_lock`, the globals |
| `dds_timer`, `dds_timeout` | the dialogue timer and its flag |
| `outbox[s]` | a message a thread is blocked sending to `q_process`, or the rest of `asr_processor_reset` |
| `Process` and its disjuncts | the handlers of `process_run_table`, cut at their blocking calls; `Refused` is a row without a handler |
| `Call`, `Send`, `ResetOpensRing` | the application's calls before, at and after their send |
| `Vad`, `Asr`, `Ddsh` | `local_vad_run` with `vad_callback`, `asr_run` with `asr_callback`, `dds_helper_run` |
| `Dds`, `TimerExpires`, `NetProbe`, `NetApply` | `dds_handler`, `dds_timer_cb`, `net_check_run` before and after the probe |

Abstractions: `asr_processor_start` and `_stop` set the timer and `dds_timeout` right behind
their send, in the step of the send (process does not look at either between); `s_ap.running`
is written and tested by one thread and ends nothing; `s_ap.status` is 1 once the boot-time
updates, with which `Init` begins, are handled; a local engine gives one result per stop.

### AppFsm
| in the model | in `main.c` |
|---|---|
| `state`, `main_pc`, `call` | `main`'s state; whether it reads, is in a call of the recogniser, or looks for a job |
| `q`, `fsm_stack` | `s_app.q`, `s_app.fsm_stack` (`taskstack.c`) |
| `Wakeup` ... `Refused` | the handlers of `app_run_table`, rows with the same handler body merged |
| `RunJob`, `RunTtsPlay`, `NoJob` | the pending-job half of the loop: `speech_continue_job`, `asr_result_process_job`, `asr_tts_play_job` |
| `HearWakeup`, `RecogniserReports`, `PlayerReports` | `th_event_callback`, `asr_event_callback`, `asr_tts_play_cb` |
| `RecogniserInfo`, `RecogniserHandles` | asr_processor, abstracted to its queue and what it may report for a message |
| `requests`, `playing`, `callback`, `ended` | the player (external): one thread, one prompt at a time, a callback for each prompt that is over |

A result (`Result`) is what `app_do_parse_dui` distinguishes: whether there is an answer to
speak and whether the dialogue then stops, continues or neither.

### BodyStream and WebClient
`BodyStream` is the promise of `webclient.h`: repeated calls go through the body from its first
byte to its last and report FINISHED at its end. `WebClient` is the code that keeps it. Bytes
are their places in the response, so that "in order, none twice, none missing" can be said; a
header line and the framing around a chunk are one place each.

| in the model | in `webclient.c`, `transport_tcp.c` |
|---|---|
| `state`, `left`, `recved`, `recved2`, `dropping` | `state`, `dbuf.left`, `body_alreay_recved`, `body_alreay_recved2`, `enable_drop_data` |
| `op`, `len`, `ridx` | the call the caller is in, its `len`, the bytes decoded so far (`len - need_read`) |
| `want`, `plen` | the `len` and `plen` of the `tcp_transport_read` under way |
| `sent`, `recvd`, `from` | how much of the response has arrived, left the socket, reached the parser |
| `BodyCallOver`, `ParseBuffered`, `BeginBodyRead`, `ReadOk` | the loop of `webclient_read` and `webclient_drop_response`, which differ in where they copy and in what they return |
| `BeginHeaderRead`, `HeaderCallOver` | the header loop, the same in all three calls |
| `Recv`, `ReadTimeout`, `ReadAtEof`, `ReadError` | the outcomes of `recv` and `select` in `tcp_transport_read` |
| `Execute`, `Data` | `http_parser_execute` as its callbacks `on_body` and `on_message_complete` see it |

`BodyStream` is implemented under the identity mapping: `resp`, `consumed` and `result` are
variables of both. `dbuf.raw_len` is not a variable: every step that decodes bytes also counts
and clears it. `cycle_flag` is not one either: once `recv` returns 0 it always does, so that the
eleven rounds are one step.

### WebConnect
The request half of `webclient.c` over `transport_tcp.c`; `WebClient` begins where it ends.

| in the model | in the code |
|---|---|
| `wc_state`, `cinfo`, `transport`, `headers`, `dbuf` | the fields of `WebClient` |
| `tcp_fd`, `so_error`, `is_connecting`, `is_connected` | the socket, what SO_ERROR would say, the transport's flags |
| `SetUrl`, `Prepared`, `SendBody`, `BodyOver`, `GiveUp` | `webclient_set_url`, `_prepared`, `_send_body`, `_close` |
| `ConnectNoTransport`, `ConnectKept`, `ConnectBegins`, `ConnectAgain`, `WaitConnected` | `webclient_connect` with `tcp_transport_connect` and `wait_connected` |
| `layout`, `Line`, `Junk` | where the request's lines begin; what `snprintf` makes of one in a buffer of `BufSize` (`DEFAULT_DATA_BUF`, 4096), and what is sent from behind it |
| `SendSome`, `SendError`, `NextHeader` | the loop of `webclient_send_header` |

`asked_again` and `strayed` mark the two cases `ConnectedToTarget` excepts: a refusal that looked
like a timeout, and a connection that outlived a URL for which no transport exists.

`snprintf` returns the length the line would have had, and that is what is sent: a line that does not
fit is cut at the buffer's last byte and goes on with the memory behind it (`Junk`, as no byte of the
request stands there). If more than the buffer is left after a partial write, `memmove` overwrites
the object from `dbuf.left` on; the behaviour is then undefined, and the model stops (`overrun`).

### VosSystem
`App` and `Asr` are instances of `AppFsm` and `AsrProcessor` over the variables of both. Main's
calls are `Asr!Call` and `Asr!Send("app")` together with `App!AsrCall`; `q_process` (who sent
each message) and `infos` (how many the recogniser sent itself) are what `AppFsm` keeps of the
recogniser's queue, and `report` is `event_cb` blocked on `s_app.q`. `Reported` says which event
a handler's step calls `event_cb` with. A wakeup counts two and a reply of the cloud one against
`MaxOutside`.

### DdsSession and EngineChoice
| in the model | in `asr_processor.c` and `main.c` |
|---|---|
| `dds_bits` | `READY_DONE` and `CHANGE_MODE` of `s_ap.done` |
| `dds_object`, `session` | `s_ap.dds`; what `dds_start` (external) is doing with it |
| `AssignType` ... `SetReady` | `set_dds_type` with `dds_reload`, cut at its wait and between its accesses |
| `DdsStart`, `SessionUp`, `SessionEnds`, `SessionObeys`, `DdsOver` | `dds_run`'s loop around `dds_start` |
| `LoginDone`, `MainInsists`, `ConsoleSets` | main's wait for the login and its loop on full duplex; `test_run` |
| `NetReadsRunning` ... `NetTells` | `net_check_run` between its reads, probe and assignment |
| `ChoiceBegins` ... `ChoiceAssigns`, `RestoreNetCheck` | `asr_set_dui_or_local`, `asr_restore_net_check` |
| `NetworkUpdate`, `pinned` | process handling `CMD_NETWORK_UPDATE`; the engine set by hand and not given up |

`missed` says that a `DDS_EV_IN_EXIT` met no session, or one that had been told: its sender then
waits for good, as nothing else sets the bit.

### ThProcessor
| in the model | in `TH_process.c` |
|---|---|
| `th_pc`, `goal` | the thread TH in `loop_reset`, `start_dfu`, `th_set_info` |
| `status`, `method`, `dfu_finish`, `need_reset`, `watch_dog_*` | `th_flag_t` |
| `AskStatus` .. `MethodKnown`, `BitOrTimeout` | `get_th_status` and its wait for a bit, which may end without it |
| `MessageCallback`, `FwVersion`, `UpgradeCallback`, `OriginCallback` | the callbacks; `answers` are those the card has still to give |
| `LoopReset`, `ChooseMode`; `OriginCallback`, `AudioCounted` | a sign of life: the counter set back and the mode chosen, by TH in this order and by `origin_callback` in the other, a write a step; `feeding` is between the two of `origin_callback` |
| `DogReads`, `DogCounts`, `DogComparesFlag`, `DogComparesRun` | one round of `th_watch_dog`, an access a step |

`quiet`, `late` and `dog_raced` are bookkeeping: the rounds since the last sign of life, the answers
that came after their wait had given up, whether the last sign of life fell between two accesses of
the watch dog, or an access between the two writes of `origin_callback`. The callbacks come one at a time,
from the library's one thread (`Calling`).
The waits last as long as the code says or less: `watch_timeout` is {0, 1000000}, a time in 1970,
so that a wait can also end at once.

### VoiceWake, VoiceCache, GuiLink
| in the model | in `voice_message_prase.c` |
|---|---|
| `th_cb_time`, `th_wake_up`, `wake_up` | `g_th_cb_time`, `g_th_wake_up`, the thread's own copy |
| `CheakFlag` .. `CheakSleeps` | `voice_sleep_cheak`, its decrement a read and a write |
| `WakeupCallback`, `ResultArrives`, `CloudExits` | who sets the countdown |
| `voice_ache_flag`, `tmp_voice`, `last_voice_time` | the cache and its flag |
| `CheakTest` .. `CheakLeave`, `CacheTest` .. `CacheStoreTime` | `voice_on_prase` before and behind the action it takes, test and set of the flag apart |
| `ResetTest` .. `ResetLeave` | the cache's half of `voice_sleep_cheak` |
| `sock`, `ReaderSocket` .. `ReaderCloses` | `g_iSock4Lvgl`; `proc_server_thr` with `link_server`, `close_server` |
| `SendChecks`, `SendWrites`, `SendFails` | `send_server` and its loop over `write` |

The thread `voice_sleep_cheak` does two things a second that share nothing; each has its module.
`lost`, `busy`, `flag_raced`, `calls_overlap`, `glued`, `cut` and `killed` mark what the code does
not guard against; the properties say what holds but for those.

### FactoryTest, VosDaemon, DeviceSearch
| in the model | in the code |
|---|---|
| `FctStart` .. `StartFct` | `factory_test_start`, `fct_start` |
| `RunLoop` .. `RunCalc`, `EndDisable` .. `EndDelete` | `factory_run`, and `fct_end`, which only it calls in the course of a test |
| `rb_fct`, `fct_audio`, `AudioFeed` | the ring buffer, whose audio it holds, `fct_audio_feed` |
| `Search`, `Pgrep`, `Killall` | `search_usb`, `get_pid_sys`, the branches of `main` in `vos_daemon.c` |
| `ScriptKills`, `ScriptLooks` | `speech_ctrl.sh` before and after its three seconds |
| `CardChanges`, `FirmwareLoaded`, `ProcessEnds` | the card and the process (external) |
| `SearchLocks` .. `SearchUnlocks` | `generate_ctrl_protocol_data`, a device or an attribute a step |
| `RefreshLocks` .. `RefreshUnlocks` | `refresh_search_config` |

A field that is missing in a device or an attribute is a NULL pointer. `NullPk` and `Compared` say where
the code reads through one without a test: the string of the PK of every device in a search by
place and type, the identifier of every attribute that is compared. The process then dies in
`SearchFaults`, with the mutex held. The tables of the run have such devices and attributes, and `FatalDevices` says in one
expression which of them end a search.

`FoundDevices` and `FoundScenes` say in one set expression what the search's loops, with their
`continue`s and the flags that live across them, are to find, and `IsListing` that what was packed
names the members of such a set, each once and in order.

### LinkedList and ListSeq
`ListSeq` is what `lstLib.h` promises: sequences. `LinkedList` has the pointers. The refinement
mapping `Shown` reads a list with `lstNth`, which starts from the nearer end, so that it is about
`previous` as much as about `next`; its walks stop at the count, the library's at NULL. A node is inserted in one list at a time and deleted from
its own list only: the library cannot tell and the rule parser keeps to it.

### MCParts
The eleven modules without a variable in common, in one run: a behaviour chooses its `part`, and the
rest keep their initial states. It is the disjoint sum of eleven state spaces, not a composition.

## 4. Runs

"Pass" runs are exhaustive; a "violation" run exhibits a disagreement between the code and
what its comments or header say (section 6).

| Run | Instance | What it shows |
|---|---|---|
| `AsrDialogue` | half duplex, either engine, `start`/`stop`/`reset`, 2 calls, 1 cloud callback | `EngineLockHeld`: while process listens the engine lock is taken, or what takes it or ends listening is on its way, whatever the timer's callback and a reset do. `EngineRingReady`: when process can dispatch `CMD_ASR_RUN` to an engine, that engine's buffer is not left over from the dialogue before |
| `AsrSwitch` | starts in full duplex with the cloud, network check may switch to local, `start`/`stop`/`network` | `VadStreamServed`: an open microphone buffer has a reader or a message that brings one. `SpeechingEnds`, `StopDrainsFull` (liveness): listening ends; a stop ends every full-duplex session queued |
| `AppDialogue` | half duplex, both engines, all results, 2 wakeups, 3 recogniser messages | `NoStaleJob`, `JobsBacked`, `JobsWorkedOff` (liveness), see the module |
| `WebRead` | four responses (with and without a body, two chunkings), a buffer of 4, reads of 1, 3 and 5, drops of 2 | `NoOverrun`, `ConnectionClean`, the refinement `StreamSpec`, and `KeepAliveCompletes` (liveness): while the server keeps the connection the caller gets all |
| `System` | half duplex, the cloud's engine, the recogniser's queues as in the code, `s_app.q` of 2, two wakeups or their worth in replies | `AppSpec`: main and the real recogniser implement `AppFsm`, so what `AppDialogue` shows and `AppFsm_proofs` proves of main holds in the system. `DialogueEnds` (liveness): whenever the recogniser ends a dialogue main gets to know, three named cases apart |
| `Parts` | eleven small instances, see below | `DogPatient`, `SilenceBounded`, `SetWhenIdle`, `BootWatched` (card); `StopNotEarly`, `DialogueSleeps` (countdown); `SkipJustified`, `RepeatSuppressed`, `PhraseForgotten` (phrases); `CommandWhole`, `TableFollows` (screen); `DdsExclusive`, `ModeAgrees`, `MainStarts` (session); `EnginePinned`, `ChoiceReturns` (engine); `EngineLive`, `OwnAudio`, `TestEnds` (factory test); `RestartJustified`, `CardServed` (daemon); `SearchExact`; `ConnectedToTarget`, `RequestOnWire` (requests); `SequenceSpec` (lists); `TypeOK` of all |
| `AsrReset`, `AsrFullWedge`, `AsrEngineFixed`, `AsrNoResult`, `AppPromptOrder`, `WebClosed` | | the six findings |

**Bounds.** The recogniser's queues have the code's capacities (`MCCap`: 5, 4, 2, 5). Two calls
suffice to let one dialogue race the next, with the stop of the VAD, the timer and the cloud
counted apart; every handler and every refusal is reached. `AsrFullWedge` needs seven starts
to fill a queue of five behind a session. In `AppDialogue` `s_app.q` and the stack hold 2
(5 and 10 in the code) so that the cases "queue full" and "job dropped" do occur with two
wakeups and three recogniser messages; two wakeups are the least for a job to outlive one.
In `WebRead` the caller's buffers are smaller than, equal to a part of and larger than the
client's, and the responses longer than both, so that each of the three limits in
`webclient_read` cuts a body somewhere, within and between chunks; nothing bounds the number of
calls. `MaxCalls`, `MaxReplies`, `MaxWakeups` and `MaxInfos` bound the environment only: the theorems
of section 5 hold for all of them.

In `System` the bounds leave a dialogue, a barge-in by a second wakeup, and any mix of it with
the timeouts, a reply and the prompts. Its exceptions are what the code does: `untold`
is END_TIMEOUT, which returns to IDLE without an event (`asr_processor.c:723`); `Deaf` is a
reset that left nobody listening and no timer (:867 against :204, :1305); and a recogniser in
WAIT_FOR_ASR for good is `AsrNoResult` or a cloud that is silent after the timer was stopped.
With these capacities and bounds main and process never wait for each other in a circle.

Some hazards of PROJECT.json are beyond the bounds, or beside what a property says, and their
notes say so: the circles of `process` with the VAD thread (`asr_processor.c:598`), with itself (:634) and with
main (`main.c:538`) need queues fuller than the bounded calls make them; a lock that stays taken in IDLE
after an error (:653) keeps the network check from its work without letting a dialogue run without
it, which is what `EngineLockHeld` is about; a job that a full stack drops (`taskstack.c:13`) is dropped in
the model too, and no property says what should become of it.

In `Parts`:
- *card*: the watch dog's limits are 0, 1 and 0 rounds for 20, 30 and 15: what matters is that one mode's
  is longer than another's; one late answer is enough to shift all that follow; audio comes up to a
  counter of `MaxCount`, 2, beyond the longest limit (one race of an increment with a sign of life after the
  other can raise the counter without end); a card that does not upgrade by DFU begins idle with its old
  firmware, as nothing more is asked of it;
- *countdown*: a dialogue of 2 seconds, eight activities, so that every one of them can fall
  into the decrement of another's countdown and the count can go below its repair;
- *phrases*: two that match and one that does not, in three calls on two threads with
  `voice_sleep_cheak` between them: with three, a phrase can come back after another has
  taken its place in the cache; *screen*: commands of two pieces,
  two senders, two updates, two losses of the connection;
- *session*: three changes by the console beside main's; *engine*: three choices, so that a sign
  from one can be left for the next; *factory test*: three tests on a buffer of two pieces;
  *daemon*: five changes of card and process;
- *search*: one search against one refresh, in every table of two devices with up to three attributes
  out of those that differ in what the loops look at, missing fields included; four scenes;
- *requests*: three, to four URLs that differ in scheme, host or port, two headers; a buffer of three
  bytes, and lines that fit with their closing 0, fill it without, and are longer by two; *lists*: two lists over four nodes, without a bound on the operations.

The prefix `Max` marks bounds on the environment; the theorems hold for all values of them.

**Deadlock** is not checked: once the bounded calls, callbacks and wakeups are used up every
thread rightly waits on its queue. That no thread waits *wrongly* is what the liveness
properties and `NoWedge` are for.

**Fairness.** Weak fairness for each thread of the SDK (they are ordinary threads), for the
sends they are blocked in, for the gh_timer, for the VAD's timeouts (audio keeps coming) and
for the player (a prompt has an end). No fairness for the application's calls, a wakeup, the
speaker or the cloud. In `WebClient` the server sends what it has to send, and the caller calls
again until it gets FINISHED or an error, as `webclient.h` asks. `Prompt` = TRUE further assumes that the threads handle a message within
the seconds the timeouts take; it is used where liveness is checked and not where
`EngineLockHeld` and `EngineRingReady` are. In `System`: the same, for each thread of both parts.
In `Parts`: the SDK's threads, the console once it is inside a call, the daemon, the watch dog of
a process that lost its card, audio for the factory test (the microphones do not stop), and the
screen application, which is started again and announces what it changed. Nothing is assumed of
the card (it may stop or die at any time), the network, the cloud, wakeups and phrases.
`CardServed` assumes in its antecedent that the card stays.

## 5. Proofs

Eight modules hold the proofs. Every theorem is about the specification of the module it
extends, for every value of its constants within the modules' own assumptions: capacities of at
least one, any number of calls, callbacks, wakeups and results, any subset of the engines and calls.
Hypotheses beyond those are stated in the theorem and named below.

`AsrProcessor_proofs`
* `TypeCorrect == Spec => []TypeOK`.
* `EngineLock == Spec => []EngineLockHeld`. `EngineLockHeld` is not inductive: it speaks of
  SPEECHING only, and the step that enters SPEECHING is the send behind the one that took the
  lock. The invariant proved is TypeOK /\ PcOK /\ LockOK. `PcOK` says which message process can
  be handling at each blocking point and in which state; `LockOK` extends `EngineLockHeld` to
  the step between taking the lock and entering SPEECHING (`send_vad`). The argument: SPEECHING
  is entered from that step with the lock taken, or by a reset, which leaves behind itself in
  `q_process` the `CMD_VAD_RUN` that takes it. The lock is released in three places: by a stop
  and by a result, which leave SPEECHING in the same step, and by the timer's callback, which
  in the same step becomes the sender of a `CMD_ASR_STOP`. Either message stays in `outbox` or
  `q_process` until process takes it; other threads only add to `q_process`, and
  process takes one from it only in a step that is looked at by itself. No assumption is made
  on `NetCheck` or `Prompt`.
* `EngineRingOpen == Spec /\ [][Pinned]_vars => []EngineRingReady`: where no step changes the
  engine, its buffer is ready whenever process may dispatch to it. `EngineRingReady` says so where
  process reads; `RingOK` says it also where process is announcing the begin of speech to itself,
  and between the reopening of the buffer and the send to `q_vad`. The hypothesis is needed:
  `net_check` may change the engine in the middle of a dialogue (finding `AsrEngineFixed`), and the
  new one's buffer is that of its last dialogue. `EngineRingPinned` discharges it for the builds
  and uses in which nobody changes the engine: no network check and no network updates. That is
  `AsrDialogue`'s instance.
* `MicrophoneServed == Spec /\ [][~IdleReset]_vars => []VadStreamServed`: a reset handled in IDLE
  (finding `AsrReset`) is the only step that leaves the microphone's buffer open with nobody to
  read it. `MicrophoneServedWithoutReset` discharges that hypothesis where the application does not
  reset, or where the duplex is full (`asr_processor_reset` then returns at once). That is
  `AsrSwitch`'s instance.

`AppFsm_proofs`
* `TypeCorrect == Spec => []TypeOK`: the queues and the stack never exceed their capacity.
* `JobsAreCurrent == Spec => []NoStaleJob`: `NoStaleJob` is inductive given TypeOK. A job is
  pushed with the number of wakeups handled, a deferred result takes over the number of its
  job, and only `DoWakeup` changes that number, in the step that empties the stack.
* `JobsAreBacked == Spec => []JobsBacked`: the jobs on the stack are no more than the prompts
  still to end, and PLAYING has one. `JobsBacked` says so where main reads. Elsewhere one job may be
  ahead: its prompt's completion has been read and the job not yet taken, or its prompt not yet
  begun. That is `Slack`, and `Backed` the invariant. Most of the proof is about
  `Outstanding`: what each step takes from the player's requests, its prompt, its callback or `s_app.q`
  it adds to the next of them.

`VosSystem_proofs`
* `SystemImplementsApp`: `Spec /\ [](infos <= MaxInfos) => AppSpec`. The composition of the
  application with the whole recogniser does, seen from main, only what `AppFsm` says of the
  application with its abstract recogniser; with `AppFsm_proofs` it follows that `NoStaleJob` and
  `JobsBacked` hold with the real recogniser too. The proof maps each step: main's calls and their
  sends to `AsrCall`, process's receive to `RecogniserHandles`, an `event_cb` to `RecogniserReports`,
  sends of the recogniser's threads to `RecogniserInfo`, the rest to a stutter. The invariant is `SystemInv`: `q_process`
  as `AppFsm` sees it (who sent each message) and as `AsrProcessor` sees it (which message) agree
  place by place (`OneQueue`); a send under way is that of the call main is inside of; the engine
  stays; in full duplex process stays IDLE (`StaysIdle`), so that only results are
  reported; nothing moves before the first wakeup (`AtRest`). The hypothesis is about a bound, not
  about the code: `AppFsm` counts the recogniser's own messages up to `MaxInfos` so that TLC's state space
  is finite, and the behaviours that exceed that count are outside of it. `MaxInfos` is any number.
* `FullStaysIdle`: the two parts of the invariant that `AppFsm` takes for granted, by themselves.

`WebClient_proofs`
* `TypeCorrect`, `BufferRespected == Spec => []NoOverrun`, `BodyInOrder == Spec => []Prefix`,
  `Reusable == Spec => []ConnectionClean`, and `Implements == Spec => StreamSpec`: every step of
  the client is a step of `BodyStream` or leaves its variables alone.
* The invariant is TypeOK /\ BytesOK /\ PhaseOK /\ CallOK /\ Prefix. `BytesOK` says where the
  bytes are that have left the socket: parsed, in `dbuf`, or in the read under way, unless the
  connection is over; without it nothing would say that a read continues where the parser
  stopped. `PhaseOK` ties `body_alreay_recved` and the state to the place the parser has
  reached, and `CallOK` bounds a read of the body by what the caller's buffer still holds, from
  which `NoOverrun` follows because decoding never yields more bytes than it is given
  (`DataFinite`).

`WebConnect_proofs`
* `RequestOnWireAlways`: what the socket has taken is the first bytes of the request, however it
  splits a write (`Ahead`: a run of consecutive bytes; a run behind a run is a run), save that what a line
  has behind the end of the buffer is replaced, byte by byte. The lines may have any lengths, and so may the buffer.
  The invariant `SendInv` says which run the buffer holds in each state.
* `ConnectedToTargetAlways`, from `Connection`, which says what `is_connecting` and `is_connected`
  are worth against what the socket is. Its two exceptions are recorded in `asked_again` and
  `strayed` and appear in the invariant where they arise.
* `WebTypeAlways`: the types, for which `prepare` must know that a request is still allowed.

`Voice_proofs` (the TH processor and the three voice modules)
* `DogPatientAlways`, `SilenceBoundedAlways`. Most steps are, to the watch dog, one of four: a
  half a sign of life or nothing, and so the proof treats them (`Resets`, `Feeds`, `Chooses`, `Nothing`). The invariant relates the
  two counters and the place in the loop: the flag never exceeds the silent rounds except for a
  race that is on record, a dog about to end the process has counted beyond the limit, and the
  limit of the mode it compares with was that of the mode it is in. `SilenceBounded` needs that the
  second limit is the longest (`LimitAssumption`: 20, 30 and 15 in the code).
* `ThTypeAlways`; `SetWhenIdleAlways`. The invariant `Questions`: while no answer has come late,
  at most one is on its way, it is the answer to the question asked last, a bit that is set is of that
  question, and an "idle" that was heard is still true.
* `CounterRepairedAlways` (the countdown never falls below -6) and `StopNotEarlyAlways`, from an
  invariant on the number read, the number written and the seconds since the last activity.
* `FlagExcludesAlways`: without a race for the flag one thread is in the cache; `SkipJustifiedAlways`
  builds on it: a phrase stored is one that was acted upon, and its age is known.
  `RepeatSuppressedAlways` adds that the last phrase acted upon is in the cache with an age no
  greater than its own (`RecentKept`), and that a caller that passed the test did not repeat it (`PassedOther`). Its proof showed
  the property's first form to be too strong: it promised that any phrase acted upon within the
  window is suppressed, which two calls could not refute; the code remembers the last phrase only,
  so that with three calls "a, b, a" is acted upon three times. The property now says
  so (`Recent`), and the run has three calls.
* `CommandWholeAlways`: what has arrived is the first `index` pieces.

`Parts_proofs` (`EngineChoice`, `DdsSession`, `FactoryTest`, `VosDaemon`, `DeviceSearch`; `MCParts`)
* `EnginePinnedAlways`: while an engine is pinned the check is off, and the thread is not, or
  no longer, between its look at the check and its assignment. That rests on the sign: when it
  is set and not yet cleared after the check was turned off, no probe is under way.
* `DdsTypeCorrect`, `DdsExclusiveAlways`, `ModeAgreesAlways`. The invariant is that the object has
  one owner at a time: the two bits, the thread in `dds_start` and the callers
  between their waits are places a single token can be at. The session that ends by itself leaves
  its bit behind; the proof shows that the caller who finds it can trust it.
* `EngineLiveAlways`, `OwnAudioAlways`: tests take turns unless they overlap (`Turns`), and what is in the
  buffer and in the engine is of the current test unless the thread was early (`OwnOnly`).
* `DaemonTypeAlways`, and `RestartJustifiedAlways`, an action property: a process that is fresh was
  started for the card as the last search found it (`StartedAsFound`), and what that search can still
  see change is no change that has the process killed.
* `SearchExactAlways`: the tables do not change under the search (`Apart`, which rests on the mutex),
  and what is packed is at every step the search of the items passed so far (`AtItem`,
  `AtAttribute`), the flags that live across the loops included.
* `EveryPart`: a behaviour of `MCParts` is one of every part's own specification, of the part that was
  chosen by its steps and of the others by resting, so that the theorems above and those of the other
  modules hold of what the run `Parts` explores. `PartsTypeAlways == Spec => []TypeOK` is drawn from it and
  from one lemma per part. What those add to the invariants above: that audio is only heard in a test that
  has a number (`TestStarted`), that a search never passes the item after the last (`SearchPlaces`), and that
  no more announcements wait in the screen's socket than its table has changes (`TableInv`).

`LinkedList_proofs`
* `ListsAreSequences == ListSpec => SequenceSpec`: for any lists and nodes, the pointers refine
  sequences. The invariant is that sequences exist of which the pointers are the image (`Shape`):
  neighbours point at each other (`Chain`), no node is at two places (`Apart`), and
  where two nodes point at each other they are neighbours in a list (`Mutual`), which is what makes `lstDelete`'s look at a
  node that is in no list a sufficient test. One lemma for each operation gives the sequences after it.
  That `lstNth` shows them is an induction along the pointers. The induction theorems of the
  library cannot be instantiated by the provers at hand, and `CountsUp` stands in for them: a set that
  has 1 and with each number the next contains 1..n, from the library's pigeonhole theorem.

The sequence lemmas (`InPushed`, `PopOK`, ...) rest on the library's SequenceTheorems.

**Model-checked only.** All liveness properties, which are beyond the prover, as ENABLED is:
`SpeechingEnds`, `StopDrainsFull`, `JobsWorkedOff`, `KeepAliveCompletes`, `DialogueEnds`, `BootWatched`,
`DialogueSleeps`, `PhraseForgotten`, `MainStarts`, `ChoiceReturns`, `TestEnds`, `CardServed`, `TableFollows`.
`EngineRingReady` with a network check on, and `VadStreamServed` with resets in half duplex, are false of
the code and in no run that passes. Every other safety
property of the passing runs is stated by a theorem. Conversely `TypeOK` of
`AsrProcessor`, `AppFsm` and `WebClient`, `Prefix`, `CounterRepaired`, `FlagExcludes` and
`FullStaysIdle` are proved for every value of the constants and are in no run.

## 6. Findings

* `AsrReset` (`asr_processor.c:598`): a reset in IDLE is handled by the handler made for
  `CMD_VAD_RUN`, which forwards the reset itself to the VAD thread; that thread starts for
  `CMD_VAD_RUN` only. The state is SPEECHING, the buffer is open and nobody reads it, until the
  dialogue timer ends it. The comment at :914 promises a complete speech flow.
* `AsrFullWedge` (:547): in full duplex the state stays IDLE, so each `asr_processor_start`
  queues another session behind one that only a stop ends. After six without a stop, process
  blocks on `q_dds_helper` for good.
* `AsrEngineFixed` (:890): `net_check_run` tests the lock before a probe of seconds and assigns
  `asr_type` after it; the comment at :69 says the engine does not change within a dialogue.
* `AsrNoResult` (:666): `CMD_ASR_RUN` goes through process's own queue; a stop queued before it
  moves to WAIT_FOR_ASR with no engine started and the dialogue timer stopped.
* `AppPromptOrder` (`main.c:687`): a completion carries no prompt; when an answer replaces
  another's prompt, the completion of the first releases the result of the second.
* `WebClosed` (`transport_tcp.c:187`): at the end of a closed connection `tcp_transport_read`
  returns a timeout and loses what it had received in the same call; `webclient_read`, which asks
  for more than the body has left, then never gets to FINISHED.

Observations that contradict no doc or comment, and so are in the models without a run of their own:

* `ThProcessor`: `watch_timeout` is a time of 1970 (`TH_process.c:117`), the timed lock a try-lock whose
  result is ignored. An answer that comes after its wait has ended leaves its bit set, and every later
  question gets the answer of the one before; the upgrade may then be passed by and `loop_reset`
  goes round until the watch dog ends the process. Nothing sets `need_download`.
* `DdsSession`: a caller whose EXIT is missed waits for good.
* `FactoryTest`: the thread is enabled before its ring buffer is started, and a test started during
  another replaces the engine under it; `fct_end` leaves the pointer to a deleted engine.
* `VosDaemon`: the script turns the card's power off when it sees no node after three seconds,
  and nothing turns it on again.
* `DeviceSearch`: `PK->valuestring` is used before PK is tested (`protocol_conversion.c:345`, the test is
  at :350), and `attr_id->valuestring` is never tested (:204, :369): a table with one such device ends the
  process. A file that cannot be read is an empty table.
* `GuiLink`: announcements are compared as one `read` returned them; nothing is read anew after a
  reconnection; the parts of two senders' commands can mix.
* `ThProcessor`: `origin_callback` (:107) chooses its mode before it sets the counter back, so that the watch
  dog can hold a counter of the boot against the shorter limit of a card that delivers audio.
* The rule parser's `memset(p, 0, sizeof(sizeof(..) * n))` (`voice_message_prase.c:388`, :422,
  :485) clears some bytes of its arrays only.

And three where a line of `webclient.h` promises more than the code does. They are in the model, excepted in the
properties by name, and have no run of their own:

* SO_ERROR tells of a refusal once: the first wait says timeout, the next connected (`asked_again`).
  `webclient.h:147` says of `webclient_connect` that OK means connected.
* A URL for which no transport exists leaves `obj->transport` NULL, so that nothing closes the connection
  of the URL before, and the next URL finds it open, whatever its host (`strayed`). `webclient.h:92` says that
  `webclient_set_url` closes the connection when host or port differ.
* A line of 4096 bytes or more is sent with what lies behind the buffer (`webclient.c:463`, :535), and can overwrite
  the object. `webclient.h:154` says that the request line and the headers are sent as HTTP asks.

## 7. What is not modelled

* Of asr_processor: authorisation (it ends before any of the threads runs); the audio itself, and
  with it the second read of `asr_type` in `asr_audio_feed`.
* Of main: the order of the start-up, USB and network repair, custom prompts on `app_stack`; the
  states SPEECHING and WAIT_FOR_SPEECHING, which no handler enters.
* Of the TH processor: `th_get_info`, direction of arrival, beam forming and work mode, which are
  handed on as they come; the download mode, which is never entered.
* Of the voice rules: matching (a phrase matches or not) and parsing of the rule file.
* Of the web client: TLS (vendored, and not in the build); responses whose end is the end of the
  connection (the code reports them finished at once); malformed responses.
* Of the lists: `lstFind`, `lstFree`, `lstFirst` and the like, which only walk.
* The OTA server and the third-party messages: no code of the program starts or calls them, so
  there is no behaviour to be faithful to. Volume control: `s_cur_volume` is never
  assigned. Monitor (reads /proc and logs), skills (a table), the pings behind `netstatus`: no
  state that survives a call.
* Floating point: FFT and spectrum of the factory test.
* Vendored code: mbedTLS, faad2, helix, cJSON, http_parser, tinyalsa, tsdemux, ping and others make up
  most of the repository's lines; they are libraries with
  projects of their own, and what the SDK relies on is in the models above.
