--------------------------------- MODULE MCParts ---------------------------------
(***************************************************************************)
(* The parts that share no variable, one run for all: a behaviour chooses  *)
(* its part in the beginning and the others rest.                          *)
(***************************************************************************)
EXTENDS ThProcessor, VoiceWake, VoiceCache, DdsSession, EngineChoice, FactoryTest, VosDaemon,
        DeviceSearch, GuiLink, WebConnect, LinkedList

VARIABLE part

PatienceOf == <<0, 1, 0>>

MakeUrl(s, h, p) == [scheme |-> s, host |-> h, port |-> p]
MCUrls == {MakeUrl("http", "a", 80), MakeUrl("http", "a", 443), MakeUrl("https", "a", 443), MakeUrl("http", "b", 80)}

MakeLayout(b) == [i \in 0 .. 3 |-> IF i = 0 THEN 0 ELSE b[i]]
MCLayouts == {MakeLayout(b) : b \in {<<2, 4, 5>>, <<3, 5, 6>>, <<1, 6, 7>>}}

MakeAttr(n, i) == [name |-> n, identifier |-> i]
MakeDev(p, k, t, n, s, a) ==
    [pk |-> p, serial |-> k, type |-> t, named |-> n, space |-> s, attribute |-> a]
Attrs == {<<MakeAttr("asked", "wanted"), MakeAttr("other", "wanted")>>,
          <<MakeAttr("absent", "wanted"), MakeAttr("asked", "other"), MakeAttr("asked", "wanted")>>,
          <<MakeAttr("other", "other")>>,
          <<MakeAttr("asked", "wanted"), MakeAttr("other", "absent")>>}
Devs == {MakeDev(TRUE, TRUE, 1, n, "here", a) : n \in BOOLEAN, a \in Attrs}
        \cup {MakeDev(TRUE, TRUE, 2, TRUE, "absent", <<MakeAttr("asked", "wanted")>>)}
Others == {MakeDev(TRUE, TRUE, 1, FALSE, "elsewhere",
                   <<MakeAttr("other", "wanted"), MakeAttr("asked", "wanted")>>),
           MakeDev(TRUE, FALSE, 0, TRUE, "here", <<MakeAttr("asked", "wanted")>>),
           MakeDev(FALSE, TRUE, 0, TRUE, "here", <<MakeAttr("asked", "wanted")>>)}
Tables == {<<d, e>> : d \in Devs, e \in Others} \cup {<<e, d>> : d \in Devs, e \in Others}
MakeScene(k, n) == [ok |-> k, named |-> n]
Scenes == {<<MakeScene(TRUE, TRUE), MakeScene(FALSE, TRUE), MakeScene(TRUE, FALSE), MakeScene(TRUE, TRUE)>>}

Parts == {"th", "wake", "cache", "dds", "engine", "fct", "daemon", "search", "gui", "web", "list"}
partsVars == <<part, thVars, wakeVars, voiceVars, ddsVars, engineVars, fctVars, daemonVars, searchVars, guiVars, webVars, listVars>>

\* A part that was not chosen rests in one of its initial states.  Of the cards that do not upgrade
\* by DFU one is enough: that TH asks, and starts them as they are.
AtRest ==
    /\ upgrades_by = "download" => card = "idle" /\ fw = "old"
    /\ part # "th" => upgrades_by = "download"
    /\ part # "daemon" => ~power
    /\ part # "dds" => dds_type = "full"
    /\ part # "search" => dev_array_js = CHOOSE t \in Tables : TRUE
    /\ part # "gui" => ~gui_up
    /\ part # "web" => cinfo = (CHOOSE u \in MCUrls : TRUE) /\ layout = MakeLayout(<<2, 4, 5>>)

Init ==
    /\ part \in Parts
    /\ ThInit /\ WakeInit /\ VoiceInit /\ DdsInit /\ EngineInit
    /\ FctInit /\ DaemonInit /\ SearchInit /\ GuiInit /\ WebInit
    /\ ListInit
    /\ AtRest

ThPart == part = "th" /\ ThNext
            /\ UNCHANGED <<part, wakeVars, voiceVars, ddsVars, engineVars, fctVars,
                           daemonVars, searchVars, guiVars, webVars, listVars>>
WakePart == part = "wake" /\ WakeNext
            /\ UNCHANGED <<part, thVars, voiceVars, ddsVars, engineVars, fctVars,
                           daemonVars, searchVars, guiVars, webVars, listVars>>
VoicePart == part = "cache" /\ VoiceNext
            /\ UNCHANGED <<part, thVars, wakeVars, ddsVars, engineVars, fctVars,
                           daemonVars, searchVars, guiVars, webVars, listVars>>
DdsPart == part = "dds" /\ DdsNext
            /\ UNCHANGED <<part, thVars, wakeVars, voiceVars, engineVars, fctVars,
                           daemonVars, searchVars, guiVars, webVars, listVars>>
EnginePart == part = "engine" /\ EngineNext
            /\ UNCHANGED <<part, thVars, wakeVars, voiceVars, ddsVars, fctVars,
                           daemonVars, searchVars, guiVars, webVars, listVars>>
FctPart == part = "fct" /\ FctNext
            /\ UNCHANGED <<part, thVars, wakeVars, voiceVars, ddsVars, engineVars,
                           daemonVars, searchVars, guiVars, webVars, listVars>>
DaemonPart == part = "daemon" /\ DaemonNext
            /\ UNCHANGED <<part, thVars, wakeVars, voiceVars, ddsVars, engineVars,
                           fctVars, searchVars, guiVars, webVars, listVars>>
SearchPart == part = "search" /\ SearchNext
            /\ UNCHANGED <<part, thVars, wakeVars, voiceVars, ddsVars, engineVars,
                           fctVars, daemonVars, guiVars, webVars, listVars>>
GuiPart == part = "gui" /\ GuiNext
            /\ UNCHANGED <<part, thVars, wakeVars, voiceVars, ddsVars, engineVars,
                           fctVars, daemonVars, searchVars, webVars, listVars>>
WebPart == part = "web" /\ WebNext
            /\ UNCHANGED <<part, thVars, wakeVars, voiceVars, ddsVars, engineVars,
                           fctVars, daemonVars, searchVars, guiVars, listVars>>
ListPart == part = "list" /\ ListNext
            /\ UNCHANGED <<part, thVars, wakeVars, voiceVars, ddsVars, engineVars,
                           fctVars, daemonVars, searchVars, guiVars, webVars>>

Next ==
    \/ ThPart
    \/ WakePart
    \/ VoicePart
    \/ DdsPart
    \/ EnginePart
    \/ FctPart
    \/ DaemonPart
    \/ SearchPart
    \/ GuiPart
    \/ WebPart
    \/ ListPart

\* The fairness of each part, which binds it where it was chosen.
Fairness ==
    /\ WF_thVars(part = "th" /\ ThRun) /\ WF_thVars(part = "th" /\ Dog)
    /\ WF_wakeVars(part = "wake" /\ Cheak)
    /\ WF_voiceVars(part = "cache" /\ Reset)
    /\ \A c \in Callers : WF_voiceVars(part = "cache" /\ Caller(c))
    /\ WF_ddsVars(part = "dds" /\ Dds) /\ WF_ddsVars(part = "dds" /\ LoginDone)
    /\ WF_ddsVars(part = "dds" /\ MainInsists)
    /\ \A c \in Setters : WF_ddsVars(part = "dds" /\ Setter(c))
    /\ WF_engineVars(part = "engine" /\ NetCheck) /\ WF_engineVars(part = "engine" /\ Choice)
    /\ WF_fctVars(part = "fct" /\ FactoryTestStart) /\ WF_fctVars(part = "fct" /\ AudioFeed)
    /\ WF_fctVars(part = "fct" /\ FactoryRun)
    /\ WF_daemonVars(part = "daemon" /\ Daemon)
    /\ WF_daemonVars(part = "daemon" /\ WatchDogExits)
    /\ WF_guiVars(part = "gui" /\ Reader) /\ WF_guiVars(part = "gui" /\ GuiAnnounces)
    /\ WF_guiVars(part = "gui" /\ GuiRises)

Spec == Init /\ [][Next]_partsVars /\ Fairness

TypeOK ==
    /\ ThTypeOK /\ WakeTypeOK /\ VoiceTypeOK /\ DdsTypeOK /\ EngineTypeOK /\ FctTypeOK
    /\ DaemonTypeOK /\ SearchTypeOK /\ GuiTypeOK /\ WebTypeOK
===============================================================================
