------------------------------- MODULE VosDaemon -------------------------------
(***************************************************************************)
(* The daemon (vos_daemon/vos_daemon.c) and its script                     *)
(* (tools/sh_file/speech_ctrl.sh): every three seconds it looks for the    *)
(* sound card's USB node and for the process vos_cleaner, starts the       *)
(* process if the card is there and it is not, and replaces it if the card *)
(* came back or has lost its firmware.  Node and process change between    *)
(* any two of its steps.                                                   *)
(***************************************************************************)
EXTENDS Naturals

CONSTANT MaxChanges \* how often card and process change by themselves

ASSUME ChangesAssumption == MaxChanges \in Nat

\* What search_usb finds: no node, a card without firmware, one with it.
UsbNodes == {0, 1, 2}
Unknown == 3 \* its -1: the query failed

VARIABLES
    node,      \* the card's USB node
    power,     \* GPIO 44, the card's power
    process,   \* vos_cleaner: does it run, and does it hold the card as it is now?
    daemon_pc, \* the daemon and its script
    usb_ret,   \* what search_usb has found
    ps_this,   \* the node it knew last
    ps,        \* the change between its last two searches
    shifted,   \* has the card changed between a search and the start that follows?
    changes    \* the changes so far

daemonVars == <<node, power, process, daemon_pc, usb_ret, ps_this, ps, shifted, changes>>

DaemonTypeOK ==
    /\ node \in UsbNodes /\ power \in BOOLEAN
    /\ process \in {"down", "fresh", "stale"}
    /\ daemon_pc \in {"search", "pgrep", "killall", "script", "look"}
    /\ usb_ret \in UsbNodes \cup {Unknown}
    /\ ps_this \in UsbNodes /\ ps \in 0 .. 2
    /\ shifted \in BOOLEAN /\ changes \in 0 .. MaxChanges

DaemonInit ==
    /\ power \in BOOLEAN /\ node \in IF power THEN UsbNodes ELSE {0}
    /\ process \in IF node = 0 THEN {"down"} ELSE {"down", "fresh"}
    /\ daemon_pc = "search" /\ usb_ret = 0
    /\ ps_this = 1 /\ ps = 1
    /\ shifted = FALSE /\ changes = 0
-------------------------------------------------------------------------------
DaemonGoto(from, to) == daemon_pc = from /\ daemon_pc' = to

Change(last, this) == CASE last = 0 /\ this \in {1, 2} -> 1
                        [] last = 2 /\ this = 1        -> 2
                        [] OTHER                       -> 0

\* Slip: ps keeps its value when nothing changed.
SearchKeepsChange ==
    /\ DaemonGoto("search", "pgrep")
    /\ usb_ret' = node /\ ps_this' = node
    /\ ps' = IF Change(ps_this, ps_this') = 0 THEN ps ELSE Change(ps_this, ps_this')
    /\ UNCHANGED <<node, power, process, shifted, changes>>

\* get_usb_dev and search_usb; a query that failed leaves ps_this alone.
Search ==
    /\ DaemonGoto("search", "pgrep")
    /\ \/ usb_ret' = node /\ ps_this' = node /\ UNCHANGED changes
       \/ /\ changes < MaxChanges /\ changes' = changes + 1
          /\ usb_ret' = Unknown /\ UNCHANGED ps_this
    /\ ps' = Change(ps_this, ps_this')
    /\ UNCHANGED <<node, power, process, shifted>>

\* Slip: a process that does not run is started after a change only.
StartOnChange ==
    /\ daemon_pc = "pgrep"
    /\ daemon_pc' = IF ps = 0 THEN "search" ELSE IF process = "down" THEN "script" ELSE "killall"
    /\ UNCHANGED <<node, power, process, usb_ret, ps_this, ps, shifted, changes>>

\* get_pid_sys, and what follows from it.
Pgrep ==
    /\ daemon_pc = "pgrep"
    /\ \/ /\ process = "down"
          /\ daemon_pc' = IF usb_ret \in {1, 2} THEN "script" ELSE "search"
       \/ /\ process # "down"
          /\ daemon_pc' = IF ps \in {1, 2} THEN "killall" ELSE "search"
    /\ UNCHANGED <<node, power, process, usb_ret, ps_this, ps, shifted, changes>>

Killall ==
    /\ DaemonGoto("killall", "script")
    /\ process' = "down"
    /\ UNCHANGED <<node, power, usb_ret, ps_this, ps, shifted, changes>>

\* speech_ctrl.sh kills the process and powers the card ...
ScriptKills ==
    /\ DaemonGoto("script", "look")
    /\ process' = "down" /\ power' = TRUE
    /\ UNCHANGED <<node, usb_ret, ps_this, ps, shifted, changes>>

\* ... and three seconds later starts the process, or takes the power of a card that is gone.
ScriptLooks ==
    /\ DaemonGoto("look", "search")
    /\ \/ node # 0 /\ process' = "fresh" /\ UNCHANGED power
       \/ node = 0 /\ power' = FALSE /\ UNCHANGED process
    /\ UNCHANGED <<node, usb_ret, ps_this, ps, shifted, changes>>

Daemon == Search \/ Pgrep \/ Killall \/ ScriptKills \/ ScriptLooks
-------------------------------------------------------------------------------
daemonRest == <<power, daemon_pc, usb_ret, ps_this, ps>>

\* The card (external) comes, goes or loses its firmware: who held it holds it no more.
CardChanges ==
    /\ changes < MaxChanges /\ changes' = changes + 1
    /\ \/ node = 0 /\ power /\ node' \in {1, 2}
       \/ node # 0 /\ node' = 0
       \/ node = 2 /\ node' = 1
    /\ process' = IF process = "fresh" THEN "stale" ELSE process
    /\ shifted' = (shifted \/ daemon_pc # "search")
    /\ UNCHANGED daemonRest

\* Without power there is no card.
PowerLost ==
    /\ ~power /\ node # 0
    /\ node' = 0
    /\ process' = IF process = "fresh" THEN "stale" ELSE process
    /\ UNCHANGED <<daemonRest, shifted, changes>>

\* The process loads the firmware.
FirmwareLoaded ==
    /\ node = 1 /\ process = "fresh"
    /\ node' = 2
    /\ UNCHANGED <<daemonRest, process, shifted, changes>>

\* The process ends: its watch dog finds no audio, or it ends for other reasons.
ProcessEnds ==
    /\ \/ process = "stale" /\ UNCHANGED changes
       \/ process = "fresh" /\ changes < MaxChanges /\ changes' = changes + 1
    /\ process' = "down"
    /\ UNCHANGED <<daemonRest, node, shifted>>

WatchDogExits == process = "stale" /\ ProcessEnds

DaemonNext == Daemon \/ CardChanges \/ PowerLost \/ FirmwareLoaded \/ ProcessEnds

DaemonSpec == DaemonInit /\ [][DaemonNext]_daemonVars
-------------------------------------------------------------------------------
(***************************************************************************)
(* A process that holds the card as it is now is not killed, unless the    *)
(* card changed between a search and the start it led to: then the next    *)
(* search finds the change as if the process had missed it.                *)
(***************************************************************************)
RestartJustified ==
    [][daemon_pc = "killall" /\ daemon_pc' = "script" /\ process = "fresh" => shifted]_daemonVars

(***************************************************************************)
(* A card that stays is served: a process that ended, or that holds a card *)
(* that was gone in between, is replaced, whichever of them the daemon saw.*)
(***************************************************************************)
CardServed == <>[](node # 0) => <>[](process = "fresh")
===============================================================================
