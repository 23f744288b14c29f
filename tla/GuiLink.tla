-------------------------------- MODULE GuiLink --------------------------------
(***************************************************************************)
(* The connection to the GUI's process (app/src/voice_message_prase.c):    *)
(* the thread proc_server_thr connects (link_server), hears that a table   *)
(* has changed and has it read again, and connects anew when the GUI has   *)
(* gone; the main loop, the card's thread and others send commands         *)
(* (send_server) through the same g_iSock4Lvgl, without a lock.            *)
(*                                                                         *)
(* A table is its version.  An announcement is read whole, and one that is *)
(* read together with the next matches no name.  Every socket() has a      *)
(* number of its own; close and the assignment of -1 are one step.         *)
(***************************************************************************)
EXTENDS Naturals, Sequences

CONSTANTS
    Pieces,     \* the pieces a command has, of which a write takes some
    MaxSends,   \* how many commands are sent
    MaxUpdates, \* how often the GUI changes its table
    MaxCuts     \* how often it goes

ASSUME GuiAssumption == /\ Pieces \in Nat \ {0} /\ MaxSends \in Nat
                        /\ MaxUpdates \in Nat /\ MaxCuts \in Nat

Senders == {"main", "th"}

VARIABLES
    sock,       \* g_iSock4Lvgl: the socket's number, 0 for -1
    sockets,    \* the numbers given so far
    gui_conn,   \* what the socket is to the kernel
    gui_up,     \* does the GUI listen?
    reader_pc,  \* proc_server_thr
    unread,     \* the announcements in the socket
    table,      \* the table's version in the GUI's file
    announced,  \* has the GUI announced it?
    loaded,     \* the version the process has
    glued,      \* have two announcements been read together?
    cut,        \* has an announcement met no connection, or been lost with one?
    send_pc,    \* the senders in send_server
    index,      \* the pieces written, as they count them
    got,        \* the pieces of their commands the GUI has got
    sends,      \* the commands sent
    cuts,       \* how often the GUI went
    killed      \* has SIGPIPE ended the process?

announceVars == <<unread, table, announced, loaded, glued, cut>>
senderVars   == <<send_pc, index, got, sends, killed>>
guiVars == <<sock, sockets, gui_conn, gui_up, reader_pc, announceVars, senderVars, cuts>>

GuiTypeOK ==
    /\ sock \in 0 .. sockets /\ sockets \in Nat
    /\ gui_conn \in {"none", "fresh", "up", "eof"}
    /\ gui_up \in BOOLEAN
    /\ reader_pc \in {"link", "connect", "read", "handle", "close"}
    /\ unread \in 0 .. MaxUpdates /\ table \in 0 .. MaxUpdates /\ loaded \in 0 .. table
    /\ announced \in BOOLEAN /\ glued \in BOOLEAN /\ cut \in BOOLEAN /\ killed \in BOOLEAN
    /\ send_pc \in [Senders -> {"idle", "check", "write", "sent"}]
    /\ index \in [Senders -> 0 .. Pieces]
    /\ got \in [Senders -> Seq(1 .. Pieces)]
    /\ sends \in 0 .. MaxSends /\ cuts \in 0 .. MaxCuts

\* voice_rules_prase_init has read the tables once.
GuiInit ==
    /\ sock = 0 /\ sockets = 0 /\ gui_conn = "none" /\ gui_up \in BOOLEAN
    /\ reader_pc = "link"
    /\ unread = 0 /\ table = 0 /\ announced = TRUE /\ loaded = 0 /\ glued = FALSE /\ cut = FALSE
    /\ send_pc = [c \in Senders |-> "idle"] /\ index = [c \in Senders |-> 0]
    /\ got = [c \in Senders |-> <<>>]
    /\ sends = 0 /\ cuts = 0 /\ killed = FALSE
-------------------------------------------------------------------------------
ReaderGoto(from, to) == reader_pc = from /\ reader_pc' = to /\ ~killed

\* link_server: a socket, unless there is one.
ReaderSocket ==
    /\ ReaderGoto("link", IF sock = 0 THEN "connect" ELSE "read")
    /\ \/ /\ sock = 0
          /\ sockets' = sockets + 1 /\ sock' = sockets + 1 /\ gui_conn' = "fresh"
       \/ sock # 0 /\ UNCHANGED <<sock, sockets, gui_conn>>
    /\ UNCHANGED <<gui_up, announceVars, senderVars, cuts>>

\* It tries once a second until the GUI listens.
ReaderConnects ==
    /\ ReaderGoto("connect", "read") /\ gui_up
    /\ gui_conn' = "up"
    /\ UNCHANGED <<sock, sockets, gui_up, announceVars, senderVars, cuts>>

\* read() has an announcement, or several, or the end.
ReaderReads ==
    /\ \/ /\ unread > 0
          /\ \E n \in 1 .. unread :
                /\ unread' = unread - n
                /\ glued' = (glued \/ n > 1)
                /\ ReaderGoto("read", IF n = 1 THEN "handle" ELSE "read")
       \/ /\ unread = 0 /\ gui_conn # "up"
          /\ ReaderGoto("read", "close")
          /\ UNCHANGED <<unread, glued>>
    /\ UNCHANGED <<sock, sockets, gui_conn, gui_up, table, announced, loaded, cut, senderVars, cuts>>

\* Slip: the announcement is not heard.
HandleNothing ==
    /\ ReaderGoto("handle", "read")
    /\ UNCHANGED <<sock, sockets, gui_conn, gui_up, announceVars, senderVars, cuts>>

\* refresh_search_config
ReaderRefreshes ==
    /\ ReaderGoto("handle", "read")
    /\ loaded' = table
    /\ UNCHANGED <<sock, sockets, gui_conn, gui_up, unread, table, announced, glued, cut,
                   senderVars, cuts>>

\* close_server
ReaderCloses ==
    /\ ReaderGoto("close", "link")
    /\ sock' = 0 /\ gui_conn' = "none"
    /\ UNCHANGED <<sockets, gui_up, announceVars, senderVars, cuts>>

Reader == ReaderSocket \/ ReaderConnects \/ ReaderReads \/ ReaderRefreshes \/ ReaderCloses
-------------------------------------------------------------------------------
\* The GUI (external) comes and goes, and changes its table.
GuiRises ==
    /\ ~gui_up /\ gui_up' = TRUE
    /\ UNCHANGED <<sock, sockets, gui_conn, reader_pc, announceVars, senderVars, cuts>>

GuiGoes ==
    /\ gui_up /\ cuts < MaxCuts
    /\ gui_up' = FALSE /\ cuts' = cuts + 1
    /\ gui_conn' = IF gui_conn = "up" THEN "eof" ELSE gui_conn
    /\ cut' = (cut \/ ~announced)
    /\ announced' = TRUE
    /\ UNCHANGED <<sock, sockets, reader_pc, unread, table, loaded, glued, senderVars>>

GuiChanges ==
    /\ gui_up /\ announced /\ table < MaxUpdates
    /\ table' = table + 1 /\ announced' = FALSE
    /\ UNCHANGED <<sock, sockets, gui_conn, gui_up, reader_pc, unread, loaded, glued, cut,
                   senderVars, cuts>>

GuiAnnounces ==
    /\ ~announced
    /\ announced' = TRUE
    /\ \/ gui_conn = "up" /\ unread' = unread + 1 /\ UNCHANGED cut
       \/ gui_conn # "up" /\ cut' = TRUE /\ UNCHANGED unread
    /\ UNCHANGED <<sock, sockets, gui_conn, gui_up, reader_pc, table, loaded, glued, senderVars,
                   cuts>>
-------------------------------------------------------------------------------
SendGoto(c, from, to) == send_pc[c] = from /\ send_pc' = [send_pc EXCEPT ![c] = to] /\ ~killed
senderRest == <<sock, sockets, gui_conn, gui_up, reader_pc, announceVars, cuts>>

SendBegins(c) ==
    /\ sends < MaxSends /\ sends' = sends + 1
    /\ SendGoto(c, "idle", "check")
    /\ index' = [index EXCEPT ![c] = 0] /\ got' = [got EXCEPT ![c] = <<>>]
    /\ UNCHANGED <<killed, senderRest>>

\* No socket: the command is lost.
SendChecks(c) ==
    /\ SendGoto(c, "check", IF sock = 0 THEN "idle" ELSE "write")
    /\ UNCHANGED <<index, got, sends, killed, senderRest>>

\* Slip: after a write that took a part the command is written from its beginning.
WriteFromStart(c) ==
    /\ send_pc[c] = "write" /\ gui_conn = "up" /\ ~killed
    /\ \E n \in 1 .. Pieces - index[c] :
          /\ index' = [index EXCEPT ![c] = @ + n]
          /\ got' = [got EXCEPT ![c] = @ \o [i \in 1 .. n |-> i]]
          /\ send_pc' = [send_pc EXCEPT ![c] = IF index[c] + n = Pieces THEN "sent" ELSE "write"]
    /\ UNCHANGED <<sends, killed, senderRest>>

\* write() takes some.
SendWrites(c) ==
    /\ send_pc[c] = "write" /\ gui_conn = "up" /\ ~killed
    /\ \E n \in 1 .. Pieces - index[c] :
          /\ index' = [index EXCEPT ![c] = @ + n]
          /\ got' = [got EXCEPT ![c] = @ \o [i \in 1 .. n |-> index[c] + i]]
          /\ send_pc' = [send_pc EXCEPT ![c] = IF index[c] + n = Pieces THEN "sent" ELSE "write"]
    /\ UNCHANGED <<sends, killed, senderRest>>

\* No connection: an error; the GUI has gone: SIGPIPE, unless a library ignores it.
SendFails(c) ==
    /\ gui_conn # "up"
    /\ SendGoto(c, "write", "idle")
    /\ killed' \in {FALSE, gui_conn = "eof"}
    /\ UNCHANGED <<index, got, sends, senderRest>>

SendReturns(c) ==
    /\ SendGoto(c, "sent", "idle")
    /\ UNCHANGED <<index, got, sends, killed, senderRest>>

Send(c) == SendChecks(c) \/ SendWrites(c) \/ SendFails(c) \/ SendReturns(c)

GuiNext == \/ Reader \/ GuiRises \/ GuiGoes \/ GuiChanges \/ GuiAnnounces
           \/ \E c \in Senders : SendBegins(c) \/ Send(c)

GuiSpec == GuiInit /\ [][GuiNext]_guiVars
-------------------------------------------------------------------------------
(***************************************************************************)
(* A command that send_server calls sent has come to the GUI whole and in  *)
(* order, however many writes it took and whoever wrote in between; the    *)
(* connection may have changed meanwhile.                                  *)
(***************************************************************************)
CommandWhole == \A c \in Senders : send_pc[c] = "sent" => got[c] = [i \in 1 .. Pieces |-> i]

(***************************************************************************)
(* The process has the table the GUI has, after each change.  Excepted are *)
(* announcements that were read together, and one made while there was no  *)
(* connection: nothing is read again when it is there.                     *)
(***************************************************************************)
TableFollows == table # loaded ~> table = loaded \/ glued \/ cut \/ killed
===============================================================================
