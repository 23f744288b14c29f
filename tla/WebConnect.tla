------------------------------ MODULE WebConnect ------------------------------
(***************************************************************************)
(* Sending a request with the SDK's HTTP client                            *)
(* (component/aispeech/webclient/webclient.c: webclient_set_url to         *)
(* webclient_send_body) over its TCP transport (transport_tcp.c), up to    *)
(* where WebClient begins.  The connection is kept from one request to the *)
(* next.                                                                   *)
(*                                                                         *)
(* The caller does what webclient.h says: a URL for every request, again   *)
(* after a timeout, webclient_close after an error.  The build has no SSL: *)
(* no transport is found for https.  A request is its bytes' numbers.      *)
(***************************************************************************)
EXTENDS Naturals, Sequences

CONSTANTS
    Urls,       \* the URLs: scheme, host and port
    Headers,    \* how many lines follow the first
    Layouts,    \* where the lines of a request may begin, and behind them the body
    BufSize,    \* DEFAULT_DATA_BUF: the buffer of a line and its closing 0
    BodyLen,    \* the bytes of a body
    MaxRequests \* how many requests are made

ASSUME UrlsAssumption     == \A u \in Urls : u.scheme \in {"http", "https"} /\ u.port \in Nat
ASSUME RequestsAssumption == Headers \in Nat \ {0} /\ BodyLen \in Nat
                             /\ MaxRequests \in Nat \ {0} /\ BufSize \in Nat \ {0}
ASSUME LayoutsAssumption  == \A r \in Layouts :
                                /\ r \in [0 .. Headers + 1 -> Nat] /\ r[0] = 0
                                /\ \A i, j \in 0 .. Headers + 1 : i < j => r[i] < r[j]

VARIABLES
    wc_state,      \* obj->state
    cinfo,         \* obj->cinfo: the URL
    transport,     \* obj->transport: is it the TCP transport?
    headers,       \* the lines in obj->request_headers
    layout,        \* what the lines are: where each begins in the request
    dbuf,          \* obj->dbuf: its left bytes from buf on, which are to be sent
    web_pc,        \* the caller: before a URL, prepared or not, in select(), giving up, or with
                   \* an object that is overwritten
    body,          \* the bytes of the body that are to be sent
    tcp_fd,        \* tcp->fd: what the socket is to the kernel
    so_error,      \* does SO_ERROR still tell of the refusal?
    is_connecting, \* tcp->is_connecting
    is_connected,  \* tcp->is_connected
    peer,          \* the URL the socket was connected for
    wire,          \* the bytes of this request the kernel has taken
    asked_again,   \* has a refused connection been asked for again?
    strayed,       \* has the scheme changed to one without transport, and the connection stayed?
    requests       \* the requests made

webObj  == <<cinfo, transport, headers, dbuf, body>>
webTcp  == <<tcp_fd, so_error, is_connecting, is_connected, peer, asked_again>>
webVars == <<wc_state, webObj, layout, web_pc, webTcp, wire, strayed, requests>>

WebTypeOK ==
    /\ wc_state \in {"INIT", "PREPARED", "CONNECTED", "READY_SEND_BODY", "READY_RECV_HEADER"}
    /\ cinfo \in Urls /\ peer \in Urls
    /\ transport \in BOOLEAN
    /\ headers \in 0 .. Headers /\ layout \in Layouts
    /\ dbuf \in Seq(Nat) /\ wire \in Seq(Nat)
    /\ web_pc \in {"url", "prepare", "call", "select", "failed", "overrun"}
    /\ body \in 0 .. BodyLen
    /\ tcp_fd \in {"none", "fresh", "syn", "up", "refused", "down"}
    /\ so_error \in BOOLEAN /\ is_connecting \in BOOLEAN /\ is_connected \in BOOLEAN
    /\ asked_again \in BOOLEAN /\ strayed \in BOOLEAN
    /\ requests \in 0 .. MaxRequests

\* webclient_init has set the first URL, which closes nothing: obj->transport is NULL.
WebInit ==
    /\ wc_state = "INIT" /\ cinfo \in Urls /\ transport = FALSE /\ headers = Headers
    /\ layout \in Layouts
    /\ dbuf = <<>> /\ web_pc = "prepare" /\ body = 0
    /\ tcp_fd = "none" /\ so_error = FALSE /\ is_connecting = FALSE /\ is_connected = FALSE
    /\ peer = cinfo /\ wire = <<>> /\ asked_again = FALSE /\ strayed = FALSE /\ requests = 0
-------------------------------------------------------------------------------
\* webclient_close closes obj->transport, if there is one.
TcpClosed == tcp_fd' = "none" /\ is_connected' = FALSE /\ is_connecting' = FALSE /\ so_error' = FALSE

CloseConnection ==
    /\ wc_state' = "INIT"
    /\ \/ transport /\ TcpClosed
       \/ ~transport /\ UNCHANGED <<tcp_fd, is_connected, is_connecting, so_error>>

\* Slip: a connection to another port of the host is kept.
SetUrlSameHost(u) ==
    /\ web_pc = "url" /\ requests < MaxRequests
    /\ cinfo' = u /\ headers' = Headers
    /\ \/ u.host # cinfo.host /\ CloseConnection
       \/ /\ u.host = cinfo.host
          /\ UNCHANGED <<wc_state, tcp_fd, is_connected, is_connecting, so_error>>
    /\ strayed' = (strayed \/ (~transport /\ tcp_fd # "none"))
    /\ web_pc' = "prepare"
    /\ UNCHANGED <<transport, layout, dbuf, body, peer, asked_again, wire, requests>>

\* webclient_set_url closes the connection to another host or port, and sets the headers.
SetUrl(u) ==
    /\ web_pc = "url" /\ requests < MaxRequests
    /\ cinfo' = u /\ headers' = Headers
    /\ \/ /\ u.host # cinfo.host \/ u.port # cinfo.port
          /\ CloseConnection
       \/ /\ u.host = cinfo.host /\ u.port = cinfo.port
          /\ UNCHANGED <<wc_state, tcp_fd, is_connected, is_connecting, so_error>>
    /\ strayed' = (strayed \/ (~transport /\ tcp_fd # "none"))
    /\ web_pc' = "prepare"
    /\ UNCHANGED <<transport, layout, dbuf, body, peer, asked_again, wire, requests>>

Junk == 0

(***************************************************************************)
(* snprintf writes what fits in the buffer, and its closing 0, but answers *)
(* the length of line i of the request r: from the buffer's last byte on   *)
(* what is sent is that 0 and the memory behind the buffer.                *)
(***************************************************************************)
Line(r, i) == [o \in 1 .. r[i + 1] - r[i] |-> IF o < BufSize THEN r[i] + o ELSE Junk]

\* webclient_prepared puts the first line into the buffer.
Prepared ==
    /\ web_pc = "prepare"
    /\ layout' \in Layouts
    /\ dbuf' = Line(layout', 0) /\ wc_state' = "PREPARED" /\ wire' = <<>>
    /\ body' \in {0, BodyLen}
    /\ web_pc' = "call" /\ requests' = requests + 1
    /\ UNCHANGED <<cinfo, transport, headers, webTcp, strayed>>

webRest == <<cinfo, headers, layout, dbuf, body, wire, strayed, requests>>

\* webclient_connect without a transport for the scheme.
ConnectNoTransport ==
    /\ web_pc = "call" /\ wc_state = "PREPARED" /\ cinfo.scheme = "https"
    /\ transport' = FALSE /\ web_pc' = "failed"
    /\ UNCHANGED <<wc_state, webTcp, webRest>>

CallsConnect == web_pc = "call" /\ wc_state = "PREPARED" /\ cinfo.scheme = "http" /\ transport' = TRUE

ConnectKept ==
    /\ CallsConnect /\ is_connected
    /\ wc_state' = "CONNECTED"
    /\ UNCHANGED <<web_pc, webTcp, webRest>>

\* tcp_transport_connect: socket() and connect(), which takes its time, or answers at once.
ConnectBegins ==
    /\ CallsConnect /\ ~is_connected /\ ~is_connecting
    /\ peer' = cinfo
    /\ \/ /\ tcp_fd' = "syn" /\ is_connecting' = TRUE /\ web_pc' = "select"
          /\ UNCHANGED <<wc_state, is_connected>>
       \/ /\ tcp_fd' = "up" /\ is_connected' = TRUE /\ wc_state' = "CONNECTED"
          /\ UNCHANGED <<web_pc, is_connecting>>
       \/ /\ tcp_fd' = "fresh" /\ web_pc' = "failed"
          /\ UNCHANGED <<wc_state, is_connecting, is_connected>>
    /\ UNCHANGED <<so_error, asked_again, webRest>>

\* The caller tries again after a timeout.
ConnectAgain ==
    /\ CallsConnect /\ is_connecting
    /\ asked_again' = (asked_again \/ (tcp_fd = "refused" /\ ~so_error))
    /\ web_pc' = "select"
    /\ UNCHANGED <<wc_state, tcp_fd, so_error, is_connecting, is_connected, peer, webRest>>

\* Slip: the handshake is not waited for.
WaitNothing ==
    /\ web_pc = "select" /\ web_pc' = "call"
    /\ so_error' = FALSE
    /\ \/ tcp_fd = "syn" /\ UNCHANGED <<wc_state, is_connecting, is_connected>>
       \/ tcp_fd # "syn" /\ wc_state' = "CONNECTED" /\ is_connecting' = FALSE /\ is_connected' = TRUE
    /\ UNCHANGED <<transport, tcp_fd, peer, asked_again, webRest>>

\* wait_connected: SO_ERROR tells of a refusal once, and that is a timeout too.
WaitConnected ==
    /\ web_pc = "select" /\ web_pc' = "call"
    /\ so_error' = FALSE
    /\ \/ /\ tcp_fd = "syn" \/ so_error
          /\ UNCHANGED <<wc_state, is_connecting, is_connected>>
       \/ /\ tcp_fd # "syn" /\ ~so_error
          /\ wc_state' = "CONNECTED" /\ is_connecting' = FALSE /\ is_connected' = TRUE
    /\ UNCHANGED <<transport, tcp_fd, peer, asked_again, webRest>>

Connect == ConnectNoTransport \/ ConnectKept \/ ConnectBegins \/ ConnectAgain \/ WaitConnected
-------------------------------------------------------------------------------
sendRest == <<cinfo, transport, layout, webTcp, strayed, requests>>
Take(s, n) == SubSeq(s, 1, n)
Drop(s, n) == SubSeq(s, n + 1, Len(s))

\* Slip: the rest of the line is not moved to the front of the buffer.
SendWithoutMove ==
    /\ web_pc = "call" /\ wc_state = "CONNECTED" /\ dbuf # <<>> /\ tcp_fd \in {"up", "down"}
    /\ \E n \in 1 .. Len(dbuf) :
          wire' = wire \o Take(dbuf, n) /\ dbuf' = Take(dbuf, Len(dbuf) - n)
    /\ UNCHANGED <<wc_state, headers, web_pc, body, sendRest>>

(***************************************************************************)
(* webclient_send_header: tcp_transport_write has written some of the      *)
(* line, and memmove brings the rest to the front of the buffer.  A rest   *)
(* that is longer than the buffer overwrites the object, from dbuf.left    *)
(* on: what it does then is undefined, and not followed further.           *)
(***************************************************************************)
SendSome ==
    /\ web_pc = "call" /\ wc_state = "CONNECTED" /\ dbuf # <<>> /\ tcp_fd \in {"up", "down"}
    /\ \E n \in 1 .. Len(dbuf) :
          /\ wire' = wire \o Take(dbuf, n) /\ dbuf' = Drop(dbuf, n)
          /\ \/ Len(dbuf) - n <= BufSize /\ UNCHANGED web_pc
             \/ Len(dbuf) - n > BufSize /\ web_pc' = "overrun"
    /\ UNCHANGED <<wc_state, headers, body, sendRest>>

\* An error; how much of the line was written before it is not reported.
SendError ==
    /\ web_pc = "call" /\ tcp_fd # "up"
    /\ \/ wc_state = "CONNECTED" /\ dbuf # <<>>
       \/ wc_state = "READY_SEND_BODY" /\ body > 0
    /\ \E n \in 0 .. Len(dbuf) : wire' = wire \o Take(dbuf, n)
    /\ web_pc' = "failed"
    /\ UNCHANGED <<wc_state, headers, dbuf, body, sendRest>>

\* The next header.
NextHeader ==
    /\ web_pc = "call" /\ wc_state = "CONNECTED" /\ dbuf = <<>>
    /\ \/ /\ headers > 0
          /\ headers' = headers - 1 /\ dbuf' = Line(layout, Headers - headers + 1)
          /\ UNCHANGED wc_state
       \/ /\ headers = 0
          /\ wc_state' = "READY_SEND_BODY" /\ UNCHANGED <<headers, dbuf>>
    /\ UNCHANGED <<web_pc, body, wire, sendRest>>

\* The bytes in front of the body.
HeaderLen == layout[Headers + 1]

\* webclient_send_body writes some of the body; the caller goes on behind it ...
SendBody ==
    /\ web_pc = "call" /\ wc_state = "READY_SEND_BODY" /\ body > 0 /\ tcp_fd \in {"up", "down"}
    /\ \E n \in 1 .. body :
          /\ body' = body - n
          /\ wire' = wire \o [i \in 1 .. n |-> HeaderLen + BodyLen - body + i]
    /\ UNCHANGED <<wc_state, headers, dbuf, web_pc, sendRest>>

\* ... and calls it with length 0.  The response is read (WebClient).
BodyOver ==
    /\ web_pc = "call" /\ wc_state = "READY_SEND_BODY" /\ body = 0
    /\ wc_state' = "READY_RECV_HEADER" /\ web_pc' = "url"
    /\ UNCHANGED <<headers, dbuf, body, wire, sendRest>>

\* The caller gives up.
GiveUp ==
    /\ web_pc = "failed"
    /\ CloseConnection
    /\ headers' = 0 /\ web_pc' = "url"
    /\ UNCHANGED <<cinfo, transport, layout, dbuf, body, peer, asked_again, wire, strayed, requests>>

SendRequest == SendSome \/ SendError \/ NextHeader \/ SendBody \/ BodyOver \/ GiveUp
-------------------------------------------------------------------------------
\* The network (external): the handshake ends, a connection is closed by its peer.
NetMoves ==
    /\ \/ tcp_fd = "syn" /\ tcp_fd' = "up" /\ UNCHANGED so_error
       \/ tcp_fd = "syn" /\ tcp_fd' = "refused" /\ so_error' = TRUE
       \/ tcp_fd = "up" /\ tcp_fd' = "down" /\ so_error' \in {FALSE, is_connecting}
    /\ UNCHANGED <<wc_state, webObj, layout, web_pc, is_connecting, is_connected, peer, asked_again,
                   wire, strayed, requests>>

WebNext == Prepared \/ Connect \/ SendRequest \/ NetMoves \/ \E u \in Urls : SetUrl(u)

WebSpec == WebInit /\ [][WebNext]_webVars
-------------------------------------------------------------------------------
(***************************************************************************)
(* webclient_connect answers OK for a connection that was made, to the     *)
(* host and port of the URL, though an earlier one may have been kept.     *)
(* Excepted are a caller who asks again after a refusal, which looked like *)
(* a timeout, and a connection that outlived a URL without a transport:    *)
(* nobody closes it, and the next URL finds it open.                       *)
(***************************************************************************)
ConnectedToTarget ==
    wc_state \in {"CONNECTED", "READY_SEND_BODY"} /\ ~asked_again /\ ~strayed =>
        /\ tcp_fd \in {"up", "down"} /\ is_connected
        /\ peer.host = cinfo.host /\ peer.port = cinfo.port

\* The byte reaches the wire as it is: it is the body's, or it is in the part of its line that
\* the buffer has room for.
Intact(k) ==
    \/ k > HeaderLen
    \/ \E i \in 0 .. Headers : layout[i] < k /\ k <= layout[i + 1] /\ k - layout[i] < BufSize

(***************************************************************************)
(* Whatever the kernel takes at a time, what it has taken is the request,  *)
(* in order, but for the bytes of a line behind the buffer, which are      *)
(* replaced, and not left out; the header is all there when the body       *)
(* begins, and the request when the response is read.  Only a line that is *)
(* longer than the buffer and its closing 0 can overwrite the object.      *)
(***************************************************************************)
RequestOnWire ==
    /\ wire = [k \in 1 .. Len(wire) |-> IF Intact(k) THEN k ELSE Junk]
    /\ wc_state = "READY_SEND_BODY" => Len(wire) >= HeaderLen
    /\ wc_state = "READY_RECV_HEADER" => Len(wire) \in {HeaderLen, HeaderLen + BodyLen}
    /\ web_pc = "overrun" => \E i \in 0 .. Headers : layout[i + 1] - layout[i] > BufSize + 1
===============================================================================
