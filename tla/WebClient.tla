------------------------------- MODULE WebClient -------------------------------
(***************************************************************************)
(* Reading a response with the SDK's HTTP client                           *)
(* (component/aispeech/webclient/webclient.c: webclient_read_header,       *)
(* webclient_read, webclient_drop_response) over its TCP transport         *)
(* (transport_tcp.c: tcp_transport_read).                                  *)
(*                                                                         *)
(* A byte is its place in the response.  A line of the header and the      *)
(* framing around a chunk count as one byte each, so that a header line is *)
(* never incomplete.  A step is the code between two system calls, and the *)
(* network moves in between.                                               *)
(***************************************************************************)
EXTENDS Naturals, FiniteSets

CONSTANTS
    Responses, \* the responses a server may give
    BufSize,   \* DEFAULT_DATA_BUF
    Lens,      \* the sizes of the caller's buffers
    DropLen,   \* how much one webclient_drop_response reads (1024)
    Closings   \* how the connection may end: "fin", "reset"

(***************************************************************************)
(* A response has a header of one place at least; the body's bytes follow. *)
(* With a Content-Length there is nothing else; chunked, the last place is *)
(* the framing of the empty chunk.                                         *)
(***************************************************************************)
Response == [header : Nat \ {0}, chunked : BOOLEAN, data : SUBSET Nat, total : Nat]

ASSUME ResponsesAssumption ==
    /\ \A r \in Responses :
          /\ r.header \in Nat \ {0} /\ r.total \in Nat /\ r.header <= r.total
          /\ r.chunked \in BOOLEAN
          /\ IF r.chunked
             THEN r.header < r.total /\ r.data \subseteq r.header + 1 .. r.total - 1
             ELSE r.data = r.header + 1 .. r.total
ASSUME BufSizeAssumption  == BufSize \in Nat \ {0} /\ DropLen \in Nat \ {0}
ASSUME LensAssumption     == Lens \subseteq Nat \ {0}
ASSUME ClosingsAssumption == Closings \subseteq {"fin", "reset"}

VARIABLES
    resp,     \* the response to the request that was sent
    sent,     \* how much of it has arrived at the socket
    conn,     \* "open", or how the server has closed it
    recvd,    \* how much of it recv() has returned
    state,    \* obj->state
    from,     \* how much of it has been given to the parser
    left,     \* obj->dbuf.left: what follows is in the client's buffer
    recved,   \* obj->response_info.body_alreay_recved
    recved2,  \* obj->response_info.body_alreay_recved2
    dropping, \* obj->response_info.enable_drop_data
    op,       \* the call the caller is in
    len,      \* its len
    ridx,     \* how much of it is decoded
    want,     \* the len of the tcp_transport_read it is in
    plen,     \* its plen
    consumed, \* the bytes of the body handed over or dropped
    result    \* what the last call returned

netVars    == <<resp, sent, conn>>
objVars    == <<state, from, left, recved, recved2, dropping, consumed>>
callVars   == <<op, len, ridx, result>>
vars == <<netVars, recvd, objVars, callVars, want, plen>>
-------------------------------------------------------------------------------
TypeOK ==
    /\ resp \in Responses
    /\ sent \in 0 .. resp.total
    /\ conn \in {"open", "fin", "reset"}
    /\ recvd \in 0 .. sent
    /\ state \in {"READY_RECV_HEADER", "READY_RECV", "FINISHED"}
    /\ from \in 0 .. recvd
    /\ left \in 0 .. BufSize
    /\ recved \in Nat /\ recved2 \in Nat
    /\ dropping \in BOOLEAN
    /\ op \in {"none", "header", "read", "drop"}
    /\ len \in Lens \cup {0, DropLen}
    /\ ridx \in Nat
    /\ want \in 0 .. BufSize /\ plen \in 0 .. want
    /\ consumed \subseteq resp.data
    /\ result \in {"NONE", "OK", "TIMEOUT", "ERROR", "FINISHED"}

\* webclient_send_body(len = 0) has made the client ready to receive.
Init ==
    /\ resp \in Responses /\ sent = 0 /\ conn = "open" /\ recvd = 0
    /\ state = "READY_RECV_HEADER"
    /\ from = 0 /\ left = 0 /\ recved = 0 /\ recved2 = 0
    /\ dropping = FALSE /\ consumed = {}
    /\ op = "none" /\ len = 0 /\ ridx = 0 /\ want = 0 /\ plen = 0
    /\ result = "NONE"
-------------------------------------------------------------------------------
\* The network: bytes arrive; the server closes when all is sent, or the connection breaks.
clientVars == <<recvd, objVars, callVars, want, plen>>

Arrive ==
    /\ conn = "open" /\ sent < resp.total
    /\ \E n \in sent + 1 .. resp.total : sent' = n
    /\ UNCHANGED <<resp, conn, clientVars>>

Close ==
    /\ conn = "open"
    /\ \/ "fin" \in Closings /\ sent = resp.total /\ conn' = "fin"
       \/ "reset" \in Closings /\ conn' = "reset"
    /\ UNCHANGED <<resp, sent, clientVars>>
-------------------------------------------------------------------------------
Return(r) == op' = "none" /\ result' = r /\ len' = 0 /\ ridx' = 0

\* What the calls answer without reading: not for a caller who has dropped, or in this state.
Refusal(o) ==
    CASE o = "header" /\ state # "READY_RECV_HEADER" -> "ERROR"
      [] o = "read" /\ dropping                      -> "ERROR"
      [] o # "header" /\ state = "FINISHED"          -> "FINISHED"
      [] OTHER                                       -> "NONE"

(***************************************************************************)
(* The caller calls again until it gets an error or WEBCLIENT_ERR_FINISHED. *)
(***************************************************************************)
Call(o, n) ==
    /\ op = "none" /\ result \notin {"ERROR", "FINISHED"}
    /\ \/ /\ Refusal(o) # "NONE"
          /\ Return(Refusal(o))
          /\ UNCHANGED dropping
       \/ /\ Refusal(o) = "NONE"
          /\ op' = o /\ len' = n /\ ridx' = 0
          /\ dropping' = (dropping \/ o = "drop")
          /\ UNCHANGED result
    /\ UNCHANGED <<netVars, recvd, state, from, left, recved, recved2, consumed, want, plen>>

Calls == \/ Call("header", 0)
         \/ \E n \in Lens : Call("read", n)
         \/ Call("drop", DropLen)
-------------------------------------------------------------------------------
HeadersReceived == state # "READY_RECV_HEADER"
Need == len - ridx
AtMost(x, y) == IF x <= y THEN x ELSE y

content_length == resp.total - resp.header

\* Slip: the end of the decoded data is taken for the end of the response.
RemainsDecoded == recved2 < Cardinality(resp.data)

\* Slip: the last byte is not waited for.
RemainsAlmost == IF resp.chunked THEN state # "FINISHED" ELSE recved + 1 < content_length

\* is_data_remain; is_chunk_complete is set with the state FINISHED.
Remains == IF resp.chunked THEN state # "FINISHED" ELSE recved < content_length

\* Slip: the caller's buffer is not considered.
ByteToReadOfBuffer == BufSize

ByteToRead == AtMost(Need, BufSize)

(***************************************************************************)
(* http_parser_execute on the bytes behind a, up to b, in the body:        *)
(* on_body for each byte of data, on_message_complete with the last place. *)
(***************************************************************************)
Data(a, b) == {p \in resp.data : a < p /\ p <= b}

Execute(a, b) ==
    /\ from' = b
    /\ consumed' = consumed \cup Data(a, b)
    /\ ridx' = ridx + Cardinality(Data(a, b))
    /\ recved' = recved + (b - a)
    /\ recved2' = recved2 + Cardinality(Data(a, b))
    /\ state' = IF b = resp.total THEN "FINISHED" ELSE state

\* In the header phase the whole free buffer is read into.
BeginHeaderRead ==
    /\ op # "none" /\ want = 0 /\ ~HeadersReceived
    /\ want' = BufSize - left
    /\ UNCHANGED <<netVars, recvd, objVars, callVars, plen>>

\* The header is complete; only webclient_read and webclient_drop_response go on.
HeaderCallOver ==
    /\ op = "header" /\ want = 0 /\ HeadersReceived
    /\ Return("OK")
    /\ UNCHANGED <<netVars, recvd, objVars, want, plen>>

InBody == op \in {"read", "drop"} /\ want = 0 /\ HeadersReceived

\* The call's buffer is full, or nothing remains.
BodyCallOver ==
    /\ InBody
    /\ \/ Need = 0 /\ Return("OK")
       \/ /\ Need > 0 /\ ~Remains
          /\ Return(IF op = "read" /\ ridx > 0 THEN "OK" ELSE "FINISHED")
    /\ UNCHANGED <<netVars, recvd, objVars, want, plen>>

\* The bytes that came with the header, as many as fit.
ParseBuffered ==
    /\ InBody /\ Need > 0 /\ Remains /\ left > 0
    /\ LET n == AtMost(ByteToRead, left) IN
       /\ Execute(from, from + n)
       /\ left' = left - n
    /\ UNCHANGED <<netVars, recvd, dropping, op, len, result, want, plen>>

BeginBodyRead ==
    /\ InBody /\ Need > 0 /\ Remains /\ left = 0
    /\ want' = ByteToRead
    /\ UNCHANGED <<netVars, recvd, objVars, callVars, plen>>
-------------------------------------------------------------------------------
(***************************************************************************)
(* tcp_transport_read asks recv() until it has want bytes, and waits with  *)
(* a limit when there are none.                                            *)
(***************************************************************************)
Reading == want > 0 /\ plen < want
Dry     == sent = recvd

Recv ==
    /\ Reading /\ conn # "reset" /\ ~Dry
    /\ LET n == AtMost(want - plen, sent - recvd) IN recvd' = recvd + n /\ plen' = plen + n
    /\ UNCHANGED <<netVars, objVars, callVars, want>>

(***************************************************************************)
(* It has all, or something when the wait is over.  The header's lines are *)
(* parsed one by one and the rest stays in the buffer; a body that is      *)
(* empty is complete with the header, but the state is set to READY_RECV.  *)
(***************************************************************************)
ReadOk ==
    /\ want > 0 /\ plen > 0
    /\ (plen = want) \/ (Dry /\ conn = "open")
    /\ want' = 0 /\ plen' = 0
    /\ \/ /\ HeadersReceived
          /\ Execute(recvd - plen, recvd)
          /\ UNCHANGED left
       \/ /\ ~HeadersReceived
          /\ from' = AtMost(resp.header, recvd)
          /\ left' = recvd - from'
          /\ state' = IF from' = resp.header THEN "READY_RECV" ELSE state
          /\ UNCHANGED <<recved, recved2, consumed, ridx>>
    /\ UNCHANGED <<netVars, recvd, dropping, op, len, result>>

\* What webclient_read returns of a timeout of the transport.
ReturnTimeout == Return(IF op = "read" /\ ridx > 0 THEN "OK" ELSE "TIMEOUT")

\* Slip: what has been read is given up with the timeout.
ReadTimeoutLosing ==
    /\ Reading /\ Dry /\ conn = "open"
    /\ want' = 0 /\ plen' = 0
    /\ ReturnTimeout
    /\ UNCHANGED <<netVars, recvd, objVars>>

ReadTimeout ==
    /\ Reading /\ plen = 0 /\ Dry /\ conn = "open"
    /\ want' = 0 /\ UNCHANGED plen
    /\ ReturnTimeout
    /\ UNCHANGED <<netVars, recvd, objVars>>

(***************************************************************************)
(* recv() returns 0 and the socket stays readable: after eleven rounds     *)
(* (cycle_flag) it is a timeout, whatever has been read before.            *)
(***************************************************************************)
ReadAtEof ==
    /\ Reading /\ Dry /\ conn = "fin"
    /\ want' = 0 /\ plen' = 0
    /\ ReturnTimeout
    /\ UNCHANGED <<netVars, recvd, objVars>>

ReadError ==
    /\ Reading /\ conn = "reset"
    /\ want' = 0 /\ plen' = 0
    /\ Return("ERROR")
    /\ UNCHANGED <<netVars, recvd, objVars>>

Client == \/ BeginHeaderRead \/ HeaderCallOver \/ BodyCallOver \/ ParseBuffered \/ BeginBodyRead
          \/ Recv \/ ReadOk \/ ReadTimeout \/ ReadAtEof \/ ReadError
-------------------------------------------------------------------------------
Next == Arrive \/ Close \/ Calls \/ Client

Spec == Init /\ [][Next]_vars

\* The server sends its response; the caller calls "until all is read" (webclient.h).
FairSpec == Spec /\ WF_vars(Arrive) /\ WF_vars(Calls) /\ WF_vars(Client)
-------------------------------------------------------------------------------
(***************************************************************************)
(* The decoded bytes fit the buffer the caller gave, though the parser is  *)
(* given whatever is in the client's own buffer and copies by itself.      *)
(***************************************************************************)
NoOverrun == ridx <= len

(***************************************************************************)
(* What the caller has is the body up to the last byte parsed: none is     *)
(* skipped, and the number of bytes copied shows that none came twice.     *)
(***************************************************************************)
Prefix == consumed = Data(0, from) /\ recved2 = Cardinality(consumed)

(***************************************************************************)
(* webclient_connect keeps a connection that is open: after                *)
(* WEBCLIENT_ERR_FINISHED nothing of this response may be left in the      *)
(* socket or in the buffer, where the next response would begin.           *)
(***************************************************************************)
ConnectionClean == result = "FINISHED" => recvd = resp.total /\ left = 0

\* The client keeps the promise of webclient.h.
Stream == INSTANCE BodyStream WITH resp <- resp, consumed <- consumed, result <- result
StreamSpec == Stream!Spec

\* As long as the server keeps the connection, the caller gets all of it, or an error.
KeepAliveCompletes == <>(conn # "open" \/ result \in {"FINISHED", "ERROR"})

(***************************************************************************)
(* webclient.h on webclient_read: "it has to be called until all data is   *)
(* read (then it returns WEBCLIENT_ERR_FINISHED)"; so this must happen.    *)
(***************************************************************************)
ReadCompletes == <>(result \in {"FINISHED", "ERROR"})
===============================================================================
