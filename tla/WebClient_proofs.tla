---------------------------- MODULE WebClient_proofs ----------------------------
(***************************************************************************)
(* Theorems about WebClient, for any responses, sizes of the buffers, and  *)
(* ends of the connection.                                                 *)
(***************************************************************************)
EXTENDS WebClient, FiniteSetTheorems, TLAPS

\* The parameters of a response, as the provers want them.
LEMMA ResponseOK ==
    ASSUME NEW r \in Responses
    PROVE  /\ r.header \in Nat \ {0} /\ r.total \in Nat /\ r.header <= r.total
           /\ r.data \subseteq r.header + 1 .. r.total
           /\ r.chunked \in BOOLEAN
<1>1. /\ r.header \in Nat \ {0} /\ r.total \in Nat /\ r.header <= r.total
      /\ r.chunked \in BOOLEAN
      /\ IF r.chunked
         THEN r.header < r.total /\ r.data \subseteq r.header + 1 .. r.total - 1
         ELSE r.data = r.header + 1 .. r.total
  BY ResponsesAssumption
<1>2. CASE r.chunked
  BY <1>1, <1>2
<1>3. CASE ~r.chunked
  BY <1>1, <1>3
<1> QED BY <1>1, <1>2, <1>3

\* The bytes of data between two places are at most as many as the places.
LEMMA DataFinite ==
    ASSUME resp \in Responses, NEW a \in Nat, NEW b \in Nat, a <= b
    PROVE  /\ IsFiniteSet(Data(a, b))
           /\ Cardinality(Data(a, b)) \in Nat
           /\ Cardinality(Data(a, b)) <= b - a
<1>1. IsFiniteSet(a + 1 .. b) /\ Cardinality(a + 1 .. b) = b - a
  <2>1. a + 1 \in Int /\ b \in Int
    OBVIOUS
  <2> DEFINE c == a + 1
  <2>2. IsFiniteSet(c .. b) /\ Cardinality(c .. b) = IF c > b THEN 0 ELSE b - c + 1
    <3> HIDE DEF c
    <3> QED BY <2>1, FS_Interval DEF c
  <2> QED BY <2>2
<1>2. Data(a, b) \subseteq a + 1 .. b
  BY ResponseOK DEF Data
<1>3. IsFiniteSet(Data(a, b)) /\ Cardinality(Data(a, b)) <= Cardinality(a + 1 .. b)
  BY <1>1, <1>2, FS_Subset
<1> QED BY <1>1, <1>3, FS_CardinalityType

\* Data up to a and the data behind it, up to b, are the data up to b, each byte once.
LEMMA DataSplit ==
    ASSUME resp \in Responses, NEW a \in Nat, NEW b \in Nat, a <= b
    PROVE  /\ Data(0, b) = Data(0, a) \cup Data(a, b)
           /\ Cardinality(Data(0, b)) = Cardinality(Data(0, a)) + Cardinality(Data(a, b))
<1>1. resp.data \subseteq Nat \ {0}
  BY ResponseOK
<1>2. Data(0, b) = Data(0, a) \cup Data(a, b)
  BY <1>1 DEF Data
<1>3. Data(0, a) \cap Data(a, b) = {}
  BY <1>1 DEF Data
<1>4. IsFiniteSet(Data(0, a)) /\ IsFiniteSet(Data(a, b))
      /\ Cardinality(Data(0, a)) \in Nat /\ Cardinality(Data(a, b)) \in Nat
  BY DataFinite
<1>5. Cardinality(Data(0, a) \cup Data(a, b))
        = Cardinality(Data(0, a)) + Cardinality(Data(a, b)) - Cardinality({})
  BY <1>3, <1>4, FS_Union
<1>6. Cardinality({}) = 0
  BY FS_EmptySet
<1>7. Cardinality(Data(0, b)) = Cardinality(Data(0, a) \cup Data(a, b))
  BY <1>2
<1>8. Cardinality(Data(0, b)) = Cardinality(Data(0, a)) + Cardinality(Data(a, b)) - 0
  BY <1>5, <1>6, <1>7, Zenon
<1>9. Cardinality(Data(0, b)) = Cardinality(Data(0, a)) + Cardinality(Data(a, b))
  BY <1>4, <1>8
<1> QED BY <1>2, <1>9
-------------------------------------------------------------------------------
(***************************************************************************)
(* Where the bytes that left the socket are: parsed, in the client's       *)
(* buffer, or in the read under way.  Some may be missing only when the    *)
(* connection is over and nothing more can come.                           *)
(***************************************************************************)
BytesOK ==
    /\ from + left + plen <= recvd
    /\ from + left + plen < recvd =>
          plen = 0 /\ (conn = "reset" \/ (conn = "fin" /\ sent = recvd))
    /\ want > 0 => left = 0

PhaseOK ==
    /\ state = "READY_RECV_HEADER" =>
          from < resp.header /\ recved = 0 /\ left = 0 /\ ridx = 0
    /\ state # "READY_RECV_HEADER" => resp.header <= from /\ recved = from - resp.header
    /\ state = "FINISHED" => from = resp.total
    /\ result = "FINISHED" => from = resp.total

CallOK ==
    /\ op = "none" => ridx = 0 /\ len = 0 /\ want = 0
    /\ op = "header" => ridx = 0
    /\ ridx <= len
    /\ want > 0 /\ state # "READY_RECV_HEADER" => op \in {"read", "drop"} /\ want <= len - ridx

IInv == TypeOK /\ BytesOK /\ PhaseOK /\ CallOK /\ Prefix
-------------------------------------------------------------------------------
LEMMA InitIInv == Init => IInv
<1> SUFFICES ASSUME Init PROVE IInv
  OBVIOUS
<1>1. resp \in Responses /\ resp.header \in Nat \ {0} /\ resp.total \in Nat
  BY ResponseOK DEF Init
<1>2. TypeOK
  <2>1. sent \in 0 .. resp.total /\ recvd \in 0 .. sent /\ from \in 0 .. recvd
    BY <1>1 DEF Init
  <2>2. left \in 0 .. BufSize /\ want \in 0 .. BufSize /\ plen \in 0 .. want
    BY BufSizeAssumption DEF Init
  <2>3. recved \in Nat /\ recved2 \in Nat /\ ridx \in Nat /\ len \in Lens \cup {0, DropLen}
    BY DEF Init
  <2> QED BY <2>1, <2>2, <2>3 DEF Init, TypeOK
<1>3. BytesOK /\ PhaseOK /\ CallOK
  BY <1>1 DEF Init, BytesOK, PhaseOK, CallOK
<1>4. Prefix
  <2>1. resp.data \subseteq Nat \ {0}
    BY <1>1, ResponseOK
  <2>2. Data(0, 0) = {}
    BY <2>1 DEF Data
  <2> QED BY <2>2, FS_EmptySet DEF Init, Prefix
<1> QED BY <1>2, <1>3, <1>4 DEF IInv

\* The parser is given the bytes behind the last one it had, in the body.
LEMMA ExecuteOK ==
    ASSUME TypeOK, PhaseOK, Prefix, HeadersReceived, resp' = resp,
           NEW b \in Nat, from <= b, b <= resp.total, Execute(from, b)
    PROVE  /\ from' = b /\ consumed' \subseteq resp.data /\ Prefix'
           /\ recved' \in Nat /\ recved2' \in Nat /\ recved' = b - resp.header
           /\ ridx' \in Nat /\ ridx' <= ridx + (b - from)
           /\ state' \in {"READY_RECV", "FINISHED"}
           /\ state' = "FINISHED" => b = resp.total
<1>1. /\ resp \in Responses /\ resp.header \in Nat \ {0} /\ resp.total \in Nat
      /\ from \in Nat /\ recved \in Nat /\ recved2 \in Nat /\ ridx \in Nat
  BY ResponseOK DEF TypeOK
<1>2. /\ Cardinality(Data(from, b)) \in Nat /\ Cardinality(Data(from, b)) <= b - from
  BY <1>1, DataFinite
<1>3. /\ Data(0, b) = Data(0, from) \cup Data(from, b)
      /\ Cardinality(Data(0, b)) = Cardinality(Data(0, from)) + Cardinality(Data(from, b))
  BY <1>1, DataSplit
<1>4. consumed' = Data(0, b) /\ recved2' = Cardinality(Data(0, b))
  BY <1>3 DEF Execute, Prefix
<1>5. Data(0, b)' = Data(0, b) /\ Data(0, from)' = Data(0, b)
  BY DEF Data, Execute
<1>6. Prefix'
  BY <1>4, <1>5 DEF Prefix
<1>7. consumed' \subseteq resp.data
  BY <1>4 DEF Data
<1>8. recved' = b - resp.header /\ recved' \in Nat
  BY <1>1 DEF Execute, PhaseOK, HeadersReceived
<1>9. recved2' \in Nat /\ ridx' \in Nat /\ ridx' <= ridx + (b - from)
  BY <1>1, <1>2 DEF Execute
<1>10. state' \in {"READY_RECV", "FINISHED"} /\ (state' = "FINISHED" => b = resp.total)
  BY <1>1 DEF Execute, PhaseOK, HeadersReceived, TypeOK
<1> QED BY <1>6, <1>7, <1>8, <1>9, <1>10 DEF Execute

\* What moves neither the parser nor the response keeps Prefix.
LEMMA PrefixStays ==
    ASSUME Prefix, UNCHANGED <<resp, from, consumed, recved2>>
    PROVE  Prefix'
BY DEF Prefix, Data

(***************************************************************************)
(* One step per action.  What all of them need of the state is collected   *)
(* first.                                                                  *)
(***************************************************************************)
LEMMA Facts ==
    ASSUME IInv
    PROVE  /\ resp \in Responses /\ resp.header \in Nat \ {0} /\ resp.total \in Nat
           /\ resp.header <= resp.total
           /\ sent \in Nat /\ recvd \in Nat /\ from \in Nat /\ left \in Nat /\ ridx \in Nat
           /\ want \in Nat /\ plen \in Nat /\ len \in Nat
           /\ sent <= resp.total /\ recvd <= sent /\ from <= recvd /\ left <= BufSize
           /\ want <= BufSize /\ plen <= want
BY ResponseOK, BufSizeAssumption, LensAssumption DEF IInv, TypeOK

LEMMA NetworkKeeps == IInv /\ (Arrive \/ Close) => IInv'
<1> SUFFICES ASSUME IInv, Arrive \/ Close PROVE IInv'
  OBVIOUS
<1> USE DEF clientVars, objVars, callVars
<1>1. Prefix'
  BY PrefixStays DEF IInv, Arrive, Close
<1>2. CASE Arrive
  <2>1. TypeOK'
    BY <1>2, Facts DEF IInv, Arrive, TypeOK
  <2>2. BytesOK'
    BY <1>2, Facts DEF IInv, Arrive, BytesOK
  <2>3. PhaseOK' /\ CallOK'
    BY <1>2 DEF IInv, Arrive, PhaseOK, CallOK
  <2> QED BY <1>1, <2>1, <2>2, <2>3 DEF IInv
<1>3. CASE Close
  <2>1. TypeOK'
    BY <1>3, Facts DEF IInv, Close, TypeOK
  <2>2. BytesOK'
    BY <1>3, Facts DEF IInv, Close, BytesOK
  <2>3. PhaseOK' /\ CallOK'
    BY <1>3 DEF IInv, Close, PhaseOK, CallOK
  <2> QED BY <1>1, <2>1, <2>2, <2>3 DEF IInv
<1> QED BY <1>2, <1>3

LEMMA CallKeeps == IInv /\ Calls => IInv'
<1> SUFFICES ASSUME IInv, NEW o \in {"header", "read", "drop"}, NEW n \in Lens \cup {0, DropLen},
                    Call(o, n)
             PROVE  IInv'
  BY DEF Calls
<1>1. n \in Nat
  BY LensAssumption, BufSizeAssumption
<1>2. Prefix'
  BY PrefixStays DEF IInv, Call, netVars
<1>3. ridx' = 0 /\ ridx = 0 /\ len' \in {0, n} /\ want = 0 /\ want' = 0
  BY DEF IInv, CallOK, Call, Return
<1>4. TypeOK'
  <2>1. op' \in {"none", "header", "read", "drop"} /\ dropping' \in BOOLEAN
        /\ result' \in {"NONE", "OK", "TIMEOUT", "ERROR", "FINISHED"}
    BY DEF IInv, TypeOK, Call, Return, Refusal
  <2> QED BY <1>3, <2>1, Facts DEF IInv, TypeOK, Call, netVars
<1>5. BytesOK'
  BY <1>3 DEF IInv, BytesOK, Call, netVars
<1>6. PhaseOK'
  <2>1. result' = "FINISHED" => state = "FINISHED"
    BY DEF Call, Return, Refusal
  <2> QED BY <1>3, <2>1 DEF IInv, PhaseOK, Call, netVars
<1>7. CallOK'
  <2>1. op' = "none" => len' = 0
    BY DEF Call, Return
  <2> QED BY <1>1, <1>3, <2>1 DEF CallOK
<1> QED BY <1>2, <1>4, <1>5, <1>6, <1>7 DEF IInv

\* A read is begun: for the header with the whole buffer, for the body with what the caller needs.
LEMMA BeginKeeps == IInv /\ (BeginHeaderRead \/ BeginBodyRead) => IInv'
<1> SUFFICES ASSUME IInv, BeginHeaderRead \/ BeginBodyRead PROVE IInv'
  OBVIOUS
<1> USE DEF netVars, objVars, callVars
<1>1. Prefix' /\ PhaseOK'
  BY PrefixStays DEF IInv, BeginHeaderRead, BeginBodyRead, PhaseOK
<1>2. plen = 0 /\ left = 0 /\ op # "none" /\ want' \in 0 .. BufSize
  BY Facts, BufSizeAssumption DEF IInv, BeginHeaderRead, BeginBodyRead, InBody, HeadersReceived,
     PhaseOK, ByteToRead, AtMost, Need, CallOK
<1>3. TypeOK'
  BY <1>2, Facts DEF IInv, TypeOK, BeginHeaderRead, BeginBodyRead
<1>4. BytesOK'
  BY <1>2 DEF IInv, BytesOK, BeginHeaderRead, BeginBodyRead
<1>5. CallOK'
  <2>1. HeadersReceived => op \in {"read", "drop"} /\ want' <= len - ridx
    BY Facts, BufSizeAssumption DEF IInv, BeginHeaderRead, BeginBodyRead, InBody, ByteToRead,
       AtMost, Need
  <2> QED BY <1>2, <2>1 DEF IInv, CallOK, BeginHeaderRead, BeginBodyRead, HeadersReceived
<1> QED BY <1>1, <1>3, <1>4, <1>5 DEF IInv

\* When nothing of the body remains, all of the response has been parsed.
LEMMA NothingRemains ==
    ASSUME IInv, HeadersReceived, ~Remains
    PROVE  from = resp.total
<1>1. CASE resp.chunked
  BY <1>1, Facts DEF IInv, PhaseOK, Remains
<1>2. CASE ~resp.chunked
  <2>1. recved = from - resp.header /\ recved \in Nat
    BY DEF IInv, TypeOK, PhaseOK, HeadersReceived
  <2> QED BY <1>2, <2>1, Facts DEF Remains, content_length
<1> QED BY <1>1, <1>2

\* A call that returns leaves no read behind; FINISHED it returns only after the last byte.
LEMMA ReturnKeeps ==
    ASSUME IInv, NEW r \in {"OK", "TIMEOUT", "ERROR", "FINISHED"}, Return(r),
           r = "FINISHED" => from = resp.total,
           want' = 0, plen' = 0, UNCHANGED <<netVars, recvd, objVars>>,
           plen > 0 => conn = "reset" \/ (conn = "fin" /\ sent = recvd)
    PROVE  IInv'
<1> USE DEF netVars, objVars, Return
<1>1. Prefix'
  BY PrefixStays DEF IInv
<1>2. TypeOK'
  BY Facts, BufSizeAssumption DEF IInv, TypeOK
<1>3. BytesOK'
  BY Facts DEF IInv, BytesOK
<1>4. PhaseOK'
  BY DEF IInv, PhaseOK
<1>5. CallOK'
  BY DEF CallOK
<1> QED BY <1>1, <1>2, <1>3, <1>4, <1>5 DEF IInv

LEMMA ReturnsKeep ==
    IInv /\ (HeaderCallOver \/ BodyCallOver \/ ReadTimeout \/ ReadAtEof \/ ReadError) => IInv'
<1> SUFFICES ASSUME IInv, HeaderCallOver \/ BodyCallOver \/ ReadTimeout \/ ReadAtEof \/ ReadError
             PROVE  IInv'
  OBVIOUS
<1>1. CASE HeaderCallOver
  <2>1. want' = 0 /\ plen' = 0 /\ plen = 0
    BY <1>1, Facts DEF HeaderCallOver
  <2> QED BY <1>1, <2>1, ReturnKeeps DEF HeaderCallOver
<1>2. CASE BodyCallOver
  <2>1. want' = 0 /\ plen' = 0 /\ plen = 0
    BY <1>2, Facts DEF BodyCallOver, InBody
  <2>2. PICK r \in {"OK", "FINISHED"} : Return(r) /\ (r = "FINISHED" => ~Remains)
    BY <1>2 DEF BodyCallOver
  <2>3. HeadersReceived
    BY <1>2 DEF BodyCallOver, InBody
  <2>4. r = "FINISHED" => from = resp.total
    BY <2>2, <2>3, NothingRemains
  <2> QED BY <1>2, <2>1, <2>2, <2>4, ReturnKeeps DEF BodyCallOver
<1>3. CASE ReadTimeout \/ ReadAtEof \/ ReadError
  <2>1. PICK r \in {"OK", "TIMEOUT", "ERROR"} : Return(r)
    BY <1>3 DEF ReadTimeout, ReadAtEof, ReadError, ReturnTimeout
  <2>2. /\ want' = 0 /\ plen' = 0 /\ UNCHANGED <<netVars, recvd, objVars>>
        /\ plen > 0 => conn = "reset" \/ (conn = "fin" /\ sent = recvd)
    BY <1>3, Facts DEF ReadTimeout, ReadAtEof, ReadError, Dry
  <2> QED BY <2>1, <2>2, ReturnKeeps
<1> QED BY <1>1, <1>2, <1>3

LEMMA ParseKeeps == IInv /\ ParseBuffered => IInv' /\ from <= from'
<1> SUFFICES ASSUME IInv, ParseBuffered PROVE IInv' /\ from <= from'
  OBVIOUS
<1> DEFINE n == AtMost(ByteToRead, left)
           b == from + n
<1>1. /\ InBody /\ Need > 0 /\ left > 0 /\ Execute(from, b) /\ left' = left - n
      /\ UNCHANGED <<resp, sent, conn, recvd, dropping, op, len, result, want, plen>>
  BY DEF ParseBuffered, netVars
<1>2. n \in Nat /\ n <= left /\ n <= Need /\ Need = len - ridx
  BY <1>1, Facts, BufSizeAssumption DEF AtMost, ByteToRead, Need
<1>3. from + left <= recvd
  BY Facts DEF IInv, BytesOK
<1>4. b \in Nat /\ from <= b /\ b <= recvd /\ b <= resp.total
  BY <1>2, <1>3, Facts
<1>5. HeadersReceived /\ op \in {"read", "drop"} /\ want = 0 /\ plen = 0
  BY <1>1, Facts DEF InBody
<1> HIDE DEF n, b
<1>6. /\ from' = b /\ consumed' \subseteq resp.data /\ Prefix'
      /\ recved' \in Nat /\ recved2' \in Nat /\ recved' = b - resp.header
      /\ ridx' \in Nat /\ ridx' <= ridx + (b - from)
      /\ state' \in {"READY_RECV", "FINISHED"}
      /\ state' = "FINISHED" => b = resp.total
  BY <1>1, <1>4, <1>5, ExecuteOK DEF IInv
<1>7. TypeOK'
  <2>1. left' \in 0 .. BufSize
    BY <1>1, <1>2, Facts, BufSizeAssumption
  <2>2. from' \in 0 .. recvd'
    BY <1>1, <1>4, <1>6, Facts
  <2> QED BY <1>1, <1>6, <2>1, <2>2 DEF IInv, TypeOK
<1>8. BytesOK'
  BY <1>1, <1>2, <1>5, <1>6, Facts DEF IInv, BytesOK, b
<1>9. PhaseOK'
  BY <1>1, <1>4, <1>5, <1>6, Facts DEF IInv, PhaseOK, HeadersReceived
<1>10. CallOK'
  BY <1>1, <1>2, <1>5, <1>6, Facts DEF CallOK, b
<1> QED BY <1>4, <1>6, <1>7, <1>8, <1>9, <1>10 DEF IInv

LEMMA RecvKeeps == IInv /\ Recv => IInv'
<1> SUFFICES ASSUME IInv, Recv PROVE IInv'
  OBVIOUS
<1> USE DEF netVars, objVars, callVars
<1> DEFINE n == AtMost(want - plen, sent - recvd)
<1>1. n \in Nat /\ n <= want - plen /\ n <= sent - recvd
  BY Facts DEF Recv, Reading, AtMost
<1>2. recvd' = recvd + n /\ plen' = plen + n
  BY DEF Recv
<1>3. conn # "reset" /\ recvd # sent
  BY DEF Recv, Dry
<1> HIDE DEF n
<1>4. Prefix' /\ PhaseOK' /\ CallOK'
  BY PrefixStays DEF IInv, Recv, PhaseOK, CallOK
<1>5. TypeOK'
  BY <1>1, <1>2, Facts DEF IInv, TypeOK, Recv
<1>6. BytesOK'
  BY <1>1, <1>2, <1>3, Facts DEF IInv, BytesOK, Recv
<1> QED BY <1>4, <1>5, <1>6 DEF IInv

\* The read is done: its bytes follow those that were parsed before.
LEMMA ReadOkKeeps == IInv /\ ReadOk => IInv' /\ from <= from'
<1> SUFFICES ASSUME IInv, ReadOk PROVE IInv' /\ from <= from'
  OBVIOUS
<1>1. /\ want > 0 /\ plen > 0 /\ want' = 0 /\ plen' = 0
      /\ UNCHANGED <<resp, sent, conn, recvd, dropping, op, len, result>>
  BY DEF ReadOk, netVars
<1>2. left = 0 /\ from + plen = recvd /\ plen <= want
  BY <1>1, Facts DEF IInv, BytesOK
<1>3. CASE HeadersReceived
  <2>1. recvd - plen = from
    BY <1>2, Facts
  <2>2. Execute(from, recvd) /\ left' = 0
    BY <1>2, <1>3, <2>1 DEF ReadOk
  <2>3. /\ from' = recvd /\ consumed' \subseteq resp.data /\ Prefix'
        /\ recved' \in Nat /\ recved2' \in Nat /\ recved' = recvd - resp.header
        /\ ridx' \in Nat /\ ridx' <= ridx + (recvd - from)
        /\ state' \in {"READY_RECV", "FINISHED"}
        /\ state' = "FINISHED" => recvd = resp.total
    BY <1>1, <1>3, <2>2, Facts, ExecuteOK DEF IInv
  <2>4. op \in {"read", "drop"} /\ want <= len - ridx
    BY <1>1, <1>3 DEF IInv, CallOK, HeadersReceived
  <2>5. TypeOK'
    BY <1>1, <2>2, <2>3, Facts, BufSizeAssumption DEF IInv, TypeOK
  <2>6. BytesOK'
    BY <1>1, <2>2, <2>3, Facts DEF BytesOK
  <2>7. PhaseOK'
    BY <1>1, <1>3, <2>3, Facts DEF IInv, PhaseOK, HeadersReceived
  <2>8. CallOK'
    BY <1>1, <1>2, <2>3, <2>4, Facts DEF CallOK
  <2> QED BY <2>3, <2>5, <2>6, <2>7, <2>8, Facts DEF IInv
<1>4. CASE ~HeadersReceived
  <2>1. /\ from' = AtMost(resp.header, recvd) /\ left' = recvd - from'
        /\ state' = IF from' = resp.header THEN "READY_RECV" ELSE state
        /\ UNCHANGED <<recved, recved2, consumed, ridx>>
    BY <1>4 DEF ReadOk
  <2>2. state = "READY_RECV_HEADER" /\ from < resp.header /\ recved = 0 /\ ridx = 0
    BY <1>4 DEF IInv, PhaseOK, HeadersReceived
  <2>3. /\ from' \in Nat /\ from <= from' /\ from' <= recvd /\ from' <= resp.header
        /\ from' < resp.header => from' = recvd
    BY <1>2, <2>1, <2>2, Facts DEF AtMost
  <2>4. left' \in Nat /\ left' <= plen /\ from' + left' = recvd
    BY <1>2, <2>1, <2>3, Facts
  <2>5. TypeOK'
    BY <1>1, <1>2, <2>1, <2>2, <2>3, <2>4, Facts, BufSizeAssumption DEF IInv, TypeOK
  <2>6. BytesOK'
    BY <1>1, <2>3, <2>4, Facts DEF BytesOK
  <2>7. PhaseOK'
    <3>1. result' # "FINISHED"
      BY <1>1, <2>2, Facts DEF IInv, PhaseOK
    <3>2. CASE from' = resp.header
      BY <1>1, <2>1, <2>2, <3>1, <3>2, Facts DEF PhaseOK
    <3>3. CASE from' < resp.header
      <4>1. left' = 0
        BY <2>1, <2>3, <3>3, Facts
      <4>2. state' = "READY_RECV_HEADER" /\ recved' = 0 /\ ridx' = 0
        BY <2>1, <2>2, <3>3, Facts
      <4> QED BY <1>1, <3>1, <3>3, <4>1, <4>2 DEF PhaseOK
    <3> QED BY <2>3, <3>2, <3>3, Facts
  <2>8. CallOK'
    BY <1>1, <2>1 DEF IInv, CallOK
  <2>9. Prefix'
    <3>1. resp.data \subseteq resp.header + 1 .. resp.total
      BY Facts, ResponseOK
    <3>2. \A p \in resp.data : p \in Nat /\ p > from /\ p > from'
      BY <2>2, <2>3, <3>1, Facts
    <3>3. Data(0, from) = {} /\ {p \in resp.data : 0 < p /\ p <= from'} = {}
      BY <2>3, <3>2, Facts DEF Data
    <3>4. Data(0, from)' = {}
      BY <1>1, <3>3 DEF Data
    <3> QED BY <2>1, <3>3, <3>4 DEF IInv, Prefix
  <2> QED BY <2>3, <2>5, <2>6, <2>7, <2>8, <2>9 DEF IInv
<1> QED BY <1>3, <1>4
-------------------------------------------------------------------------------
LEMMA NextIInv == IInv /\ [Next]_vars => IInv'
<1>1. ASSUME IInv, UNCHANGED vars PROVE IInv'
  <2> USE <1>1 DEF vars, netVars, objVars, callVars
  <2>1. Prefix'
    BY PrefixStays DEF IInv
  <2>2. TypeOK' /\ BytesOK' /\ PhaseOK' /\ CallOK'
    BY DEF IInv, TypeOK, BytesOK, PhaseOK, CallOK
  <2> QED BY <2>1, <2>2 DEF IInv
<1> QED BY <1>1, NetworkKeeps, CallKeeps, BeginKeeps, ReturnsKeep, ParseKeeps, RecvKeeps, ReadOkKeeps
        DEF Next, Client

LEMMA Inductive == Spec => []IInv
<1> QED BY InitIInv, NextIInv, PTL DEF Spec

(***************************************************************************)
(* The client's counters stay in their types, and no read asks for more    *)
(* than the buffer has room for.                                           *)
(***************************************************************************)
THEOREM TypeCorrect == Spec => []TypeOK
<1>1. IInv => TypeOK
  BY DEF IInv
<1> QED BY <1>1, Inductive, PTL

\* webclient_read never writes behind the caller's buffer.
THEOREM BufferRespected == Spec => []NoOverrun
<1>1. IInv => NoOverrun
  BY DEF IInv, CallOK, NoOverrun
<1> QED BY <1>1, Inductive, PTL

\* What the caller has got is the body up to a point, each byte once.
THEOREM BodyInOrder == Spec => []Prefix
<1>1. IInv => Prefix
  BY DEF IInv
<1> QED BY <1>1, Inductive, PTL

\* WEBCLIENT_ERR_FINISHED leaves nothing of the response on the connection.
THEOREM Reusable == Spec => []ConnectionClean
<1>1. IInv => ConnectionClean
  <2> SUFFICES ASSUME IInv, result = "FINISHED" PROVE recvd = resp.total /\ left = 0
    BY DEF ConnectionClean
  <2> QED BY Facts DEF IInv, PhaseOK, BytesOK
<1> QED BY <1>1, Inductive, PTL
-------------------------------------------------------------------------------
\* Prefix, read as BodyStream's bound on what is consumed.
LEMMA ConsumedUpTo == IInv => consumed = Stream!UpTo(from)
<1> SUFFICES ASSUME IInv PROVE consumed = Stream!UpTo(from)
  OBVIOUS
<1>1. resp.data \subseteq Nat \ {0}
  BY Facts, ResponseOK
<1> QED BY <1>1 DEF IInv, Prefix, Data, Stream!UpTo

\* The response stays, and places are parsed one after the other.
LEMMA ParserAdvances == IInv /\ [Next]_vars => UNCHANGED resp /\ from <= from'
<1>1. IInv => from <= from
  BY Facts
<1>2. CASE ParseBuffered
  BY <1>2, ParseKeeps DEF ParseBuffered, netVars
<1>3. CASE ReadOk
  BY <1>3, ReadOkKeeps DEF ReadOk, netVars
<1>4. CASE Arrive \/ Close \/ Calls
  BY <1>1, <1>4 DEF Arrive, Close, Calls, Call, clientVars, objVars, netVars
<1>5. CASE \/ BeginHeaderRead \/ HeaderCallOver \/ BodyCallOver \/ BeginBodyRead
           \/ Recv \/ ReadTimeout \/ ReadAtEof \/ ReadError
  BY <1>1, <1>5 DEF BeginHeaderRead, HeaderCallOver, BodyCallOver, BeginBodyRead, Recv, ReadTimeout,
     ReadAtEof, ReadError, netVars, objVars
<1>6. CASE UNCHANGED vars
  BY <1>1, <1>6 DEF vars, netVars, objVars
<1> QED BY <1>2, <1>3, <1>4, <1>5, <1>6 DEF Next, Client

\* Every step is one of BodyStream: FINISHED appears only when the last place is parsed.
LEMMA StepRefines == IInv /\ IInv' /\ [Next]_vars => [Stream!Next]_(Stream!vars)
<1> SUFFICES ASSUME IInv, IInv', [Next]_vars PROVE Stream!Next
  OBVIOUS
<1>1. UNCHANGED resp /\ from <= from' /\ from \in Nat /\ from' \in 0 .. resp.total
      /\ resp.data \subseteq Nat /\ \A p \in resp.data : p <= resp.total
  BY ParserAdvances, Facts, ResponseOK DEF IInv, TypeOK
<1>2. consumed = Stream!UpTo(from)
  BY ConsumedUpTo
<1>3. consumed' = Stream!UpTo(from')
  <2>1. \A p \in resp.data : p > 0
    BY Facts, ResponseOK
  <2> QED BY <1>1, <2>1 DEF IInv, Prefix, Data, Stream!UpTo
<1>4. consumed \subseteq consumed'
  BY <1>1, <1>2, <1>3 DEF Stream!UpTo
<1>5. result' = "FINISHED" => consumed' = resp.data
  BY <1>1, <1>3 DEF IInv, PhaseOK, Stream!UpTo
<1> QED BY <1>1, <1>3, <1>4, <1>5 DEF Stream!Next

(***************************************************************************)
(* The client implements webclient.h's promise: the calls go through the   *)
(* body in order and end with WEBCLIENT_ERR_FINISHED after its last byte.  *)
(***************************************************************************)
THEOREM Implements == Spec => StreamSpec
<1>1. Init => Stream!Init
  BY DEF Init, Stream!Init
<1> QED BY <1>1, Inductive, StepRefines, PTL DEF Spec, StreamSpec, Stream!Spec
=============================================================================
