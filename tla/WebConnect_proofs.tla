-------------------------- MODULE WebConnect_proofs --------------------------
(***************************************************************************)
(* Theorems about WebConnect, for any URLs, any number of header lines and *)
(* any body: what the kernel has taken is the request in order, and a      *)
(* connection is the one to the host and port of the URL.                  *)
(***************************************************************************)
EXTENDS WebConnect, SequenceTheorems, TLAPS

\* The byte k of the request r as it goes to the wire.
ByteOf(r, k) ==
    IF \/ k > r[Headers + 1]
       \/ \E i \in 0 .. Headers : r[i] < k /\ k <= r[i + 1] /\ k - r[i] < BufSize
    THEN k ELSE Junk

\* The m bytes of it behind the first n.
Ahead(r, n, m) == [i \in 1 .. m |-> ByteOf(r, n + i)]

LEMMA AheadSeq == ASSUME NEW r, NEW n \in Nat, NEW m \in Nat
                  PROVE  Ahead(r, n, m) \in Seq(Nat) /\ Len(Ahead(r, n, m)) = m
<1>1. \A i \in 1 .. m : ByteOf(r, n + i) \in Nat
  <2>1. \A i \in 1 .. m : n + i \in Nat
    OBVIOUS
  <2> QED BY <2>1 DEF ByteOf, Junk
<1>2. Ahead(r, n, m) \in [1 .. m -> Nat]
  BY <1>1 DEF Ahead
<1>3. Ahead(r, n, m) \in Seq(Nat)
  BY <1>1, IsASeq DEF Ahead
<1>4. Len(Ahead(r, n, m)) = m
  BY <1>2, <1>3, LenProperties
<1> QED BY <1>3, <1>4

\* What follows the first n bytes makes them more of the request.
LEMMA AheadConcat == ASSUME NEW r, NEW n \in Nat, NEW m \in Nat
                     PROVE  Ahead(r, 0, n) \o Ahead(r, n, m) = Ahead(r, 0, n + m)
<1> DEFINE s == Ahead(r, 0, n)  t == Ahead(r, n, m)  u == Ahead(r, 0, n + m)
<1>1. /\ s \in Seq(Nat) /\ t \in Seq(Nat) /\ u \in Seq(Nat)
      /\ Len(s) = n /\ Len(t) = m /\ Len(u) = n + m
  BY AheadSeq
<1>2. s \o t \in Seq(Nat) /\ Len(s \o t) = n + m
  BY <1>1, ConcatProperties
<1>3. ASSUME NEW i \in 1 .. n + m PROVE (s \o t)[i] = u[i]
  <2>1. i \in Nat /\ i >= 1 /\ i <= n + m /\ u[i] = ByteOf(r, i)
    <3>1. 0 + i = i
      OBVIOUS
    <3> QED BY <3>1 DEF Ahead
  <2>2. CASE i <= n
    <3>1. s[i] = ByteOf(r, i)
      <4>1. 0 + i = i /\ i \in 1 .. n
        BY <2>1, <2>2
      <4> QED BY <4>1 DEF Ahead
    <3>2. (s \o t)[i] = s[i]
      <4> HIDE DEF s, t
      <4> QED BY <1>1, <2>1, <2>2
    <3> QED BY <2>1, <3>1, <3>2
  <2>3. CASE i > n
    <3>1. t[i - n] = ByteOf(r, i)
      <4>1. n + (i - n) = i /\ i - n \in 1 .. m
        BY <2>1, <2>3
      <4> QED BY <4>1 DEF Ahead
    <3>2. (s \o t)[i] = t[i - n]
      <4>1. i \in 1 .. Len(s) + Len(t) /\ ~(i <= Len(s))
        BY <1>1, <2>1, <2>3
      <4> HIDE DEF s, t
      <4> QED BY <1>1, <4>1, ConcatProperties
    <3> QED BY <2>1, <3>1, <3>2
  <2>4. i <= n \/ i > n
    BY <2>1
  <2> HIDE DEF s, t, u
  <2> QED BY <2>2, <2>3, <2>4
<1> HIDE DEF s, t, u
<1>4. s \o t = u
  BY <1>1, <1>2, <1>3, SeqEqual
<1> QED BY <1>4 DEF s, t, u

\* A part of such bytes is such bytes.
LEMMA AheadTake == ASSUME NEW r, NEW k \in Nat, NEW m \in Nat, NEW n \in 0 .. m
                   PROVE  Take(Ahead(r, k, m), n) = Ahead(r, k, n)
<1> DEFINE s == Ahead(r, k, m)
<1>1. s \in Seq(Nat) /\ Len(s) = m
  BY AheadSeq
<1>2. SubSeq(s, 1, n) = [i \in 1 .. n |-> s[i]]
  <2> HIDE DEF s
  <2> QED BY <1>1
<1>3. \A i \in 1 .. n : s[i] = ByteOf(r, k + i)
  BY DEF Ahead
<1> QED BY <1>2, <1>3 DEF Take, Ahead

LEMMA AheadDrop == ASSUME NEW r, NEW k \in Nat, NEW m \in Nat, NEW n \in 0 .. m
                   PROVE  Drop(Ahead(r, k, m), n) = Ahead(r, k + n, m - n)
<1> DEFINE s == Ahead(r, k, m)
<1>1. s \in Seq(Nat) /\ Len(s) = m
  BY AheadSeq
<1>2. SubSeq(s, n + 1, m) = [i \in 1 .. (m - n) |-> s[n + i]]
  <2> HIDE DEF s
  <2> QED BY <1>1
<1>3. ASSUME NEW i \in 1 .. (m - n) PROVE s[n + i] = ByteOf(r, (k + n) + i)
  <2>1. k + (n + i) = (k + n) + i /\ n + i \in 1 .. m
    OBVIOUS
  <2> QED BY <2>1 DEF Ahead
<1>4. Drop(s, n) = [i \in 1 .. (m - n) |-> s[n + i]]
  <2> HIDE DEF s
  <2> QED BY <1>1, <1>2 DEF Drop
<1> QED BY <1>3, <1>4 DEF Ahead

\* Where the lines of a request begin and end.
LEMMA LayoutPlaces ==
    ASSUME NEW r \in Layouts, NEW i \in 0 .. Headers
    PROVE  /\ r[i] \in Nat /\ r[i + 1] \in Nat /\ r[Headers + 1] \in Nat
           /\ r[i] < r[i + 1] /\ r[i + 1] <= r[Headers + 1] /\ r[0] = 0
           /\ \A j \in 0 .. Headers : j < i => r[j + 1] <= r[i]
           /\ \A j \in 0 .. Headers : j > i => r[i + 1] <= r[j]
<1>1. Headers \in Nat /\ i \in Nat /\ r \in [0 .. Headers + 1 -> Nat] /\ r[0] = 0
  BY RequestsAssumption, LayoutsAssumption
<1>2. \A k, l \in 0 .. Headers + 1 : k < l => r[k] < r[l]
  BY LayoutsAssumption
<1>3. ASSUME NEW k \in 0 .. Headers + 1, NEW l \in 0 .. Headers + 1, k <= l PROVE r[k] <= r[l]
  <2>1. r[k] \in Nat /\ r[l] \in Nat /\ (k < l => r[k] < r[l])
    BY <1>1, <1>2
  <2>2. k = l \/ k < l
    BY <1>1, <1>3
  <2> QED BY <2>1, <2>2
<1>4. i \in 0 .. Headers + 1 /\ i + 1 \in 0 .. Headers + 1 /\ Headers + 1 \in 0 .. Headers + 1
  BY <1>1
<1>5. ASSUME NEW j \in 0 .. Headers
      PROVE  (j < i => r[j + 1] <= r[i]) /\ (j > i => r[i + 1] <= r[j])
  <2>1. /\ j \in 0 .. Headers + 1 /\ j + 1 \in 0 .. Headers + 1
        /\ (j < i => j + 1 <= i) /\ (j > i => i + 1 <= j)
    BY <1>1
  <2> QED BY <1>3, <1>4, <2>1
<1>6. r[i] < r[i + 1] /\ r[i + 1] <= r[Headers + 1]
  <2>1. i < i + 1 /\ i + 1 <= Headers + 1
    BY <1>1
  <2> QED BY <1>2, <1>3, <1>4, <2>1
<1>7. r[i] \in Nat /\ r[i + 1] \in Nat /\ r[Headers + 1] \in Nat
  BY <1>1, <1>4
<1> QED BY <1>1, <1>5, <1>6, <1>7

\* A line is what goes to the wire of its part of the request.
LEMMA LineAhead ==
    ASSUME NEW r \in Layouts, NEW i \in 0 .. Headers
    PROVE  Line(r, i) = Ahead(r, r[i], r[i + 1] - r[i])
<1> DEFINE n == r[i]  e == r[i + 1]
<1>1. /\ n \in Nat /\ e \in Nat /\ n < e /\ e <= r[Headers + 1] /\ r[Headers + 1] \in Nat
      /\ i \in Nat /\ Headers \in Nat /\ BufSize \in Nat
  BY LayoutPlaces, RequestsAssumption
<1>2. ASSUME NEW o \in 1 .. e - n
      PROVE  ByteOf(r, n + o) = IF o < BufSize THEN n + o ELSE Junk
  <2>1. n + o \in Nat /\ n < n + o /\ n + o <= e /\ (n + o) - n = o /\ ~(n + o > r[Headers + 1])
    BY <1>1
  <2>2. ASSUME NEW j \in 0 .. Headers, r[j] < n + o, n + o <= r[j + 1] PROVE j = i
    <3>1. r[j] \in Nat /\ r[j + 1] \in Nat
      BY LayoutPlaces
    <3>2. ~(j < i)
      <4>1. j < i => r[j + 1] <= n
        BY LayoutPlaces
      <4> QED BY <1>1, <2>1, <2>2, <3>1, <4>1
    <3>3. ~(j > i)
      <4>1. j > i => e <= r[j]
        BY LayoutPlaces
      <4> QED BY <1>1, <2>1, <2>2, <3>1, <4>1
    <3>4. j \in Nat
      BY <1>1
    <3> QED BY <1>1, <3>2, <3>3, <3>4
  <2>3. CASE o < BufSize
    <3>1. r[i] < n + o /\ n + o <= r[i + 1] /\ (n + o) - r[i] < BufSize
      BY <2>1, <2>3
    <3> QED BY <2>3, <3>1 DEF ByteOf
  <2>4. CASE ~(o < BufSize)
    <3>1. ~ \E j \in 0 .. Headers : r[j] < n + o /\ n + o <= r[j + 1] /\ (n + o) - r[j] < BufSize
      BY <2>1, <2>2, <2>4
    <3> QED BY <2>1, <2>4, <3>1 DEF ByteOf
  <2> QED BY <2>3, <2>4
<1> QED BY <1>2 DEF Line, Ahead
-------------------------------------------------------------------------------
CountsType == /\ headers \in 0 .. Headers /\ body \in 0 .. BodyLen /\ layout \in Layouts
              /\ \E n \in Nat : wire = Ahead(layout, 0, n)

\* The request is sent between the two calls that set a URL and read the answer.
CallerPlace ==
    /\ web_pc \in {"url", "prepare"} => wc_state \in {"INIT", "READY_RECV_HEADER"}
    /\ web_pc \in {"call", "select", "failed"} =>
          wc_state \in {"PREPARED", "CONNECTED", "READY_SEND_BODY"}
    /\ web_pc = "select" => wc_state = "PREPARED"
    /\ web_pc = "prepare" => headers = Headers

\* The line that is being sent; the longer ones.
LineNow == Headers - headers

LongLine(r) == \E i \in 0 .. Headers : r[i + 1] - r[i] > BufSize + 1

(***************************************************************************)
(* The buffer holds what follows the bytes on the wire, up to the end of a *)
(* line; what is on the wire says how many headers or how much of the body *)
(* are left.                                                               *)
(***************************************************************************)
Sending ==
    /\ wc_state = "PREPARED" => wire = <<>> /\ dbuf = Line(layout, 0) /\ headers = Headers
    /\ wc_state = "CONNECTED" /\ web_pc = "call" =>
          \E n, m \in Nat : /\ wire = Ahead(layout, 0, n) /\ dbuf = Ahead(layout, n, m)
                            /\ n >= layout[LineNow] /\ n + m = layout[LineNow + 1]
    /\ wc_state = "READY_SEND_BODY" =>
          /\ dbuf = <<>>
          /\ \/ wire = Ahead(layout, 0, HeaderLen + (BodyLen - body))
             \/ body = 0 /\ wire = Ahead(layout, 0, HeaderLen)
    /\ wc_state \in {"PREPARED", "CONNECTED"} => body \in {0, BodyLen}
    /\ wc_state = "READY_RECV_HEADER" =>
          wire = Ahead(layout, 0, HeaderLen) \/ wire = Ahead(layout, 0, HeaderLen + BodyLen)
    /\ web_pc = "overrun" => wc_state = "CONNECTED" /\ LongLine(layout)

SendInv == CountsType /\ CallerPlace /\ Sending

LEMMA CountsNat == /\ Headers \in Nat /\ BodyLen \in Nat /\ BufSize \in Nat
  BY RequestsAssumption

LEMMA HeaderNat == CountsType => HeaderLen \in Nat
  BY CountsNat, LayoutsAssumption DEF CountsType, HeaderLen

\* No step but these four touches the bytes of the request.
Carries == SendSome \/ SendError \/ NextHeader \/ SendBody

LEMMA SendInvInit == WebInit => SendInv
<1> SUFFICES ASSUME WebInit PROVE SendInv
  OBVIOUS
<1>1. wire = Ahead(layout, 0, 0)
  BY DEF WebInit, Ahead
<1>2. CountsType
  BY <1>1, CountsNat DEF WebInit, CountsType
<1> QED BY <1>2 DEF WebInit, SendInv, CallerPlace, Sending

LEMMA CarriesStep == SendInv /\ Carries => SendInv'
<1> SUFFICES ASSUME SendInv, Carries PROVE SendInv'
  OBVIOUS
<1> USE CountsNat
<1>1. headers \in 0 .. Headers /\ body \in 0 .. BodyLen /\ layout \in Layouts /\ layout' = layout
      /\ LineNow \in 0 .. Headers
  BY DEF SendInv, CountsType, Carries, SendSome, SendError, NextHeader, SendBody, sendRest, LineNow
<1>2. /\ layout[LineNow] \in Nat /\ layout[LineNow + 1] \in Nat
  BY <1>1, LayoutPlaces
<1>3. CASE SendSome
  <2>1. PICK n, m \in Nat : /\ wire = Ahead(layout, 0, n) /\ dbuf = Ahead(layout, n, m)
                            /\ n >= layout[LineNow] /\ n + m = layout[LineNow + 1]
    BY <1>3 DEF SendSome, SendInv, Sending
  <2>2. /\ wc_state = "CONNECTED" /\ web_pc = "call" /\ UNCHANGED <<wc_state, headers, body>>
    BY <1>3 DEF SendSome
  <2>l. Len(dbuf) = m
    BY <2>1, AheadSeq
  <2>3. PICK k \in 1 .. m : /\ wire' = wire \o Take(dbuf, k) /\ dbuf' = Drop(dbuf, k)
                            /\ \/ web_pc' = web_pc
                               \/ m - k > BufSize /\ web_pc' = "overrun"
    BY <1>3, <2>l DEF SendSome
  <2>4. k \in Nat /\ k \in 0 .. m /\ n + k \in Nat /\ m - k \in Nat
        /\ (n + k) + (m - k) = layout[LineNow + 1] /\ n + k >= layout[LineNow] /\ 0 + n = n
    BY <1>2, <2>1
  <2>5. wire' = Ahead(layout, 0, n + k) /\ dbuf' = Ahead(layout, n + k, m - k)
    <3>1. Take(dbuf, k) = Ahead(layout, n, k)
      BY <2>1, <2>4, AheadTake
    <3>2. Drop(dbuf, k) = Ahead(layout, n + k, m - k)
      BY <2>1, <2>4, AheadDrop
    <3>3. k \in Nat /\ Ahead(layout, 0, n) \o Ahead(layout, n, k) = Ahead(layout, 0, n + k)
      BY <2>1, <2>4, AheadConcat
    <3> QED BY <2>1, <2>3, <3>1, <3>2, <3>3
  <2>6. CountsType' /\ CallerPlace'
    BY <1>1, <2>2, <2>3, <2>4, <2>5 DEF SendInv, CountsType, CallerPlace
  <2>7. ASSUME web_pc' = "overrun" PROVE LongLine(layout)
    <3>1. m - k > BufSize
      BY <2>2, <2>3, <2>7
    <3>2. layout[LineNow + 1] - layout[LineNow] > BufSize + 1
      BY <1>2, <2>1, <2>4, <3>1
    <3> QED BY <1>1, <3>2 DEF LongLine
  <2>8. LineNow' = LineNow
    BY <2>2 DEF LineNow
  <2>9. Sending'
    BY <1>1, <2>2, <2>4, <2>5, <2>7, <2>8 DEF SendInv, Sending
  <2> QED BY <2>6, <2>9 DEF SendInv
<1>4. CASE SendError
  <2>1. /\ web_pc = "call" /\ web_pc' = "failed" /\ UNCHANGED <<wc_state, headers, dbuf, body>>
        /\ wc_state \in {"CONNECTED", "READY_SEND_BODY"}
        /\ \E k \in 0 .. Len(dbuf) : wire' = wire \o Take(dbuf, k)
    BY <1>4 DEF SendError
  <2>2. CASE wc_state = "CONNECTED"
    <3>1. PICK n, m \in Nat : wire = Ahead(layout, 0, n) /\ dbuf = Ahead(layout, n, m)
      BY <2>1, <2>2 DEF SendInv, Sending
    <3>l. Len(dbuf) = m
      BY <3>1, AheadSeq
    <3>2. PICK k \in 0 .. m : wire' = wire \o Take(dbuf, k)
      BY <2>1, <3>l
    <3>3. k \in Nat /\ n + k \in Nat
      BY <3>1, <3>2
    <3>4. Take(dbuf, k) = Ahead(layout, n, k)
      BY <3>1, <3>2, AheadTake
    <3>c. Ahead(layout, 0, n) \o Ahead(layout, n, k) = Ahead(layout, 0, n + k)
      BY <3>1, <3>3, AheadConcat
    <3>5. wire' = Ahead(layout, 0, n + k)
      BY <3>1, <3>2, <3>4, <3>c
    <3>6. CountsType'
      BY <1>1, <2>1, <3>3, <3>5 DEF CountsType
    <3>7. CallerPlace' /\ Sending'
      BY <1>1, <2>1, <2>2 DEF SendInv, CallerPlace, Sending
    <3> QED BY <3>6, <3>7 DEF SendInv
  <2>3. CASE wc_state = "READY_SEND_BODY"
    <3>1. dbuf = <<>> /\ Len(dbuf) = 0
      BY <2>3 DEF SendInv, Sending
    <3>2. PICK n \in Nat : wire = Ahead(layout, 0, n)
      BY DEF SendInv, CountsType
    <3>3. dbuf = Ahead(layout, n, 0)
      BY <3>1 DEF Ahead
    <3>4. PICK k \in 0 .. 0 : wire' = wire \o Take(dbuf, k)
      BY <2>1, <3>1
    <3>5. Take(dbuf, k) = Ahead(layout, n, k) /\ k = 0
      BY <3>2, <3>3, <3>4, AheadTake
    <3>6. wire' = Ahead(layout, 0, n + 0) /\ n + 0 = n
      BY <3>2, <3>4, <3>5, AheadConcat
    <3>7. wire' = wire
      BY <3>2, <3>6
    <3>8. HeaderLen' = HeaderLen
      BY <1>1 DEF HeaderLen
    <3> QED BY <1>1, <2>1, <2>3, <3>7, <3>8 DEF SendInv, CountsType, CallerPlace, Sending
  <2> QED BY <2>1, <2>2, <2>3
<1>5. CASE NextHeader
  <2>1. /\ web_pc = "call" /\ wc_state = "CONNECTED" /\ dbuf = <<>>
        /\ UNCHANGED <<web_pc, body, wire>>
    BY <1>5 DEF NextHeader
  <2>2. PICK n, m \in Nat : /\ wire = Ahead(layout, 0, n) /\ dbuf = Ahead(layout, n, m)
                            /\ n + m = layout[LineNow + 1]
    BY <2>1 DEF SendInv, Sending
  <2>3. m = 0
    BY <2>1, <2>2, AheadSeq
  <2>4. n = layout[LineNow + 1]
    BY <2>2, <2>3
  <2>5. body \in {0, BodyLen}
    BY <2>1 DEF SendInv, Sending
  <2>6. CASE headers > 0
    <3>1. /\ wc_state' = "CONNECTED" /\ headers' = headers - 1
          /\ dbuf' = Line(layout, Headers - headers + 1)
      BY <1>5, <2>1, <2>6 DEF NextHeader
    <3>2. Headers - headers + 1 = LineNow' /\ LineNow' = LineNow + 1 /\ LineNow' \in 0 .. Headers
          /\ headers' \in 0 .. Headers
      BY <1>1, <2>6, <3>1 DEF LineNow
    <3>3. /\ layout[LineNow'] \in Nat /\ layout[LineNow' + 1] \in Nat
          /\ layout[LineNow'] < layout[LineNow' + 1]
          /\ dbuf' = Ahead(layout, layout[LineNow'], layout[LineNow' + 1] - layout[LineNow'])
      BY <1>1, <3>1, <3>2, LayoutPlaces, LineAhead
    <3> DEFINE l == layout[LineNow' + 1] - layout[LineNow']
    <3>4. layout[LineNow'] = n /\ l \in Nat /\ n + l = layout[LineNow' + 1] /\ n >= n
      BY <2>2, <2>4, <3>2, <3>3
    <3>5. wire' = Ahead(layout, 0, n) /\ dbuf' = Ahead(layout, n, l)
      BY <2>1, <2>2, <3>3, <3>4
    <3> HIDE DEF l
    <3>6. CountsType' /\ CallerPlace'
      BY <1>1, <2>1, <2>2, <3>1, <3>2, <3>5 DEF CountsType, CallerPlace
    <3>7. \E i, j \in Nat : /\ wire' = Ahead(layout', 0, i) /\ dbuf' = Ahead(layout', i, j)
                            /\ i >= layout'[LineNow'] /\ i + j = layout'[LineNow' + 1]
      BY <1>1, <2>2, <3>4, <3>5
    <3>8. Sending'
      BY <1>1, <2>1, <2>5, <3>1, <3>7 DEF Sending
    <3> QED BY <3>6, <3>8 DEF SendInv
  <2>7. CASE headers = 0
    <3>1. wc_state' = "READY_SEND_BODY" /\ headers' = headers /\ dbuf' = <<>>
      BY <1>5, <2>1, <2>7 DEF NextHeader
    <3>2. LineNow + 1 = Headers + 1
      BY <2>7 DEF LineNow
    <3>3. wire = Ahead(layout, 0, HeaderLen) /\ n \in Nat /\ HeaderLen \in Nat
      BY <2>2, <2>4, <3>2 DEF HeaderLen
    <3>4. CountsType' /\ CallerPlace'
      BY <1>1, <2>1, <3>1 DEF SendInv, CountsType, CallerPlace
    <3>5. HeaderLen + (BodyLen - BodyLen) = HeaderLen /\ HeaderLen' = HeaderLen
      BY <1>1, <3>3 DEF HeaderLen
    <3>6. Sending'
      BY <2>1, <2>5, <3>1, <3>3, <3>5, <1>1 DEF Sending
    <3> QED BY <3>4, <3>6 DEF SendInv
  <2> QED BY <1>1, <2>6, <2>7
<1>6. CASE SendBody
  <2>1. /\ web_pc = "call" /\ wc_state = "READY_SEND_BODY" /\ body > 0
        /\ UNCHANGED <<wc_state, headers, dbuf, web_pc>>
    BY <1>6 DEF SendBody
  <2>2. PICK k \in 1 .. body : 
           /\ body' = body - k
           /\ wire' = wire \o [i \in 1 .. k |-> HeaderLen + BodyLen - body + i]
    BY <1>6 DEF SendBody
  <2>h. HeaderLen \in Nat /\ HeaderLen' = HeaderLen /\ HeaderLen = layout[Headers + 1]
    BY <1>1, HeaderNat DEF SendInv, HeaderLen
  <2> DEFINE n == HeaderLen + (BodyLen - body)
  <2>3. n \in Nat /\ k \in Nat /\ n + k = HeaderLen + (BodyLen - body') /\ n >= HeaderLen
        /\ body' \in 0 .. BodyLen
    <3>1. HeaderLen \in Nat /\ body \in Nat /\ body <= BodyLen /\ k \in Nat /\ k <= body
          /\ body' = body - k
      BY <1>1, <2>2, <2>h
    <3> QED BY <3>1
  <2>4. wire = Ahead(layout, 0, n) /\ dbuf = <<>>
    BY <1>1, <2>1 DEF SendInv, Sending
  <2>5. ASSUME NEW i \in 1 .. k PROVE HeaderLen + BodyLen - body + i = ByteOf(layout, n + i)
    <3>1. HeaderLen + BodyLen - body + i = n + i /\ n + i > HeaderLen
      <4>1. HeaderLen \in Nat /\ body \in Nat /\ i \in Nat /\ i >= 1 /\ body <= BodyLen
        BY <1>1, <2>2, <2>h
      <4> QED BY <4>1
    <3>2. n + i > layout[Headers + 1]
      BY <2>h, <3>1
    <3> HIDE DEF n
    <3>3. ByteOf(layout, n + i) = n + i
      BY <3>2 DEF ByteOf
    <3> QED BY <3>1, <3>3
  <2> HIDE DEF n
  <2>6. [i \in 1 .. k |-> HeaderLen + BodyLen - body + i] = Ahead(layout, n, k)
    BY <2>5 DEF Ahead
  <2>7. wire' = Ahead(layout, 0, n + k)
    <3>1. Ahead(layout, 0, n) \o Ahead(layout, n, k) = Ahead(layout, 0, n + k)
      BY <2>3, AheadConcat
    <3> QED BY <2>2, <2>4, <2>6, <3>1
  <2>8. CountsType' /\ CallerPlace'
    <3>1. n + k \in Nat
      BY <2>3
    <3> QED BY <1>1, <2>1, <2>3, <2>7, <3>1 DEF SendInv, CountsType, CallerPlace
  <2>9. Sending'
    BY <1>1, <2>1, <2>3, <2>4, <2>7, <2>h DEF Sending
  <2> QED BY <2>8, <2>9 DEF SendInv
<1> QED BY <1>3, <1>4, <1>5, <1>6 DEF Carries

LEMMA SendInvStep == SendInv /\ [WebNext]_webVars => SendInv'
<1> SUFFICES ASSUME SendInv, [WebNext]_webVars PROVE SendInv'
  OBVIOUS
<1> USE CountsNat DEF SendInv, CountsType, CallerPlace, Sending, webRest, webTcp, sendRest, webObj,
                      HeaderLen, LineNow
<1>1. ASSUME NEW u \in Urls, SetUrl(u) PROVE SendInv'
  <2>1. /\ web_pc = "url" /\ web_pc' = "prepare" /\ headers' = Headers
        /\ UNCHANGED <<layout, dbuf, body, wire>> /\ wc_state' \in {wc_state, "INIT"}
    BY <1>1 DEF SetUrl, CloseConnection
  <2> QED BY <2>1
<1>2. CASE Prepared
  <2>1. /\ web_pc = "prepare" /\ web_pc' = "call" /\ wc_state' = "PREPARED" /\ layout' \in Layouts
        /\ headers' = headers /\ wire' = <<>> /\ dbuf' = Line(layout', 0) /\ body' \in {0, BodyLen}
    BY <1>2 DEF Prepared
  <2>2. wire' = Ahead(layout', 0, 0)
    BY <2>1 DEF Ahead
  <2> QED BY <2>1, <2>2
<1>3. CASE Connect
  <2>1. /\ web_pc' \in {"call", "select", "failed"} /\ web_pc \in {"call", "select"}
        /\ wc_state = "PREPARED" /\ wc_state' \in {"PREPARED", "CONNECTED"}
        /\ (web_pc' = "select" => wc_state' = "PREPARED")
        /\ UNCHANGED <<headers, layout, dbuf, body, wire>>
    BY <1>3 DEF Connect, ConnectNoTransport, ConnectKept, ConnectBegins, ConnectAgain,
                WaitConnected, CallsConnect
  <2>2. wire = <<>> /\ dbuf = Line(layout, 0) /\ headers = Headers /\ layout \in Layouts
    BY <2>1
  <2>3. LineNow = 0 /\ 0 \in 0 .. Headers /\ 0 + 1 = 1
    BY <2>2
  <2>4. layout[0] = 0 /\ layout[1] \in Nat /\ layout[1] - 0 = layout[1]
        /\ dbuf = Ahead(layout, layout[0], layout[1] - layout[0])
    BY <2>2, <2>3, LayoutPlaces, LineAhead
  <2>5. wire = Ahead(layout, 0, 0) /\ dbuf = Ahead(layout, 0, layout[1]) /\ 0 + layout[1] = layout[1]
    BY <2>2, <2>4 DEF Ahead
  <2>6. \E n, m \in Nat : /\ wire = Ahead(layout, 0, n) /\ dbuf = Ahead(layout, n, m)
                          /\ n >= layout[LineNow] /\ n + m = layout[LineNow + 1]
    BY <2>3, <2>4, <2>5
  <2>7. (\E n, m \in Nat : /\ wire = Ahead(layout, 0, n) /\ dbuf = Ahead(layout, n, m)
                           /\ n >= layout[LineNow] /\ n + m = layout[LineNow + 1])'
    BY <2>1, <2>6
  <2> QED BY <2>1, <2>2, <2>7
<1>4. CASE Carries
  BY <1>4, CarriesStep
<1>5. CASE BodyOver
  BY <1>5 DEF BodyOver
<1>6. CASE GiveUp
  BY <1>6 DEF GiveUp, CloseConnection
<1>7. CASE NetMoves \/ UNCHANGED webVars
  BY <1>7 DEF NetMoves, webVars
<1> QED BY <1>1, <1>2, <1>3, <1>4, <1>5, <1>6, <1>7 DEF WebNext, SendRequest, Carries

\* What goes to the wire is what RequestOnWire says.
LEMMA ByteIntact ==
    ASSUME CountsType, NEW k \in Nat
    PROVE  ByteOf(layout, k) = IF Intact(k) THEN k ELSE Junk
<1>1. Intact(k) <=> \/ k > layout[Headers + 1]
                    \/ \E i \in 0 .. Headers : /\ layout[i] < k /\ k <= layout[i + 1]
                                               /\ k - layout[i] < BufSize
  BY DEF Intact, HeaderLen
<1> QED BY <1>1 DEF ByteOf

(***************************************************************************)
(* However the socket splits what webclient_send_header and                *)
(* webclient_send_body give it, and wherever the lines of a request begin, *)
(* it has taken the request in order, with the bytes of a line that the    *)
(* buffer has no room for replaced, and not left out; the whole header     *)
(* before the body, and all of it before the answer is read.  memmove      *)
(* overwrites the object only with a line longer than the buffer.          *)
(***************************************************************************)
THEOREM RequestOnWireAlways == WebSpec => []RequestOnWire
<1>1. SendInv => RequestOnWire
  <2> SUFFICES ASSUME SendInv PROVE RequestOnWire
    OBVIOUS
  <2>1. PICK n \in Nat : wire = Ahead(layout, 0, n)
    BY DEF SendInv, CountsType
  <2>2. Len(wire) = n
    BY <2>1, AheadSeq
  <2>3. ASSUME NEW i \in 1 .. n PROVE ByteOf(layout, 0 + i) = IF Intact(i) THEN i ELSE Junk
    <3>1. 0 + i = i /\ i \in Nat
      OBVIOUS
    <3> QED BY <3>1, ByteIntact DEF SendInv
  <2>4. wire = [i \in 1 .. Len(wire) |-> IF Intact(i) THEN i ELSE Junk]
    BY <2>1, <2>2, <2>3 DEF Ahead
  <2>5. body \in 0 .. BodyLen /\ HeaderLen \in Nat /\ BodyLen \in Nat
    BY CountsNat, HeaderNat DEF SendInv, CountsType
  <2>l. \A m \in Nat : Len(Ahead(layout, 0, m)) = m
    BY AheadSeq
  <2>6. ASSUME wc_state = "READY_SEND_BODY" PROVE Len(wire) >= HeaderLen
    <3>1. wire = Ahead(layout, 0, HeaderLen + (BodyLen - body)) \/ wire = Ahead(layout, 0, HeaderLen)
      BY <2>6 DEF SendInv, Sending
    <3>2. BodyLen - body \in Nat
      BY <2>5
    <3>3. HeaderLen + (BodyLen - body) \in Nat /\ HeaderLen + (BodyLen - body) >= HeaderLen
      BY <2>5, <3>2
    <3>4. Len(wire) \in {HeaderLen + (BodyLen - body), HeaderLen}
      BY <2>5, <2>l, <3>1, <3>3
    <3> QED BY <2>5, <3>3, <3>4
  <2>7. ASSUME wc_state = "READY_RECV_HEADER"
        PROVE  Len(wire) \in {HeaderLen, HeaderLen + BodyLen}
    <3>1. wire = Ahead(layout, 0, HeaderLen) \/ wire = Ahead(layout, 0, HeaderLen + BodyLen)
      BY <2>7 DEF SendInv, Sending
    <3>2. HeaderLen + BodyLen \in Nat
      BY <2>5
    <3> QED BY <2>5, <2>l, <3>1, <3>2
  <2>8. web_pc = "overrun" => \E i \in 0 .. Headers : layout[i + 1] - layout[i] > BufSize + 1
    BY DEF SendInv, Sending, LongLine
  <2> QED BY <2>4, <2>6, <2>7, <2>8 DEF RequestOnWire
<1> QED BY <1>1, SendInvInit, SendInvStep, PTL DEF WebSpec
-------------------------------------------------------------------------------
(***************************************************************************)
(* What the client believes of its socket, against what it is: a refused   *)
(* socket is taken for connected only by a caller who asks again, since    *)
(* SO_ERROR tells of the refusal once; and an open one belongs to the URL, *)
(* unless a URL without a transport kept webclient_close away from it.     *)
(***************************************************************************)
Connection ==
    /\ web_pc \in {"url", "prepare"} => wc_state \in {"INIT", "READY_RECV_HEADER"}
    /\ wc_state \in {"CONNECTED", "READY_SEND_BODY"} => is_connected
    /\ is_connected /\ ~asked_again => tcp_fd \in {"up", "down"}
    /\ is_connected => tcp_fd # "none"
    /\ is_connecting => tcp_fd \notin {"none", "fresh"}
    /\ web_pc = "select" => is_connecting
    /\ web_pc = "select" /\ tcp_fd = "refused" => so_error \/ asked_again
    /\ tcp_fd # "none" /\ ~strayed => peer.host = cinfo.host /\ peer.port = cinfo.port

TcpType == /\ tcp_fd \in {"none", "fresh", "syn", "up", "refused", "down"}
           /\ so_error \in BOOLEAN /\ is_connecting \in BOOLEAN /\ is_connected \in BOOLEAN
           /\ strayed \in BOOLEAN /\ asked_again \in BOOLEAN

LEMMA TcpTypeStep == TcpType /\ [WebNext]_webVars => TcpType'
<1> SUFFICES ASSUME TcpType, [WebNext]_webVars PROVE TcpType'
  OBVIOUS
<1> USE DEF TcpType, webRest, webTcp, sendRest, webObj
<1>1. ASSUME NEW u \in Urls, SetUrl(u) PROVE TcpType'
  BY <1>1 DEF SetUrl, CloseConnection, TcpClosed
<1>2. CASE Prepared BY <1>2 DEF Prepared
<1>3. CASE ConnectNoTransport BY <1>3 DEF ConnectNoTransport
<1>4. CASE ConnectKept BY <1>4 DEF ConnectKept
<1>5. CASE ConnectBegins BY <1>5 DEF ConnectBegins
<1>6. CASE ConnectAgain BY <1>6 DEF ConnectAgain
<1>7. CASE WaitConnected BY <1>7 DEF WaitConnected
<1>8. CASE GiveUp BY <1>8 DEF GiveUp, CloseConnection, TcpClosed
<1>9. CASE SendSome \/ SendError \/ NextHeader \/ SendBody \/ BodyOver
  BY <1>9 DEF SendSome, SendError, NextHeader, SendBody, BodyOver
<1>10. CASE NetMoves BY <1>10 DEF NetMoves
<1>11. CASE UNCHANGED webVars BY <1>11 DEF webVars
<1> QED BY <1>1, <1>2, <1>3, <1>4, <1>5, <1>6, <1>7, <1>8, <1>9, <1>10, <1>11
           DEF WebNext, Connect, SendRequest

LEMMA ConnectionStep == TcpType /\ Connection /\ [WebNext]_webVars => Connection'
<1> SUFFICES ASSUME TcpType, Connection, [WebNext]_webVars PROVE Connection'
  OBVIOUS
<1> USE DEF Connection, webRest, webTcp, sendRest, webObj
<1>1. ASSUME NEW u \in Urls, SetUrl(u) PROVE Connection'
  <2>1. /\ web_pc = "url" /\ web_pc' = "prepare" /\ wc_state \in {"INIT", "READY_RECV_HEADER"}
        /\ UNCHANGED <<peer, asked_again>> /\ cinfo' = u
    BY <1>1 DEF SetUrl
  <2>2. CASE u.host = cinfo.host /\ u.port = cinfo.port
    <3>1. UNCHANGED <<wc_state, tcp_fd, is_connected, is_connecting, so_error>>
          /\ (strayed => strayed')
      BY <1>1, <2>2 DEF SetUrl
    <3> QED BY <2>1, <2>2, <3>1
  <2>3. CASE ~(u.host = cinfo.host /\ u.port = cinfo.port)
    <3>1. wc_state' = "INIT"
      BY <1>1, <2>3 DEF SetUrl, CloseConnection
    <3>2. CASE transport
      <4>1. tcp_fd' = "none" /\ is_connected' = FALSE /\ is_connecting' = FALSE
        BY <1>1, <2>3, <3>2 DEF SetUrl, CloseConnection, TcpClosed
      <4> QED BY <2>1, <3>1, <4>1
    <3>3. CASE ~transport
      <4>1. UNCHANGED <<tcp_fd, is_connected, is_connecting, so_error>>
        BY <1>1, <2>3, <3>3 DEF SetUrl, CloseConnection
      <4>2. tcp_fd # "none" => strayed'
        BY <1>1, <3>3 DEF SetUrl
      <4> QED BY <2>1, <3>1, <4>1, <4>2
    <3> QED BY <3>2, <3>3
  <2> QED BY <2>2, <2>3
<1>2. CASE Prepared
  BY <1>2 DEF Prepared
<1>3. CASE ConnectNoTransport
  BY <1>3 DEF ConnectNoTransport
<1>4. CASE ConnectKept
  BY <1>4 DEF ConnectKept, CallsConnect
<1>5. CASE ConnectBegins
  BY <1>5 DEF ConnectBegins, CallsConnect
<1>6. CASE ConnectAgain
  BY <1>6 DEF ConnectAgain, CallsConnect
<1>7. CASE WaitConnected
  <2>1. web_pc = "select" /\ web_pc' = "call" /\ UNCHANGED <<tcp_fd, peer, cinfo, asked_again, strayed>>
    BY <1>7 DEF WaitConnected
  <2>2. CASE UNCHANGED <<wc_state, is_connecting, is_connected>>
    BY <2>1, <2>2
  <2>3. CASE tcp_fd # "syn" /\ ~so_error /\ wc_state' = "CONNECTED" /\ is_connecting' = FALSE
             /\ is_connected' = TRUE
    <3>1. is_connecting /\ tcp_fd \notin {"none", "fresh", "syn"}
      BY <2>1, <2>3
    <3>2. ~asked_again => tcp_fd \in {"up", "down"}
      BY <2>1, <2>3, <3>1 DEF TcpType
    <3> QED BY <2>1, <2>3, <3>1, <3>2
  <2> QED BY <1>7, <2>2, <2>3 DEF WaitConnected
<1>8. CASE GiveUp
  <2>1. /\ web_pc' = "url" /\ wc_state' = "INIT"
        /\ UNCHANGED <<peer, cinfo, asked_again, strayed>>
        /\ \/ tcp_fd' = "none" /\ is_connected' = FALSE /\ is_connecting' = FALSE
           \/ UNCHANGED <<tcp_fd, is_connected, is_connecting, so_error>>
    BY <1>8 DEF GiveUp, CloseConnection, TcpClosed
  <2> QED BY <2>1
<1>9. CASE SendSome \/ SendError \/ NextHeader \/ SendBody \/ BodyOver
  <2>1. /\ web_pc' # "select" /\ web_pc' # "prepare" /\ UNCHANGED <<cinfo, webTcp, strayed>>
        /\ web_pc' = "url" => wc_state' = "READY_RECV_HEADER"
        /\ wc_state' \in {"CONNECTED", "READY_SEND_BODY"} =>
              wc_state \in {"CONNECTED", "READY_SEND_BODY"}
    BY <1>9 DEF SendSome, SendError, NextHeader, SendBody, BodyOver
  <2> QED BY <2>1
<1>10. CASE NetMoves
  <2>1. /\ UNCHANGED <<wc_state, cinfo, web_pc, is_connecting, is_connected, peer, asked_again,
                       strayed>>
        /\ \/ tcp_fd = "syn" /\ tcp_fd' = "up"
           \/ tcp_fd = "syn" /\ tcp_fd' = "refused" /\ so_error' = TRUE
           \/ tcp_fd = "up" /\ tcp_fd' = "down"
    BY <1>10 DEF NetMoves
  <2> QED BY <2>1
<1>11. CASE UNCHANGED webVars
  BY <1>11 DEF webVars
<1> QED BY <1>1, <1>2, <1>3, <1>4, <1>5, <1>6, <1>7, <1>8, <1>9, <1>10, <1>11
           DEF WebNext, Connect, SendRequest

(***************************************************************************)
(* A request is sent on a connection that was made, to the host and port   *)
(* of its URL, with the two exceptions ConnectedToTarget names.            *)
(***************************************************************************)
THEOREM ConnectedToTargetAlways == WebSpec => []ConnectedToTarget
<1>1. WebInit => TcpType /\ Connection
  BY DEF WebInit, TcpType, Connection
<1>2. Connection => ConnectedToTarget
  BY DEF Connection, ConnectedToTarget
<1> QED BY <1>1, <1>2, TcpTypeStep, ConnectionStep, PTL DEF WebSpec
-------------------------------------------------------------------------------
RequestsCounted == web_pc = "prepare" => requests < MaxRequests

WebTypes == WebTypeOK /\ RequestsCounted

\* A line is bytes.
LEMMA LineBytes == ASSUME NEW r \in Layouts, NEW i \in 0 .. Headers PROVE Line(r, i) \in Seq(Nat)
<1>1. r[i] \in Nat /\ r[i + 1] - r[i] \in Nat
  BY LayoutPlaces
<1> QED BY <1>1, LineAhead, AheadSeq

LEMMA WebTypesInit == WebInit => WebTypes
<1> SUFFICES ASSUME WebInit PROVE WebTypes
  OBVIOUS
<1>1. MaxRequests \in Nat /\ 0 < MaxRequests /\ 0 \in 0 .. MaxRequests
      /\ 0 \in 0 .. BodyLen /\ Headers \in 0 .. Headers
  BY RequestsAssumption
<1>2. <<>> \in Seq(Nat)
  OBVIOUS
<1> QED BY <1>1, <1>2 DEF WebInit, WebTypes, WebTypeOK, RequestsCounted

LEMMA WebTypesStep == WebTypes /\ SendInv /\ [WebNext]_webVars => WebTypes'
<1> SUFFICES ASSUME WebTypes, SendInv, [WebNext]_webVars PROVE WebTypes'
  OBVIOUS
<1>1. SendInv' /\ TcpType' /\ TcpType
  BY SendInvStep, TcpTypeStep DEF WebTypes, WebTypeOK, TcpType
<1>2. headers' \in 0 .. Headers /\ body' \in 0 .. BodyLen /\ layout' \in Layouts
      /\ wire' \in Seq(Nat)
  <2>1. PICK n \in Nat : wire' = Ahead(layout', 0, n)
    BY <1>1 DEF SendInv, CountsType
  <2>2. wire' \in Seq(Nat)
    BY <2>1, AheadSeq
  <2> QED BY <1>1, <2>2 DEF SendInv, CountsType
<1>3. dbuf' \in Seq(Nat)
  <2>1. dbuf \in Seq(Nat) /\ headers \in 0 .. Headers /\ Headers \in Nat
    BY CountsNat DEF WebTypes, WebTypeOK
  <2>2. CASE dbuf' = dbuf \/ dbuf' = <<>>
    <3>1. <<>> \in Seq(Nat)
      OBVIOUS
    <3> QED BY <2>1, <2>2, <3>1
  <2>3. CASE Prepared
    <3>1. dbuf' = Line(layout', 0) /\ layout' \in Layouts /\ 0 \in 0 .. Headers
      BY <2>1, <2>3 DEF Prepared
    <3> QED BY <3>1, LineBytes
  <2>4. CASE SendSome
    <3>1. PICK n \in 1 .. Len(dbuf) : dbuf' = Drop(dbuf, n)
      BY <2>4 DEF SendSome
    <3> QED BY <2>1, <3>1, SubSeqProperties DEF Drop
  <2>5. CASE NextHeader /\ dbuf' # <<>>
    <3>1. headers > 0 /\ dbuf' = Line(layout, Headers - headers + 1)
      BY <2>5 DEF NextHeader
    <3>2. layout \in Layouts /\ Headers - headers + 1 \in 0 .. Headers
      BY <2>1, <3>1 DEF WebTypes, WebTypeOK
    <3> QED BY <3>1, <3>2, LineBytes
  <2>6. ASSUME ~Prepared, ~SendSome, ~NextHeader PROVE dbuf' = dbuf
    BY <2>6 DEF WebNext, SetUrl, Connect, ConnectNoTransport, ConnectKept, ConnectBegins,
                ConnectAgain, WaitConnected, SendRequest, SendError, SendBody, BodyOver, GiveUp,
                NetMoves, webVars, webObj, webRest
  <2>7. NextHeader => dbuf' = dbuf \/ dbuf' = <<>> \/ dbuf' # <<>>
    OBVIOUS
  <2> QED BY <2>2, <2>3, <2>4, <2>5, <2>6
<1>4. /\ requests' \in 0 .. MaxRequests /\ (web_pc' = "prepare" => requests' < MaxRequests)
      /\ wc_state' \in {"INIT", "PREPARED", "CONNECTED", "READY_SEND_BODY", "READY_RECV_HEADER"}
      /\ cinfo' \in Urls /\ peer' \in Urls /\ transport' \in BOOLEAN
      /\ web_pc' \in {"url", "prepare", "call", "select", "failed", "overrun"}
  <2>0. /\ requests \in 0 .. MaxRequests /\ (web_pc = "prepare" => requests < MaxRequests)
        /\ wc_state \in {"INIT", "PREPARED", "CONNECTED", "READY_SEND_BODY", "READY_RECV_HEADER"}
        /\ cinfo \in Urls /\ peer \in Urls /\ transport \in BOOLEAN
        /\ web_pc \in {"url", "prepare", "call", "select", "failed", "overrun"}
        /\ MaxRequests \in Nat
    BY RequestsAssumption DEF WebTypes, WebTypeOK, RequestsCounted
  <2> USE DEF webObj, webTcp, webRest, sendRest
  <2>1. CASE \E u \in Urls : SetUrl(u)
    BY <2>0, <2>1 DEF SetUrl, CloseConnection
  <2>2. CASE Prepared
    BY <2>0, <2>2 DEF Prepared
  <2>3. CASE Connect
    BY <2>0, <2>3 DEF Connect, ConnectNoTransport, ConnectKept, ConnectBegins, ConnectAgain,
                      WaitConnected, CallsConnect
  <2>4. CASE SendRequest
    BY <2>0, <2>4 DEF SendRequest, SendSome, SendError, NextHeader, SendBody, BodyOver, GiveUp,
                      CloseConnection
  <2>5. CASE NetMoves \/ UNCHANGED webVars
    BY <2>0, <2>5 DEF NetMoves, webVars
  <2> QED BY <2>1, <2>2, <2>3, <2>4, <2>5 DEF WebNext
<1> QED BY <1>1, <1>2, <1>3, <1>4 DEF WebTypes, WebTypeOK, RequestsCounted, TcpType

\* Every variable of the client keeps its type, for any URLs and any requests.
THEOREM WebTypeAlways == WebSpec => []WebTypeOK
<1>1. WebTypes => WebTypeOK
  BY DEF WebTypes
<1> QED BY <1>1, WebTypesInit, WebTypesStep, SendInvInit, SendInvStep, PTL DEF WebSpec
===============================================================================
