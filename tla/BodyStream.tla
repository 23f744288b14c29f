------------------------------ MODULE BodyStream ------------------------------
(***************************************************************************)
(* What webclient.h promises of webclient_read and webclient_drop_response *)
(* (component/aispeech/webclient/include/webclient.h): called again and    *)
(* again they go through the body of the response from its first byte to   *)
(* its last, skip none, and return WEBCLIENT_ERR_FINISHED once all is      *)
(* read.                                                                   *)
(***************************************************************************)
EXTENDS Naturals

VARIABLES
    resp,     \* the response: resp.total places, resp.data those of its body
    consumed, \* the bytes handed over or dropped
    result    \* what the last call returned

vars == <<resp, consumed, result>>

Init == consumed = {} /\ result = "NONE"

UpTo(k) == {p \in resp.data : p <= k}

Next ==
    /\ UNCHANGED resp
    /\ \E k \in 0 .. resp.total : consumed' = UpTo(k)
    /\ consumed \subseteq consumed'
    /\ result' = "FINISHED" => consumed' = resp.data

Spec == Init /\ [][Next]_vars
===============================================================================
