----------------------------- MODULE MCWebClient -----------------------------
(* WebClient for TLC: a response with and one without a body, and two chunkings. *)
EXTENDS WebClient

MCResponses == {
    [header |-> 2, chunked |-> FALSE, data |-> 3 .. 8, total |-> 8],
    [header |-> 1, chunked |-> FALSE, data |-> {}, total |-> 1],
    [header |-> 2, chunked |-> TRUE, data |-> {4, 5, 6, 8}, total |-> 9],
    [header |-> 1, chunked |-> TRUE, data |-> {3}, total |-> 5]}
==============================================================================
