-------------------------------- MODULE ListSeq --------------------------------
(***************************************************************************)
(* What the list library promises (app/include/lstLib.h): lists are        *)
(* sequences of nodes, a node being in one place at most.                  *)
(***************************************************************************)
EXTENDS Naturals, Sequences, SequencesExt

CONSTANTS Lists, Nodes

VARIABLE seq \* the nodes of each list, in order

Free == Nodes \ UNION {ToSet(seq[l]) : l \in Lists}

Init == seq = [l \in Lists |-> <<>>]

Insert(l, k, n) == n \in Free /\ seq' = [seq EXCEPT ![l] = InsertAt(@, k, n)]
Delete(l, k)    == seq' = [seq EXCEPT ![l] = RemoveAt(@, k)]
Concat(d, a)    == d # a /\ seq' = [seq EXCEPT ![d] = @ \o seq[a], ![a] = <<>>]
Extract(s, i, j, d) ==
    /\ seq[d] = <<>>
    /\ seq' = [seq EXCEPT ![s] = SubSeq(@, 1, i - 1) \o SubSeq(@, j + 1, Len(@)),
                          ![d] = SubSeq(seq[s], i, j)]

Next == \E l \in Lists :
    \/ \E k \in 1 .. Len(seq[l]) + 1, n \in Nodes : Insert(l, k, n)
    \/ \E k \in 1 .. Len(seq[l]) : Delete(l, k)
    \/ \E d \in Lists \ {l} :
          \/ Concat(l, d)
          \/ \E i \in 1 .. Len(seq[l]) : \E j \in i .. Len(seq[l]) : Extract(l, i, j, d)

Spec == Init /\ [][Next]_seq
===============================================================================
