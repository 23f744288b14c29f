------------------------------ MODULE LinkedList ------------------------------
(***************************************************************************)
(* The doubly linked lists the voice rules are kept in (app/src/lstLib.c). *)
(* A node is zeroed before its first use, as add_voice_rule_node does, and *)
(* keeps its pointers when it leaves a list.                               *)
(***************************************************************************)
EXTENDS Naturals, Sequences

CONSTANTS
    Lists, \* the lists
    Nodes, \* the nodes
    NULL   \* the null pointer

ASSUME NullAssumption == NULL \notin Nodes

VARIABLES
    next,     \* pNode->next
    previous, \* pNode->previous
    list      \* HEAD, TAIL and count

listVars == <<next, previous, list>>

List(head, tail, count) == [head |-> head, tail |-> tail, count |-> count]

Empty == List(NULL, NULL, 0)

ListInit ==
    /\ next = [n \in Nodes |-> NULL] /\ previous = [n \in Nodes |-> NULL]
    /\ list = [l \in Lists |-> Empty]
-------------------------------------------------------------------------------
\* The nodes from head on; the library goes on to NULL, this no further than the count.
Forward(l) ==
    LET at[k \in 1 .. list[l].count] == IF k = 1 THEN list[l].head ELSE next[at[k - 1]]
    IN  at

Backward(l) ==
    LET at[k \in 1 .. list[l].count] == IF k = 1 THEN list[l].tail ELSE previous[at[k - 1]]
    IN  at

In(n, l) == \E k \in 1 .. list[l].count : Forward(l)[k] = n
Free(n)  == \A l \in Lists : ~In(n, l)

\* lstInsert behind prev; lstAdd behind the last.
lstInsert(l, prev, n) ==
    LET follows == IF prev = NULL THEN list[l].head ELSE next[prev] IN
    /\ list' = [list EXCEPT ![l] = List(IF prev = NULL THEN n ELSE @.head,
                                        IF follows = NULL THEN n ELSE @.tail, @.count + 1)]
    /\ next' = [m \in Nodes |-> IF m = n THEN follows ELSE IF m = prev THEN n ELSE next[m]]
    /\ previous' = [m \in Nodes |-> IF m = n THEN prev ELSE IF m = follows THEN n ELSE previous[m]]

\* What lstDelete looks at before it takes a node out.
LooksLinked(l, n) ==
    /\ IF previous[n] = NULL THEN list[l].head = n ELSE next[previous[n]] = n
    /\ IF next[n] = NULL THEN list[l].tail = n ELSE previous[next[n]] = n

Unlink(l, first, last) ==
    /\ next' = [m \in Nodes |-> IF m = previous[first] THEN next[last] ELSE next[m]]
    /\ previous' = [m \in Nodes |-> IF m = next[last] THEN previous[first] ELSE previous[m]]

lstDelete(l, n) ==
    \/ /\ LooksLinked(l, n)
       /\ Unlink(l, n, n)
       /\ list' = [list EXCEPT ![l] = List(IF previous[n] = NULL THEN next[n] ELSE @.head,
                                           IF next[n] = NULL THEN previous[n] ELSE @.tail,
                                           @.count - 1)]
    \/ ~LooksLinked(l, n) /\ UNCHANGED listVars

\* The first node's "previous" is not looked at, only its successor's set.
lstGet(l) ==
    /\ list[l].head # NULL
    /\ LET n == list[l].head IN
       /\ list' = [list EXCEPT ![l] = List(next[n], IF next[n] = NULL THEN NULL ELSE @.tail,
                                           @.count - 1)]
       /\ previous' = [m \in Nodes |-> IF m = next[n] THEN NULL ELSE previous[m]]
       /\ UNCHANGED next

\* Slip: the added list is not emptied when it becomes the whole of the other.
ConcatKeepsAdded(d, a) ==
    \/ list[a].count = 0 /\ UNCHANGED listVars
    \/ /\ list[a].count # 0 /\ list[d].count = 0
       /\ list' = [list EXCEPT ![d] = list[a]]
       /\ UNCHANGED <<next, previous>>
    \/ /\ list[a].count # 0 /\ list[d].count # 0
       /\ next' = [next EXCEPT ![list[d].tail] = list[a].head]
       /\ previous' = [previous EXCEPT ![list[a].head] = list[d].tail]
       /\ list' = [list EXCEPT ![d] = List(@.head, list[a].tail, @.count + list[a].count),
                               ![a] = Empty]

lstConcat(d, a) ==
    \/ list[a].count = 0 /\ UNCHANGED listVars
    \/ /\ list[a].count # 0 /\ list[d].count = 0
       /\ list' = [list EXCEPT ![d] = list[a], ![a] = Empty]
       /\ UNCHANGED <<next, previous>>
    \/ /\ list[a].count # 0 /\ list[d].count # 0
       /\ next' = [next EXCEPT ![list[d].tail] = list[a].head]
       /\ previous' = [previous EXCEPT ![list[a].head] = list[d].tail]
       /\ list' = [list EXCEPT ![d] = List(@.head, list[a].tail, @.count + list[a].count),
                               ![a] = Empty]

\* The nodes from first to last: count is how many the loop over "next" meets.
lstExtract(s, i, j, d) ==
    LET first == Forward(s)[i]
        last  == Forward(s)[j]
    IN  /\ next' = [m \in Nodes |-> IF m = last THEN NULL
                                    ELSE IF m = previous[first] THEN next[last] ELSE next[m]]
        /\ previous' = [m \in Nodes |-> IF m = first THEN NULL
                                        ELSE IF m = next[last] THEN previous[first]
                                        ELSE previous[m]]
        /\ list' = [list EXCEPT ![s] = List(IF previous[first] = NULL THEN next[last] ELSE @.head,
                                            IF next[last] = NULL THEN previous[first] ELSE @.tail,
                                            @.count - (j - i + 1)),
                                ![d] = List(first, last, j - i + 1)]

\* The caller's part: a node he inserts is in no list, one he deletes in no other list.
ListNext ==
    \/ \E l \in Lists, n \in Nodes :
          \/ Free(n) /\ \E p \in Nodes \cup {NULL} : (p = NULL \/ In(p, l)) /\ lstInsert(l, p, n)
          \/ (In(n, l) \/ Free(n)) /\ lstDelete(l, n)
    \/ \E l \in Lists : lstGet(l)
    \/ \E d, a \in Lists :
          /\ d # a
          /\ \/ lstConcat(d, a)
             \/ /\ list[d].count = 0
                /\ \E i, j \in 1 .. list[a].count : i <= j /\ lstExtract(a, i, j, d)

ListSpec == ListInit /\ [][ListNext]_listVars
-------------------------------------------------------------------------------
\* lstNth goes the shorter way: from the head, or from the tail.
lstNth(l, k) ==
    IF k \notin 1 .. list[l].count THEN NULL
    ELSE IF k < list[l].count \div 2 THEN Forward(l)[k]
         ELSE Backward(l)[list[l].count - k + 1]

(***************************************************************************)
(* The library implements sequences.  The list as lstNth shows it, from    *)
(* the nearer end and so along "previous" as well as "next", changes as    *)
(* the sequence does; the count the callers trust is its length; and       *)
(* lstDelete of a node that is in no list, whatever pointers it kept, is   *)
(* refused.                                                                *)
(***************************************************************************)
Shown == [l \in Lists |-> [k \in 1 .. list[l].count |-> lstNth(l, k)]]

Sequence == INSTANCE ListSeq WITH seq <- Shown
SequenceSpec == Sequence!Spec
===============================================================================
