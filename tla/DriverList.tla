------------------------------- MODULE DriverList -------------------------------
(***************************************************************************)
(* The doubly linked lists of the driver (src/trunk/driver/saftest_list.c),*)
(* in which it keeps its threads, their clients, the sessions of a library *)
(* and the pairs of a message.                                             *)
(*                                                                         *)
(* The memory is a record of functions: for each list what its structure   *)
(* holds, for each element what its structure holds but the data.  Every   *)
(* operation maps the memory before the call to the memory after it.       *)
(* Represents says which sequence of elements a list stands for.           *)
(***************************************************************************)
EXTENDS Naturals, Sequences

CONSTANTS Lists, Elements, NULL

ASSUME ListAssumption == NULL \notin Elements /\ NULL \notin Lists

Memories ==
    [head  : [Lists -> Elements \cup {NULL}],
     tail  : [Lists -> Elements \cup {NULL}],
     count : [Lists -> Nat],
     next  : [Elements -> Elements \cup {NULL}],
     prev  : [Elements -> Elements \cup {NULL}],
     list  : [Elements -> Lists \cup {NULL}]]

\* All lists created, all elements created without one.
NewMemory ==
    [head  |-> [l \in Lists |-> NULL],
     tail  |-> [l \in Lists |-> NULL],
     count |-> [l \in Lists |-> 0],
     next  |-> [e \in Elements |-> NULL],
     prev  |-> [e \in Elements |-> NULL],
     list  |-> [e \in Elements |-> NULL]]

\* The element on list l that s[i] is, for every i, and no other is on l.
Represents(m, l, s) ==
    /\ s \in Seq(Elements)
    /\ m.count[l] = Len(s)
    /\ m.head[l] = IF s = <<>> THEN NULL ELSE s[1]
    /\ m.tail[l] = IF s = <<>> THEN NULL ELSE s[Len(s)]
    /\ \A i \in 1 .. Len(s) :
        /\ m.list[s[i]] = l
        /\ m.next[s[i]] = IF i = Len(s) THEN NULL ELSE s[i + 1]
        /\ m.prev[s[i]] = IF i = 1 THEN NULL ELSE s[i - 1]
    /\ \A i, j \in 1 .. Len(s) : s[i] = s[j] => i = j
    /\ \A e \in Elements : m.list[e] = l => \E i \in 1 .. Len(s) : s[i] = e

\* The sequence without its k-th element.
Without(s, k) == [i \in 1 .. Len(s) - 1 |-> IF i < k THEN s[i] ELSE s[i + 1]]

\* The sequence without the elements of a set.
WithoutAll(s, S) ==
    LET rest[n \in 0 .. Len(s)] ==
            IF n = 0 THEN <<>>
            ELSE IF s[n] \in S THEN rest[n - 1] ELSE Append(rest[n - 1], s[n])
    IN rest[Len(s)]

\* The first element of the sequence that is in a set, or NULL.
IsFirst(e, s, S) ==
    IF e = NULL THEN \A i \in 1 .. Len(s) : s[i] \notin S
    ELSE \E i \in 1 .. Len(s) : /\ e = s[i] /\ s[i] \in S
                               /\ \A j \in 1 .. i - 1 : s[j] \notin S

-----------------------------------------------------------------------------
\* The operations.  The element enqueued or inserted is on no list, the one removed
\* is on the list: otherwise they abort.

Enqueue(m, l, e) ==
    [head  |-> [m.head EXCEPT ![l] = IF m.head[l] = NULL THEN e ELSE m.head[l]],
     tail  |-> [m.tail EXCEPT ![l] = e],
     count |-> [m.count EXCEPT ![l] = m.count[l] + 1],
     next  |-> [x \in Elements |-> IF x = e THEN NULL
                                   ELSE IF x = m.tail[l] THEN e ELSE m.next[x]],
     prev  |-> [m.prev EXCEPT ![e] = m.tail[l]],
     list  |-> [m.list EXCEPT ![e] = l]]

\* The element taken is the head.  Without one nothing is done.
Dequeue(m, l) ==
    LET e == m.head[l]
        last == m.tail[l] = e
    IN IF e = NULL THEN m
       ELSE [head  |-> [m.head EXCEPT ![l] = m.next[e]],
             tail  |-> [m.tail EXCEPT ![l] = IF last THEN NULL ELSE m.tail[l]],
             count |-> [m.count EXCEPT ![l] = m.count[l] - 1],
             next  |-> [m.next EXCEPT ![e] = NULL],
             prev  |-> [x \in Elements |-> IF x = e \/ (x = m.next[e] /\ ~last) THEN NULL
                                           ELSE m.prev[x]],
             list  |-> [m.list EXCEPT ![e] = NULL]]

\* After the mark, or in front of all.
Insert(m, l, mark, e) ==
    LET after == IF mark = NULL THEN m.head[l] ELSE m.next[mark]
    IN [head  |-> [m.head EXCEPT ![l] = IF mark = NULL THEN e ELSE m.head[l]],
        tail  |-> [m.tail EXCEPT ![l] = IF m.tail[l] = mark THEN e ELSE m.tail[l]],
        count |-> [m.count EXCEPT ![l] = m.count[l] + 1],
        next  |-> [x \in Elements |-> IF x = e THEN after
                                      ELSE IF x = mark THEN e ELSE m.next[x]],
        prev  |-> [x \in Elements |-> IF x = e THEN mark
                                      ELSE IF x = after THEN e ELSE m.prev[x]],
        list  |-> [m.list EXCEPT ![e] = l]]

\* The last element is not distinguished from one in the middle.
Remove_KeepsTail(m, l, e) ==
    LET first == e = m.head[l]
    IN [head  |-> [m.head EXCEPT ![l] = IF first THEN m.next[e] ELSE m.head[l]],
        tail  |-> m.tail,
        count |-> [m.count EXCEPT ![l] = m.count[l] - 1],
        next  |-> [x \in Elements |-> IF x = e THEN NULL
                                      ELSE IF x = m.prev[e] THEN m.next[e] ELSE m.next[x]],
        prev  |-> [x \in Elements |-> IF x = e \/ (first /\ x = m.next[e]) THEN NULL
                                      ELSE IF x = m.next[e] THEN m.prev[e] ELSE m.prev[x]],
        list  |-> [m.list EXCEPT ![e] = NULL]]

\* The neighbours of the head, of the tail and of an element in the middle are
\* joined by different branches.
Remove(m, l, e) ==
    LET first == e = m.head[l]
        last  == e = m.tail[l]
    IN [head  |-> [m.head EXCEPT ![l] = IF first THEN m.next[e] ELSE m.head[l]],
        tail  |-> [m.tail EXCEPT ![l] = IF last THEN m.prev[e] ELSE m.tail[l]],
        count |-> [m.count EXCEPT ![l] = m.count[l] - 1],
        next  |-> [x \in Elements |-> IF x = e \/ (last /\ x = m.prev[e]) THEN NULL
                                      ELSE IF x = m.prev[e] THEN m.next[e] ELSE m.next[x]],
        prev  |-> [x \in Elements |-> IF x = e \/ (first /\ x = m.next[e]) THEN NULL
                                      ELSE IF x = m.next[e] THEN m.prev[e] ELSE m.prev[x]],
        list  |-> [m.list EXCEPT ![e] = NULL]]

\* saftest_list_delete takes the first element until there is none, ...
Emptied(m, l) ==
    LET after[n \in 0 .. m.count[l]] == IF n = 0 THEN m ELSE Dequeue(after[n - 1], l)
    IN after[m.count[l]]

\* ... and element_delete_if notes the next element before it deletes one.  The
\* test is given by the elements that pass it.
DeleteIf_NextAfter(m, l, passing) ==
    LET walk[n \in 0 .. m.count[l]] ==
            IF n = 0 THEN [m |-> m, e |-> m.head[l]]
            ELSE LET w == walk[n - 1]
                     r == IF w.e # NULL /\ w.e \in passing THEN Remove(w.m, l, w.e) ELSE w.m
                 IN [m |-> r, e |-> IF w.e = NULL THEN NULL ELSE r.next[w.e]]
    IN walk[m.count[l]].m

DeleteIf(m, l, passing) ==
    LET walk[n \in 0 .. m.count[l]] ==
            IF n = 0 THEN [m |-> m, e |-> m.head[l]]
            ELSE LET w == walk[n - 1]
                 IN [m |-> IF w.e # NULL /\ w.e \in passing THEN Remove(w.m, l, w.e) ELSE w.m,
                     e |-> IF w.e = NULL THEN NULL ELSE w.m.next[w.e]]
    IN walk[m.count[l]].m

\* The first element from the head on, or from a given one, that passes a test.
Find(m, l, passing, start) ==
    LET walk[n \in 0 .. m.count[l]] ==
            IF n = 0 THEN IF start = NULL THEN m.head[l] ELSE start
            ELSE LET e == walk[n - 1] IN IF e = NULL \/ e \in passing THEN e ELSE m.next[e]
    IN walk[m.count[l]]

=============================================================================
