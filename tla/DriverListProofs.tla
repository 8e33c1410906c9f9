---------------------------- MODULE DriverListProofs ----------------------------
(***************************************************************************)
(* The list operations do on the elements what their comments say, for     *)
(* lists of any length and any number of lists, and leave the other lists  *)
(* as they are.                                                            *)
(***************************************************************************)
EXTENDS DriverList, Integers, WellFoundedInduction, TLAPS

\* A function on the first numbers is a sequence of that length.
LEMMA FunctionIsSequence ==
    ASSUME NEW S, NEW k \in Nat, NEW f \in [1 .. k -> S]
    PROVE  f \in Seq(S) /\ Len(f) = k /\ (f = <<>> <=> k = 0)
<1>1. f \in Seq(S)
  OBVIOUS
<1>2. Len(f) = k
  BY <1>1
<1> QED BY <1>1, <1>2

\* saftest_list_enqueue appends the element to the list.
THEOREM EnqueueAppends ==
    ASSUME NEW m \in Memories, NEW l \in Lists, NEW s, Represents(m, l, s),
           NEW e \in Elements, m.list[e] = NULL
    PROVE  Represents(Enqueue(m, l, e), l, Append(s, e))
<1> DEFINE n == Enqueue(m, l, e)
           t == Append(s, e)
<1> s \in Seq(Elements) BY DEF Represents
<1>n. /\ n.head[l] = IF m.head[l] = NULL THEN e ELSE m.head[l]
      /\ n.tail[l] = e
      /\ n.count[l] = m.count[l] + 1
      /\ \A x \in Elements : n.next[x] = IF x = e THEN NULL
                                        ELSE IF x = m.tail[l] THEN e ELSE m.next[x]
      /\ \A x \in Elements : n.prev[x] = IF x = e THEN m.tail[l] ELSE m.prev[x]
      /\ \A x \in Elements : n.list[x] = IF x = e THEN l ELSE m.list[x]
  BY DEF Enqueue, Memories
<1>t. /\ t \in Seq(Elements) /\ Len(t) = Len(s) + 1 /\ t[Len(s) + 1] = e
      /\ \A i \in 1 .. Len(s) : t[i] = s[i] /\ s[i] \in Elements
      /\ Len(s) \in Nat
      /\ s = <<>> <=> Len(s) = 0
      /\ t # <<>>
  OBVIOUS
<1> HIDE DEF n, t
<1>e. \A i \in 1 .. Len(s) : s[i] # e
  BY ListAssumption DEF Represents
<1>1. n.count[l] = Len(t)
  BY <1>n, <1>t DEF Represents
<1>2. n.head[l] = t[1] /\ n.tail[l] = t[Len(t)]
  BY <1>n, <1>t, ListAssumption DEF Represents
<1>3. ASSUME NEW i \in 1 .. Len(t)
      PROVE  /\ n.list[t[i]] = l
             /\ n.next[t[i]] = IF i = Len(t) THEN NULL ELSE t[i + 1]
             /\ n.prev[t[i]] = IF i = 1 THEN NULL ELSE t[i - 1]
  <2>1. CASE i = Len(s) + 1
    <3>1. n.list[t[i]] = l /\ n.next[t[i]] = NULL
      BY <2>1, <1>n, <1>t
    <3>2. n.prev[t[i]] = m.tail[l]
      BY <2>1, <1>n, <1>t
    <3>3. m.tail[l] = IF i = 1 THEN NULL ELSE t[i - 1]
      BY <2>1, <1>t DEF Represents
    <3> QED BY <3>1, <3>2, <3>3, <2>1, <1>t
  <2>2. CASE i \in 1 .. Len(s)
    <3>1. t[i] = s[i] /\ s[i] # e /\ s[i] \in Elements
      BY <2>2, <1>t, <1>e
    <3>2. n.list[t[i]] = l
      BY <3>1, <1>n, <2>2 DEF Represents
    <3>3. n.prev[t[i]] = IF i = 1 THEN NULL ELSE t[i - 1]
      <4>1. n.prev[t[i]] = m.prev[s[i]]
        BY <3>1, <1>n
      <4>2. m.prev[s[i]] = IF i = 1 THEN NULL ELSE s[i - 1]
        BY <2>2 DEF Represents
      <4>3. i # 1 => t[i - 1] = s[i - 1]
        BY <2>2, <1>t
      <4> QED BY <4>1, <4>2, <4>3
    <3>4. n.next[t[i]] = t[i + 1]
      <4>1. CASE i = Len(s)
        <5>1. s[i] = m.tail[l]
          BY <4>1, <2>2, <1>t DEF Represents
        <5> QED BY <5>1, <3>1, <1>n, <4>1, <1>t
      <4>2. CASE i < Len(s)
        <5>1. m.tail[l] = s[Len(s)] /\ Len(s) \in 1 .. Len(s)
          BY <4>2, <2>2, <1>t DEF Represents
        <5>2. s[i] # s[Len(s)]
          BY <4>2, <2>2, <5>1 DEF Represents
        <5>3. m.next[s[i]] = s[i + 1]
          BY <4>2, <2>2 DEF Represents
        <5>4. t[i + 1] = s[i + 1]
          BY <4>2, <2>2, <1>t
        <5> QED BY <5>1, <5>2, <5>3, <5>4, <3>1, <1>n
      <4> QED BY <4>1, <4>2, <2>2
    <3> QED BY <3>2, <3>3, <3>4, <2>2, <1>t
  <2> QED BY <2>1, <2>2, <1>t
<1>4. \A i, j \in 1 .. Len(t) : t[i] = t[j] => i = j
  BY <1>t, <1>e DEF Represents
<1>5. ASSUME NEW x \in Elements, n.list[x] = l
      PROVE  \E i \in 1 .. Len(t) : t[i] = x
  <2>1. CASE x = e
    BY <2>1, <1>t
  <2>2. CASE x # e
    <3>1. PICK i \in 1 .. Len(s) : s[i] = x
      BY <2>2, <1>5, <1>n DEF Represents
    <3> QED BY <3>1, <1>t
  <2> QED BY <2>1, <2>2
<1>6. Represents(n, l, t)
  BY <1>1, <1>2, <1>3, <1>4, <1>5, <1>t DEF Represents
<1> QED BY <1>6 DEF n, t

\* saftest_list_remove takes the element out, whether it is the first, the last, both
\* or in the middle; saftest_list_dequeue is the case of the first.
THEOREM RemoveTakesOut ==
    ASSUME NEW m \in Memories, NEW l \in Lists, NEW s, Represents(m, l, s),
           NEW k \in 1 .. Len(s)
    PROVE  Represents(Remove(m, l, s[k]), l, Without(s, k))
<1> DEFINE e == s[k]
           n == Remove(m, l, e)
           t == [i \in 1 .. Len(s) - 1 |-> IF i < k THEN s[i] ELSE s[i + 1]]
<1>s. /\ s \in Seq(Elements) /\ Len(s) \in Nat /\ k \in Nat /\ e \in Elements
      /\ \A i \in 1 .. Len(s) : s[i] \in Elements
      /\ \A i, j \in 1 .. Len(s) : s[i] = s[j] => i = j
  BY DEF Represents
<1>m. /\ m.head[l] = s[1] /\ m.tail[l] = s[Len(s)] /\ m.count[l] = Len(s)
      /\ m.next[e] = IF k = Len(s) THEN NULL ELSE s[k + 1]
      /\ m.prev[e] = IF k = 1 THEN NULL ELSE s[k - 1]
  BY <1>s DEF Represents
<1>n. /\ n.head[l] = IF k = 1 THEN m.next[e] ELSE s[1]
      /\ n.tail[l] = IF k = Len(s) THEN m.prev[e] ELSE s[Len(s)]
      /\ n.count[l] = Len(s) - 1
      /\ \A x \in Elements : n.next[x] =
            IF x = e \/ (k = Len(s) /\ x = m.prev[e]) THEN NULL
            ELSE IF x = m.prev[e] THEN m.next[e] ELSE m.next[x]
      /\ \A x \in Elements : n.prev[x] =
            IF x = e \/ (k = 1 /\ x = m.next[e]) THEN NULL
            ELSE IF x = m.next[e] THEN m.prev[e] ELSE m.prev[x]
      /\ \A x \in Elements : n.list[x] = IF x = e THEN NULL ELSE m.list[x]
  <2>1. (e = m.head[l] <=> k = 1) /\ (e = m.tail[l] <=> k = Len(s))
    BY <1>s, <1>m
  <2> QED BY <2>1, <1>s, <1>m DEF Remove, Memories
<1>t. /\ t \in Seq(Elements) /\ Len(t) = Len(s) - 1
      /\ \A i \in 1 .. Len(t) : t[i] = IF i < k THEN s[i] ELSE s[i + 1]
      /\ t = <<>> <=> Len(s) = 1
  <2>1. \A i \in 1 .. Len(s) - 1 : (IF i < k THEN s[i] ELSE s[i + 1]) \in Elements
    BY <1>s
  <2>2. t \in [1 .. Len(s) - 1 -> Elements] /\ Len(s) - 1 \in Nat
    BY <2>1, <1>s
  <2>3. \A i \in 1 .. Len(s) - 1 : t[i] = IF i < k THEN s[i] ELSE s[i + 1]
    OBVIOUS
  <2> HIDE DEF t
  <2>4. t \in Seq(Elements) /\ Len(t) = Len(s) - 1 /\ (t = <<>> <=> Len(s) - 1 = 0)
    BY <2>2, FunctionIsSequence
  <2> QED BY <2>3, <2>4, <1>s
<1> HIDE DEF e, n, t
<1>1. n.count[l] = Len(t)
  BY <1>n, <1>t
<1>2. n.head[l] = IF t = <<>> THEN NULL ELSE t[1]
  BY <1>n, <1>t, <1>m, <1>s
<1>3. n.tail[l] = IF t = <<>> THEN NULL ELSE t[Len(t)]
  BY <1>n, <1>t, <1>m, <1>s
<1>4. ASSUME NEW i \in 1 .. Len(t)
      PROVE  /\ n.list[t[i]] = l
             /\ n.next[t[i]] = IF i = Len(t) THEN NULL ELSE t[i + 1]
             /\ n.prev[t[i]] = IF i = 1 THEN NULL ELSE t[i - 1]
  <2> DEFINE j == IF i < k THEN i ELSE i + 1
  <2>1. j \in 1 .. Len(s) /\ t[i] = s[j] /\ j # k /\ s[j] \in Elements /\ s[j] # e
    BY <1>t, <1>s DEF e
  <2>2. /\ m.list[s[j]] = l
        /\ m.next[s[j]] = IF j = Len(s) THEN NULL ELSE s[j + 1]
        /\ m.prev[s[j]] = IF j = 1 THEN NULL ELSE s[j - 1]
    BY <2>1 DEF Represents
  <2>3. (s[j] = m.prev[e] <=> j + 1 = k) /\ (s[j] = m.next[e] <=> j = k + 1)
    BY <2>1, <1>m, <1>s, ListAssumption
  <2>4. n.list[t[i]] = l
    BY <2>1, <2>2, <1>n
  <2>5. n.next[t[i]] = IF i = Len(t) THEN NULL ELSE t[i + 1]
    <3>1. n.next[s[j]] = IF j + 1 = k THEN (IF k = Len(s) THEN NULL ELSE s[k + 1])
                         ELSE m.next[s[j]]
      BY <2>1, <2>3, <1>n, <1>m
    <3> QED BY <3>1, <2>1, <2>2, <1>t, <1>s
  <2>6. n.prev[t[i]] = IF i = 1 THEN NULL ELSE t[i - 1]
    <3>1. n.prev[s[j]] = IF j = k + 1 THEN (IF k = 1 THEN NULL ELSE s[k - 1])
                         ELSE m.prev[s[j]]
      BY <2>1, <2>3, <1>n, <1>m
    <3> QED BY <3>1, <2>1, <2>2, <1>t, <1>s
  <2> QED BY <2>4, <2>5, <2>6
<1>5. \A i, j \in 1 .. Len(t) : t[i] = t[j] => i = j
  BY <1>t, <1>s
<1>6. ASSUME NEW x \in Elements, n.list[x] = l
      PROVE  \E i \in 1 .. Len(t) : t[i] = x
  <2>1. x # e /\ m.list[x] = l
    BY <1>6, <1>n, ListAssumption
  <2>2. PICK j \in 1 .. Len(s) : s[j] = x
    BY <2>1 DEF Represents
  <2>3. j # k
    BY <2>1, <2>2 DEF e
  <2>4. CASE j < k
    BY <2>4, <2>2, <1>t, <1>s
  <2>5. CASE j > k
    <3>1. j - 1 \in 1 .. Len(t) /\ t[j - 1] = x
      BY <2>5, <2>2, <1>t, <1>s
    <3> QED BY <3>1
  <2> QED BY <2>3, <2>4, <2>5, <1>s
<1>7. Represents(n, l, t)
  BY <1>1, <1>2, <1>3, <1>4, <1>5, <1>6, <1>t DEF Represents
<1> QED BY <1>7 DEF e, n, t, Without

\* Taking the first element with saftest_list_dequeue, as saftest_list_delete does,
\* is removing it.
THEOREM DequeueRemovesFirst ==
    ASSUME NEW m \in Memories, NEW l \in Lists, NEW s, Represents(m, l, s), s # <<>>
    PROVE  Dequeue(m, l) = Remove(m, l, s[1])
<1> DEFINE e == s[1]
<1>s. /\ s \in Seq(Elements) /\ Len(s) \in Nat \ {0} /\ e \in Elements /\ e # NULL
      /\ 1 \in 1 .. Len(s) /\ Len(s) \in 1 .. Len(s)
  BY ListAssumption DEF Represents
<1>1. /\ s \in Seq(Elements) /\ Len(s) \in Nat \ {0} /\ e \in Elements
      /\ m.head[l] = e /\ m.prev[e] = NULL /\ e # NULL
      /\ m.next[e] = IF Len(s) = 1 THEN NULL ELSE s[2]
      /\ m.tail[l] = e <=> Len(s) = 1
  <2>1. m.head[l] = e /\ m.tail[l] = s[Len(s)]
    BY DEF Represents
  <2>2. m.prev[e] = NULL /\ m.next[e] = IF Len(s) = 1 THEN NULL ELSE s[2]
    <3>1. \A i \in 1 .. Len(s) : /\ m.next[s[i]] = IF i = Len(s) THEN NULL ELSE s[i + 1]
                                 /\ m.prev[s[i]] = IF i = 1 THEN NULL ELSE s[i - 1]
      BY DEF Represents
    <3>2. /\ m.next[s[1]] = IF 1 = Len(s) THEN NULL ELSE s[1 + 1]
          /\ m.prev[s[1]] = IF 1 = 1 THEN NULL ELSE s[1 - 1]
      BY <3>1, <1>s
    <3> QED BY <3>2
  <2>3. s[Len(s)] = e <=> Len(s) = 1
    BY <1>s DEF Represents
  <2> QED BY <1>s, <2>1, <2>2, <2>3
<1>2. Dequeue(m, l).head = Remove(m, l, e).head
  BY <1>1 DEF Dequeue, Remove
<1>3. Dequeue(m, l).tail = Remove(m, l, e).tail
  BY <1>1 DEF Dequeue, Remove
<1>4. Dequeue(m, l).next = Remove(m, l, e).next
  <2>1. Dequeue(m, l).next = [m.next EXCEPT ![e] = NULL]
    BY <1>1 DEF Dequeue
  <2>2. Remove(m, l, e).next = [x \in Elements |-> IF x = e THEN NULL ELSE m.next[x]]
    BY <1>1, ListAssumption DEF Remove
  <2>3. m.next \in [Elements -> Elements \cup {NULL}]
    BY DEF Memories
  <2> QED BY <2>1, <2>2, <2>3
<1>5. Dequeue(m, l).prev = Remove(m, l, e).prev
  <2>1. Dequeue(m, l).prev = [x \in Elements |-> IF x = e \/ x = m.next[e] THEN NULL
                                                 ELSE m.prev[x]]
    BY <1>1, ListAssumption DEF Dequeue
  <2>2. Remove(m, l, e).prev = [x \in Elements |-> IF x = e \/ x = m.next[e] THEN NULL
                                                   ELSE m.prev[x]]
    BY <1>1 DEF Remove
  <2> QED BY <2>1, <2>2
<1>6. /\ Dequeue(m, l).count = Remove(m, l, e).count
      /\ Dequeue(m, l).list = Remove(m, l, e).list
  BY <1>1 DEF Dequeue, Remove
<1> QED BY <1>1, <1>2, <1>3, <1>4, <1>5, <1>6 DEF Dequeue, Remove

\* saftest_list_insert puts the element after the mark, or first; it is not used to
\* append, but can.
THEOREM InsertPutsAfter ==
    ASSUME NEW m \in Memories, NEW l \in Lists, NEW s, Represents(m, l, s),
           NEW k \in 0 .. Len(s), NEW e \in Elements, m.list[e] = NULL
    PROVE  Represents(Insert(m, l, IF k = 0 THEN NULL ELSE s[k], e), l,
                      [i \in 1 .. Len(s) + 1 |-> IF i <= k THEN s[i]
                                                 ELSE IF i = k + 1 THEN e ELSE s[i - 1]])
<1> DEFINE mark == IF k = 0 THEN NULL ELSE s[k]
           after == IF k = Len(s) THEN NULL ELSE s[k + 1]
           n == Insert(m, l, mark, e)
           t == [i \in 1 .. Len(s) + 1 |-> IF i <= k THEN s[i]
                                           ELSE IF i = k + 1 THEN e ELSE s[i - 1]]
<1>s. /\ s \in Seq(Elements) /\ Len(s) \in Nat /\ k \in Nat
      /\ \A i \in 1 .. Len(s) : s[i] \in Elements /\ s[i] # e
      /\ \A i, j \in 1 .. Len(s) : s[i] = s[j] => i = j
  BY ListAssumption DEF Represents
<1>m. /\ m.head[l] = IF Len(s) = 0 THEN NULL ELSE s[1]
      /\ m.tail[l] = IF Len(s) = 0 THEN NULL ELSE s[Len(s)]
      /\ m.count[l] = Len(s)
      /\ k # 0 => m.next[mark] = after
      /\ k = 0 => m.head[l] = after
      /\ m.tail[l] = mark <=> k = Len(s)
  BY <1>s, ListAssumption DEF Represents
<1>n. /\ n.head[l] = IF k = 0 THEN e ELSE s[1]
      /\ n.tail[l] = IF k = Len(s) THEN e ELSE s[Len(s)]
      /\ n.count[l] = Len(s) + 1
      /\ \A x \in Elements : n.next[x] = IF x = e THEN after
                                         ELSE IF x = mark THEN e ELSE m.next[x]
      /\ \A x \in Elements : n.prev[x] = IF x = e THEN mark
                                         ELSE IF x = after THEN e ELSE m.prev[x]
      /\ \A x \in Elements : n.list[x] = IF x = e THEN l ELSE m.list[x]
  <2>1. (mark = NULL <=> k = 0) /\ after = IF mark = NULL THEN m.head[l] ELSE m.next[mark]
    BY <1>s, <1>m, ListAssumption
  <2> HIDE DEF mark, after
  <2> QED BY <2>1, <1>s, <1>m DEF n, Insert, Memories
<1>t. /\ t \in Seq(Elements) /\ Len(t) = Len(s) + 1 /\ t # <<>>
      /\ \A i \in 1 .. Len(t) : t[i] = IF i <= k THEN s[i]
                                       ELSE IF i = k + 1 THEN e ELSE s[i - 1]
  <2>1. t \in [1 .. Len(s) + 1 -> Elements] /\ Len(s) + 1 \in Nat
    BY <1>s
  <2>2. \A i \in 1 .. Len(s) + 1 : t[i] = IF i <= k THEN s[i]
                                          ELSE IF i = k + 1 THEN e ELSE s[i - 1]
    OBVIOUS
  <2> HIDE DEF t
  <2>3. t \in Seq(Elements) /\ Len(t) = Len(s) + 1 /\ (t = <<>> <=> Len(s) + 1 = 0)
    BY <2>1, FunctionIsSequence
  <2> QED BY <2>2, <2>3, <1>s
<1> HIDE DEF n, t
<1>1. n.count[l] = Len(t) /\ n.head[l] = t[1] /\ n.tail[l] = t[Len(t)]
  BY <1>n, <1>t, <1>s
<1>2. ASSUME NEW i \in 1 .. Len(t)
      PROVE  /\ n.list[t[i]] = l
             /\ n.next[t[i]] = IF i = Len(t) THEN NULL ELSE t[i + 1]
             /\ n.prev[t[i]] = IF i = 1 THEN NULL ELSE t[i - 1]
  <2>1. CASE i = k + 1
    <3>1. t[i] = e /\ i - 1 = k
      BY <2>1, <1>t, <1>s
    <3>2. n.list[t[i]] = l /\ n.next[t[i]] = after /\ n.prev[t[i]] = mark
      <4> HIDE DEF mark, after
      <4> QED BY <3>1, <1>n
    <3>3. after = IF i = Len(t) THEN NULL ELSE t[i + 1]
      <4>1. CASE k = Len(s)
        BY <2>1, <4>1, <1>t, <1>s
      <4>2. CASE k # Len(s)
        <5>1. i + 1 \in 1 .. Len(t) /\ ~(i + 1 <= k) /\ i + 1 # k + 1 /\ (i + 1) - 1 = k + 1
          BY <2>1, <4>2, <1>t, <1>s
        <5>2. t[i + 1] = s[k + 1] /\ i # Len(t)
          BY <2>1, <4>2, <5>1, <1>t, <1>s
        <5> QED BY <4>2, <5>2
      <4> QED BY <4>1, <4>2
    <3>4. mark = IF i = 1 THEN NULL ELSE t[i - 1]
      <4>1. CASE k = 0
        BY <2>1, <4>1
      <4>2. CASE k # 0
        <5>1. i # 1 /\ k \in 1 .. Len(t) /\ k <= k
          BY <2>1, <4>2, <1>t, <1>s
        <5>2. t[k] = s[k]
          BY <5>1, <1>t
        <5> QED BY <3>1, <4>2, <5>1, <5>2
      <4> QED BY <4>1, <4>2
    <3> QED BY <3>2, <3>3, <3>4
  <2>2. CASE i # k + 1
    <3> DEFINE j == IF i <= k THEN i ELSE i - 1
    <3>1. j \in 1 .. Len(s) /\ t[i] = s[j] /\ s[j] \in Elements /\ s[j] # e
      BY <2>2, <1>t, <1>s
    <3>2. /\ m.list[s[j]] = l
          /\ m.next[s[j]] = IF j = Len(s) THEN NULL ELSE s[j + 1]
          /\ m.prev[s[j]] = IF j = 1 THEN NULL ELSE s[j - 1]
      BY <3>1 DEF Represents
    <3>3. (s[j] = mark <=> j = k) /\ (s[j] = after <=> j = k + 1)
      BY <3>1, <1>s, ListAssumption
    <3> HIDE DEF mark, after
    <3>4. /\ n.list[t[i]] = l
          /\ n.next[t[i]] = IF j = k THEN e ELSE m.next[s[j]]
          /\ n.prev[t[i]] = IF j = k + 1 THEN e ELSE m.prev[s[j]]
      BY <3>1, <3>2, <3>3, <1>n
    <3>5. n.next[t[i]] = IF i = Len(t) THEN NULL ELSE t[i + 1]
      <4>1. CASE i <= k
        <5>1. i + 1 \in 1 .. Len(t) /\ i # Len(t) /\ j = i
          BY <4>1, <1>t, <1>s
        <5>2. t[i + 1] = IF i = k THEN e ELSE s[i + 1]
          BY <4>1, <5>1, <1>t, <1>s
        <5>3. i # k => i # Len(s)
          BY <4>1, <1>s
        <5> QED BY <5>1, <5>2, <5>3, <3>2, <3>4
      <4>2. CASE i > k + 1
        <5>1. j = i - 1 /\ j # k /\ (j = Len(s) <=> i = Len(t)) /\ j + 1 = i
          BY <4>2, <1>t, <1>s
        <5>2. i # Len(t) => t[i + 1] = s[i]
          BY <4>2, <1>t, <1>s
        <5> QED BY <5>1, <5>2, <3>2, <3>4
      <4> QED BY <4>1, <4>2, <2>2, <1>s, <1>t
    <3>6. n.prev[t[i]] = IF i = 1 THEN NULL ELSE t[i - 1]
      BY <3>1, <3>2, <3>4, <2>2, <1>t, <1>s
    <3> QED BY <3>4, <3>5, <3>6
  <2> QED BY <2>1, <2>2
<1>3. ASSUME NEW i \in 1 .. Len(t), NEW j \in 1 .. Len(t), t[i] = t[j]
      PROVE  i = j
  <2>0. ASSUME NEW x \in 1 .. Len(t), x # k + 1
        PROVE  t[x] # e
    <3>1. CASE x <= k
      <4>1. x \in 1 .. Len(s)
        BY <3>1, <1>t, <1>s
      <4> QED BY <3>1, <4>1, <1>t, <1>s
    <3>2. CASE ~(x <= k)
      <4>1. x - 1 \in 1 .. Len(s)
        BY <2>0, <3>2, <1>t, <1>s
      <4>2. t[x] = s[x - 1]
        BY <2>0, <3>2, <1>t
      <4> QED BY <4>1, <4>2, <1>s
    <3> QED BY <3>1, <3>2
  <2>1. CASE i = k + 1 \/ j = k + 1
    <3>1. k + 1 \in 1 .. Len(t) /\ t[k + 1] = e
      BY <1>t, <1>s
    <3> QED BY <2>0, <2>1, <3>1, <1>3
  <2>2. CASE i # k + 1 /\ j # k + 1
    <3> DEFINE a == IF i <= k THEN i ELSE i - 1
               b == IF j <= k THEN j ELSE j - 1
    <3>1. a \in 1 .. Len(s) /\ t[i] = s[a] /\ b \in 1 .. Len(s) /\ t[j] = s[b]
      BY <2>2, <1>t, <1>s
    <3>2. a = b
      BY <3>1, <1>3, <1>s
    <3>3. i \in Nat /\ j \in Nat /\ k \in Nat
      BY <1>s, <1>t
    <3> QED BY <3>2, <3>3, <2>2
  <2> QED BY <2>1, <2>2
<1>4. ASSUME NEW x \in Elements, n.list[x] = l
      PROVE  \E i \in 1 .. Len(t) : t[i] = x
  <2>1. CASE x = e
    <3>1. k + 1 \in 1 .. Len(t) /\ t[k + 1] = e
      BY <1>t, <1>s
    <3> QED BY <3>1, <2>1
  <2>2. CASE x # e
    <3>1. PICK j \in 1 .. Len(s) : s[j] = x
      BY <2>2, <1>4, <1>n DEF Represents
    <3>2. CASE j <= k
      BY <3>1, <3>2, <1>t, <1>s
    <3>3. CASE j > k
      <4>1. j + 1 \in 1 .. Len(t) /\ t[j + 1] = x
        BY <3>1, <3>3, <1>t, <1>s
      <4> QED BY <4>1
    <3> QED BY <3>2, <3>3, <1>s
  <2> QED BY <2>1, <2>2
<1>5. Represents(n, l, t)
  BY <1>1, <1>2, <1>3, <1>4, <1>t DEF Represents
<1> QED BY <1>5 DEF n, t

\* A memory that has not changed where list l is represents what it did.
LEMMA OthersAreKept ==
    ASSUME NEW m, NEW n, NEW l \in Lists, NEW s, Represents(m, l, s),
           n.head[l] = m.head[l], n.tail[l] = m.tail[l], n.count[l] = m.count[l],
           \A x \in Elements : m.list[x] = l => /\ n.list[x] = l
                                                /\ n.next[x] = m.next[x]
                                                /\ n.prev[x] = m.prev[x],
           \A x \in Elements : n.list[x] = l => m.list[x] = l
    PROVE  Represents(n, l, s)
<1>1. s \in Seq(Elements) /\ \A i \in 1 .. Len(s) : s[i] \in Elements
  BY DEF Represents
<1>2. \A i \in 1 .. Len(s) : /\ m.list[s[i]] = l
                             /\ m.next[s[i]] = IF i = Len(s) THEN NULL ELSE s[i + 1]
                             /\ m.prev[s[i]] = IF i = 1 THEN NULL ELSE s[i - 1]
  BY DEF Represents
<1>3. \A i \in 1 .. Len(s) : /\ n.list[s[i]] = l
                             /\ n.next[s[i]] = IF i = Len(s) THEN NULL ELSE s[i + 1]
                             /\ n.prev[s[i]] = IF i = 1 THEN NULL ELSE s[i - 1]
  BY <1>1, <1>2
<1>4. /\ n.count[l] = Len(s)
      /\ n.head[l] = IF s = <<>> THEN NULL ELSE s[1]
      /\ n.tail[l] = IF s = <<>> THEN NULL ELSE s[Len(s)]
      /\ \A i, j \in 1 .. Len(s) : s[i] = s[j] => i = j
  BY DEF Represents
<1>5. \A e \in Elements : n.list[e] = l => \E i \in 1 .. Len(s) : s[i] = e
  BY DEF Represents
<1> QED BY <1>1, <1>3, <1>4, <1>5 DEF Represents

\* What an operation does to one list leaves every other list as it is.
THEOREM OtherListsAreKept ==
    ASSUME NEW m \in Memories, NEW l \in Lists, NEW s, Represents(m, l, s),
           NEW k \in Lists, k # l, NEW r, Represents(m, k, r), NEW e \in Elements
    PROVE  /\ m.list[e] = NULL => Represents(Enqueue(m, l, e), k, r)
           /\ m.list[e] = l => Represents(Remove(m, l, e), k, r)
           /\ m.list[e] = NULL =>
                \A mark \in {NULL} \cup {x \in Elements : m.list[x] = l} :
                    Represents(Insert(m, l, mark, e), k, r)
<1>s. /\ s \in Seq(Elements) /\ Len(s) \in Nat
      /\ \A i \in 1 .. Len(s) : s[i] \in Elements
      /\ \A x \in Elements : m.list[x] = l => \E i \in 1 .. Len(s) : s[i] = x
  BY DEF Represents
<1>1. m.head[l] \in Elements => m.list[m.head[l]] = l
  BY <1>s, ListAssumption DEF Represents
<1>2. m.tail[l] \in Elements => m.list[m.tail[l]] = l
  BY <1>s, ListAssumption DEF Represents
<1>3. ASSUME NEW x \in Elements, m.list[x] = l
      PROVE  /\ m.next[x] \in Elements => m.list[m.next[x]] = l
             /\ m.prev[x] \in Elements => m.list[m.prev[x]] = l
  <2>1. PICK i \in 1 .. Len(s) : s[i] = x
    BY <1>3, <1>s
  <2>2. m.next[x] = IF i = Len(s) THEN NULL ELSE s[i + 1]
    BY <2>1 DEF Represents
  <2>3. m.prev[x] = IF i = 1 THEN NULL ELSE s[i - 1]
    BY <2>1 DEF Represents
  <2>4. i # Len(s) => m.list[s[i + 1]] = l
    BY <2>1, <1>s DEF Represents
  <2>5. i # 1 => m.list[s[i - 1]] = l
    BY <2>1, <1>s DEF Represents
  <2> QED BY <2>2, <2>3, <2>4, <2>5, ListAssumption
<1>4. ASSUME m.list[e] = NULL PROVE Represents(Enqueue(m, l, e), k, r)
  <2> DEFINE n == Enqueue(m, l, e)
  <2>1. /\ n.head[k] = m.head[k] /\ n.tail[k] = m.tail[k] /\ n.count[k] = m.count[k]
        /\ \A x \in Elements : m.list[x] = k =>
            n.list[x] = k /\ n.next[x] = m.next[x] /\ n.prev[x] = m.prev[x]
        /\ \A x \in Elements : n.list[x] = k => m.list[x] = k
    BY <1>2, <1>4, ListAssumption DEF Enqueue, Memories
  <2> HIDE DEF n
  <2>2. Represents(n, k, r)
    BY <2>1, OthersAreKept
  <2> QED BY <2>2 DEF n
<1>5. ASSUME m.list[e] = l PROVE Represents(Remove(m, l, e), k, r)
  <2> DEFINE n == Remove(m, l, e)
  <2>1. /\ n.head[k] = m.head[k] /\ n.tail[k] = m.tail[k] /\ n.count[k] = m.count[k]
        /\ \A x \in Elements : m.list[x] = k =>
            n.list[x] = k /\ n.next[x] = m.next[x] /\ n.prev[x] = m.prev[x]
        /\ \A x \in Elements : n.list[x] = k => m.list[x] = k
    BY <1>3, <1>5, ListAssumption DEF Remove, Memories
  <2> HIDE DEF n
  <2>2. Represents(n, k, r)
    BY <2>1, OthersAreKept
  <2> QED BY <2>2 DEF n
<1>6. ASSUME m.list[e] = NULL, NEW mark \in {NULL} \cup {x \in Elements : m.list[x] = l}
      PROVE  Represents(Insert(m, l, mark, e), k, r)
  <2> DEFINE n == Insert(m, l, mark, e)
  <2>1. /\ n.head[k] = m.head[k] /\ n.tail[k] = m.tail[k] /\ n.count[k] = m.count[k]
        /\ \A x \in Elements : m.list[x] = k =>
            n.list[x] = k /\ n.next[x] = m.next[x] /\ n.prev[x] = m.prev[x]
        /\ \A x \in Elements : n.list[x] = k => m.list[x] = k
    <3>1. CASE mark = NULL
      BY <3>1, <1>1, <1>6, ListAssumption DEF Insert, Memories
    <3>2. CASE mark \in Elements /\ m.list[mark] = l
      BY <3>2, <1>3, <1>6, ListAssumption DEF Insert, Memories
    <3> QED BY <3>1, <3>2
  <2> HIDE DEF n
  <2>2. Represents(n, k, r)
    BY <2>1, OthersAreKept
  <2> QED BY <2>2 DEF n
<1> QED BY <1>4, <1>5, <1>6

\* The operations the daemon uses map memories to memories.
LEMMA EnqueueInMemories ==
    ASSUME NEW m \in Memories, NEW l \in Lists, NEW e \in Elements
    PROVE  Enqueue(m, l, e) \in Memories
BY DEF Memories, Enqueue

LEMMA RemoveInMemories ==
    ASSUME NEW m \in Memories, NEW l \in Lists, NEW e \in Elements, m.count[l] # 0
    PROVE  Remove(m, l, e) \in Memories
BY DEF Memories, Remove

\* Taking one element out of a sequence.
LEMMA WithoutElement ==
    ASSUME NEW s \in Seq(Elements), NEW k \in 1 .. Len(s)
    PROVE  /\ Without(s, k) \in Seq(Elements) /\ Len(Without(s, k)) = Len(s) - 1
           /\ \A i \in 1 .. Len(s) - 1 :
                 Without(s, k)[i] = s[IF i < k THEN i ELSE i + 1]
           /\ \A j \in 1 .. Len(s) : j # k =>
                 \E i \in 1 .. Len(s) - 1 : Without(s, k)[i] = s[j]
<1> DEFINE w == Without(s, k)
<1>1. w \in [1 .. Len(s) - 1 -> Elements] /\ Len(s) - 1 \in Nat
  BY DEF Without
<1>2. w \in Seq(Elements) /\ Len(w) = Len(s) - 1
  <2> HIDE DEF w
  <2> QED BY <1>1, FunctionIsSequence
<1>3. \A i \in 1 .. Len(s) - 1 : w[i] = s[IF i < k THEN i ELSE i + 1]
  BY DEF Without
<1> HIDE DEF w
<1>4. ASSUME NEW j \in 1 .. Len(s), j # k
      PROVE  \E i \in 1 .. Len(s) - 1 : w[i] = s[j]
  <2>1. CASE j < k
    <3>1. j \in 1 .. Len(s) - 1 /\ w[j] = s[j]
      BY <1>3, <2>1
    <3> QED BY <3>1
  <2>2. CASE ~(j < k)
    <3>1. j - 1 \in 1 .. Len(s) - 1 /\ ~(j - 1 < k) /\ (j - 1) + 1 = j
      BY <1>4, <2>2
    <3>2. w[j - 1] = s[j]
      BY <1>3, <3>1
    <3> QED BY <3>1, <3>2
  <2> QED BY <2>1, <2>2
<1> QED BY <1>2, <1>3, <1>4 DEF w

-----------------------------------------------------------------------------
\* The walks over a list, by induction on the number of elements visited.

\* Induction up to a number, on the set of the numbers a fact holds of.
LEMMA UpTo ==
    ASSUME NEW n \in Nat, NEW T, 0 \in T, \A m \in 0 .. n : m < n /\ m \in T => m + 1 \in T
    PROVE  \A m \in 0 .. n : m \in T
<1> DEFINE Left == {m \in 0 .. n : m \notin T}
           R    == {p \in Nat \X Nat : p[1] < p[2]}
<1> SUFFICES ASSUME Left # {} PROVE FALSE
  OBVIOUS
<1>1. R = OpToRel(<, Nat)
  BY DEF OpToRel
<1>2. IsWellFoundedOn(R, Nat)
  BY <1>1, NatLessThanWellFounded
<1> Left \subseteq Nat
  OBVIOUS
<1>3. PICK m \in Left : \A k \in Left : ~(<<k, m>> \in R)
  BY <1>2, WFMin
<1>4. m \in Nat /\ m # 0 /\ m - 1 \in 0 .. n /\ m - 1 \in Nat /\ <<m - 1, m>> \in R
  OBVIOUS
<1>5. m - 1 \notin Left
  BY <1>3, <1>4
<1>6. (m - 1) + 1 \in T
  BY <1>4, <1>5
<1> QED BY <1>4, <1>6

\* A function that takes its value from the one before is there.
Steps(x, g, c, f) == f = [n \in 0 .. c |-> IF n = 0 THEN x ELSE g[n][f[n - 1]]]

LEMMA StepsExist ==
    ASSUME NEW D, NEW x \in D, NEW c \in Nat, NEW g \in [1 .. c -> [D -> D]]
    PROVE  \E f \in [0 .. c -> D] : Steps(x, g, c, f)
<1> DEFINE T == {n \in 0 .. c : \E f \in [0 .. n -> D] : Steps(x, g, n, f)}
<1>1. 0 \in T
  <2> DEFINE f == [n \in 0 .. 0 |-> x]
  <2>1. f \in [0 .. 0 -> D] /\ f = [n \in 0 .. 0 |-> IF n = 0 THEN x ELSE g[n][f[n - 1]]]
    OBVIOUS
  <2> HIDE DEF f
  <2>2. Steps(x, g, 0, f)
    BY <2>1 DEF Steps
  <2> QED BY <2>1, <2>2
<1>2. ASSUME NEW n \in 0 .. c, n < c, n \in T PROVE n + 1 \in T
  <2>1. PICK f \in [0 .. n -> D] : Steps(x, g, n, f)
    BY <1>2
  <2>2. PICK y \in D : y = g[n + 1][f[n]]
    <3>1. n + 1 \in 1 .. c /\ f[n] \in D
      BY <1>2
    <3>2. g[n + 1] \in [D -> D]
      BY <3>1
    <3> QED BY <3>1, <3>2
  <2> DEFINE h == [i \in 0 .. n + 1 |-> IF i = n + 1 THEN y ELSE f[i]]
  <2>3. h \in [0 .. n + 1 -> D] /\ h[n + 1] = y /\ \A i \in 0 .. n : h[i] = f[i] /\ i # n + 1
    <3>1. \A i \in 0 .. n + 1 : i = n + 1 \/ i \in 0 .. n
      BY <1>2
    <3>2. \A i \in 0 .. n : i \in 0 .. n + 1 /\ i # n + 1
      BY <1>2
    <3>3. n + 1 \in 0 .. n + 1
      BY <1>2
    <3> QED BY <3>1, <3>2, <3>3
  <2> HIDE DEF h
  <2>4. ASSUME NEW i \in 0 .. n + 1 PROVE h[i] = IF i = 0 THEN x ELSE g[i][h[i - 1]]
    <3>1. CASE i = n + 1
      <4>1. i # 0 /\ i - 1 = n /\ n \in 0 .. n
        BY <1>2, <3>1
      <4> QED BY <2>2, <2>3, <3>1, <4>1
    <3>2. CASE i # n + 1
      <4>1. i \in 0 .. n /\ (i # 0 => i - 1 \in 0 .. n)
        BY <1>2, <3>2
      <4>2. f[i] = IF i = 0 THEN x ELSE g[i][f[i - 1]]
        BY <2>1, <4>1 DEF Steps
      <4> QED BY <2>3, <4>1, <4>2
    <3> QED BY <3>1, <3>2
  <2>5. Steps(x, g, n + 1, h)
    BY <2>3, <2>4 DEF Steps
  <2>6. n + 1 \in 0 .. c
    BY <1>2
  <2> QED BY <2>3, <2>5, <2>6
<1> HIDE DEF T
<1>3. \A n \in 0 .. c : n \in T
  BY <1>1, <1>2, UpTo
<1>4. c \in T
  BY <1>3
<1> QED BY <1>4 DEF T

\* The functions the walks are defined by.
FindWalk(m, l, S, f) ==
    f = [n \in 0 .. m.count[l] |->
            IF n = 0 THEN m.head[l]
            ELSE IF f[n - 1] = NULL \/ f[n - 1] \in S THEN f[n - 1] ELSE m.next[f[n - 1]]]
EmptyWalk(m, l, f) == f = [n \in 0 .. m.count[l] |-> IF n = 0 THEN m ELSE Dequeue(f[n - 1], l)]
DeleteWalk(m, l, S, f) ==
    f = [n \in 0 .. m.count[l] |->
            IF n = 0 THEN [m |-> m, e |-> m.head[l]]
            ELSE [m |-> IF f[n - 1].e # NULL /\ f[n - 1].e \in S
                        THEN Remove(f[n - 1].m, l, f[n - 1].e) ELSE f[n - 1].m,
                  e |-> IF f[n - 1].e = NULL THEN NULL ELSE f[n - 1].m.next[f[n - 1].e]]]
RestWalk(s, S, f) ==
    f = [n \in 0 .. Len(s) |->
            IF n = 0 THEN <<>>
            ELSE IF s[n] \in S THEN f[n - 1] ELSE Append(f[n - 1], s[n])]

\* Memories in which a count may be anything.
Wide == [head  : [Lists -> Elements \cup {NULL}],
         tail  : [Lists -> Elements \cup {NULL}],
         count : [Lists -> Int],
         next  : [Elements -> Elements \cup {NULL}],
         prev  : [Elements -> Elements \cup {NULL}],
         list  : [Elements -> Lists \cup {NULL}]]

LEMMA StaysWide ==
    ASSUME NEW m \in Wide, NEW l \in Lists
    PROVE  /\ Dequeue(m, l) \in Wide
           /\ \A e \in Elements : Remove(m, l, e) \in Wide
<1>1. Dequeue(m, l) \in Wide
  BY DEF Wide, Dequeue
<1>2. ASSUME NEW e \in Elements PROVE Remove(m, l, e) \in Wide
  BY DEF Wide, Remove
<1> QED BY <1>1, <1>2

LEMMA FindIs ==
    ASSUME NEW m \in Memories, NEW l \in Lists, NEW S
    PROVE  \E f : FindWalk(m, l, S, f) /\ Find(m, l, S, NULL) = f[m.count[l]]
<1> DEFINE D == Elements \cup {NULL}
           c == m.count[l]
           g == [n \in 1 .. c |-> [e \in D |-> IF e = NULL \/ e \in S THEN e ELSE m.next[e]]]
<1>1. c \in Nat /\ m.head[l] \in D /\ g \in [1 .. c -> [D -> D]]
  BY DEF Memories
<1>2. PICK f \in [0 .. c -> D] : Steps(m.head[l], g, c, f)
  <2> HIDE DEF D, c, g
  <2> QED BY <1>1, StepsExist
<1>3. ASSUME NEW n \in 0 .. c, n # 0
      PROVE  g[n][f[n - 1]] = IF f[n - 1] = NULL \/ f[n - 1] \in S THEN f[n - 1] ELSE m.next[f[n - 1]]
  <2>1. n \in 1 .. c /\ n - 1 \in 0 .. c
    BY <1>1, <1>3
  <2>2. f[n - 1] \in D
    BY <1>2, <2>1
  <2> QED BY <2>1, <2>2
<1>4. FindWalk(m, l, S, f)
  <2> HIDE DEF g
  <2> QED BY <1>2, <1>3 DEF Steps, FindWalk
<1>5. Find(m, l, S, NULL) = (CHOOSE h : FindWalk(m, l, S, h))[m.count[l]]
  BY DEF Find, FindWalk
<1> QED BY <1>4, <1>5

LEMMA EmptiedIs ==
    ASSUME NEW m \in Memories, NEW l \in Lists
    PROVE  \E f : EmptyWalk(m, l, f) /\ Emptied(m, l) = f[m.count[l]]
<1> DEFINE c == m.count[l]
           g == [n \in 1 .. c |-> [q \in Wide |-> Dequeue(q, l)]]
<1>1. c \in Nat /\ m \in Wide
  BY DEF Memories, Wide
<1>2. g \in [1 .. c -> [Wide -> Wide]]
  BY StaysWide
<1>3. PICK f \in [0 .. c -> Wide] : Steps(m, g, c, f)
  <2> HIDE DEF c, g
  <2> QED BY <1>1, <1>2, StepsExist
<1>4. ASSUME NEW n \in 0 .. c, n # 0 PROVE g[n][f[n - 1]] = Dequeue(f[n - 1], l)
  <2>1. n \in 1 .. c /\ n - 1 \in 0 .. c
    BY <1>1, <1>4
  <2>2. f[n - 1] \in Wide
    BY <1>3, <2>1
  <2> QED BY <2>1, <2>2
<1>5. EmptyWalk(m, l, f)
  <2> HIDE DEF g
  <2> QED BY <1>3, <1>4 DEF Steps, EmptyWalk
<1>6. Emptied(m, l) = (CHOOSE h : EmptyWalk(m, l, h))[m.count[l]]
  BY DEF Emptied, EmptyWalk
<1> QED BY <1>5, <1>6

LEMMA DeleteIfIs ==
    ASSUME NEW m \in Memories, NEW l \in Lists, NEW S
    PROVE  \E f : DeleteWalk(m, l, S, f) /\ DeleteIf(m, l, S) = f[m.count[l]].m
<1> DEFINE D == [m : Wide, e : Elements \cup {NULL}]
           c == m.count[l]
           after(w) == [m |-> IF w.e # NULL /\ w.e \in S THEN Remove(w.m, l, w.e) ELSE w.m,
                        e |-> IF w.e = NULL THEN NULL ELSE w.m.next[w.e]]
           g == [n \in 1 .. c |-> [w \in D |-> after(w)]]
           first == [m |-> m, e |-> m.head[l]]
<1>1. c \in Nat /\ m \in Wide /\ first \in D
  BY DEF Memories, Wide
<1>2. ASSUME NEW w \in D PROVE after(w) \in D
  <2>1. w.m \in Wide /\ w.e \in Elements \cup {NULL}
    OBVIOUS
  <2>2. w.e # NULL => w.m.next[w.e] \in Elements \cup {NULL} /\ Remove(w.m, l, w.e) \in Wide
    <3>1. w.m.next \in [Elements -> Elements \cup {NULL}]
      BY <2>1 DEF Wide
    <3> QED BY <2>1, <3>1, StaysWide
  <2> QED BY <2>1, <2>2
<1>3. g \in [1 .. c -> [D -> D]]
  <2> HIDE DEF D, after
  <2> QED BY <1>2
<1>4. PICK f \in [0 .. c -> D] : Steps(first, g, c, f)
  <2> HIDE DEF D, c, g, first
  <2> QED BY <1>1, <1>3, StepsExist
<1>5. ASSUME NEW n \in 0 .. c, n # 0 PROVE g[n][f[n - 1]] = after(f[n - 1])
  <2>1. n \in 1 .. c /\ n - 1 \in 0 .. c
    BY <1>1, <1>5
  <2>2. f[n - 1] \in D
    BY <1>4, <2>1
  <2> HIDE DEF D, after
  <2> QED BY <2>1, <2>2
<1>6. DeleteWalk(m, l, S, f)
  <2>1. f = [n \in 0 .. c |-> IF n = 0 THEN first ELSE after(f[n - 1])]
    <3> HIDE DEF g, D, after, first
    <3> QED BY <1>4, <1>5 DEF Steps
  <2> QED BY <2>1 DEF DeleteWalk
<1>7. DeleteIf(m, l, S) = (CHOOSE h : DeleteWalk(m, l, S, h))[m.count[l]].m
  BY DEF DeleteIf, DeleteWalk
<1> QED BY <1>6, <1>7

LEMMA RestIs ==
    ASSUME NEW s \in Seq(Elements), NEW S
    PROVE  \E f : RestWalk(s, S, f) /\ WithoutAll(s, S) = f[Len(s)]
<1> DEFINE D == Seq(Elements)
           c == Len(s)
           g == [n \in 1 .. c |-> [r \in D |-> IF s[n] \in S THEN r ELSE Append(r, s[n])]]
<1>1. c \in Nat /\ <<>> \in D /\ \A n \in 1 .. c : s[n] \in Elements
  OBVIOUS
<1>2. g \in [1 .. c -> [D -> D]]
  BY <1>1
<1>3. PICK f \in [0 .. c -> D] : Steps(<<>>, g, c, f)
  <2> HIDE DEF D, c, g
  <2> QED BY <1>1, <1>2, StepsExist
<1>4. ASSUME NEW n \in 0 .. c, n # 0
      PROVE  g[n][f[n - 1]] = IF s[n] \in S THEN f[n - 1] ELSE Append(f[n - 1], s[n])
  <2>1. n \in 1 .. c /\ n - 1 \in 0 .. c
    BY <1>1, <1>4
  <2>2. f[n - 1] \in D
    BY <1>3, <2>1
  <2> HIDE DEF D
  <2> QED BY <2>1, <2>2
<1>5. RestWalk(s, S, f)
  <2> HIDE DEF g
  <2> QED BY <1>3, <1>4 DEF Steps, RestWalk
<1>6. WithoutAll(s, S) = (CHOOSE h : RestWalk(s, S, h))[Len(s)]
  BY DEF WithoutAll, RestWalk
<1> QED BY <1>5, <1>6

\* A list taken apart: what Represents says of each element.
LEMMA ListSays ==
    ASSUME NEW m, NEW l, NEW s, Represents(m, l, s)
    PROVE  /\ s \in Seq(Elements) /\ Len(s) \in Nat /\ m.count[l] = Len(s)
           /\ m.head[l] = IF Len(s) = 0 THEN NULL ELSE s[1]
           /\ \A i \in 1 .. Len(s) : /\ s[i] \in Elements /\ s[i] # NULL
                                     /\ m.next[s[i]] = IF i = Len(s) THEN NULL ELSE s[i + 1]
<1>1. s \in Seq(Elements) /\ Len(s) \in Nat /\ (s = <<>> <=> Len(s) = 0)
  BY DEF Represents
<1> QED BY <1>1, ListAssumption DEF Represents

\* saftest_list_find returns the first element that passes the test.
THEOREM FindsFirst ==
    ASSUME NEW m \in Memories, NEW l \in Lists, NEW s, Represents(m, l, s), NEW S
    PROVE  IsFirst(Find(m, l, S, NULL), s, S)
<1> DEFINE c == Len(s)
           found(n, e) == \E i \in 1 .. n : /\ e = s[i] /\ s[i] \in S
                                            /\ \A j \in 1 .. i - 1 : s[j] \notin S
           none(n, e) == /\ \A j \in 1 .. n : s[j] \notin S
                         /\ e = IF n < c THEN s[n + 1] ELSE NULL
<1>1. /\ c \in Nat /\ m.count[l] = c /\ m.head[l] = (IF c = 0 THEN NULL ELSE s[1])
      /\ \A i \in 1 .. c : /\ s[i] # NULL
                           /\ m.next[s[i]] = IF i = c THEN NULL ELSE s[i + 1]
  BY ListSays
<1>2. PICK f : FindWalk(m, l, S, f) /\ Find(m, l, S, NULL) = f[c]
  BY <1>1, FindIs
<1>3. /\ f[0] = IF c = 0 THEN NULL ELSE s[1]
      /\ \A n \in 0 .. c : n # 0 =>
            f[n] = IF f[n - 1] = NULL \/ f[n - 1] \in S THEN f[n - 1] ELSE m.next[f[n - 1]]
  <2>1. f = [n \in 0 .. c |-> IF n = 0 THEN m.head[l]
                              ELSE IF f[n - 1] = NULL \/ f[n - 1] \in S THEN f[n - 1]
                              ELSE m.next[f[n - 1]]]
    BY <1>1, <1>2 DEF FindWalk
  <2>2. 0 \in 0 .. c
    BY <1>1
  <2> HIDE DEF c
  <2> QED BY <1>1, <2>1, <2>2
<1> DEFINE T == {n \in 0 .. c : found(n, f[n]) \/ none(n, f[n])}
<1>4. 0 \in T
  BY <1>1, <1>3
<1>5. ASSUME NEW n \in 0 .. c, n < c, n \in T PROVE n + 1 \in T
  <2>1. n + 1 \in 1 .. c /\ n + 1 \in 0 .. c /\ (n + 1) - 1 = n
    BY <1>1, <1>5
  <2>2. f[n + 1] = IF f[n] = NULL \/ f[n] \in S THEN f[n] ELSE m.next[f[n]]
    BY <1>3, <2>1
  <2>3. CASE found(n, f[n])
    <3>1. PICK i \in 1 .. n : f[n] = s[i] /\ s[i] \in S /\ \A j \in 1 .. i - 1 : s[j] \notin S
      BY <2>3
    <3>2. f[n + 1] = s[i] /\ i \in 1 .. n + 1
      BY <1>1, <1>5, <2>2, <3>1
    <3> QED BY <2>1, <3>1, <3>2
  <2>4. CASE none(n, f[n])
    <3>1. f[n] = s[n + 1] /\ f[n] # NULL /\ \A j \in 1 .. n : s[j] \notin S
      BY <1>1, <1>5, <2>1, <2>4
    <3>2. CASE s[n + 1] \in S
      <4>1. f[n + 1] = s[n + 1] /\ n + 1 \in 1 .. n + 1 /\ \A j \in 1 .. (n + 1) - 1 : s[j] \notin S
        BY <2>1, <2>2, <3>1, <3>2
      <4> QED BY <2>1, <3>2, <4>1
    <3>3. CASE s[n + 1] \notin S
      <4>1. f[n + 1] = IF n + 1 < c THEN s[(n + 1) + 1] ELSE NULL
        BY <1>1, <2>1, <2>2, <3>1, <3>3
      <4>2. \A j \in 1 .. n + 1 : s[j] \notin S
        <5>1. \A j \in 1 .. n + 1 : j \in 1 .. n \/ j = n + 1
          BY <2>1
        <5> QED BY <3>1, <3>3, <5>1
      <4> QED BY <2>1, <4>1, <4>2
    <3> QED BY <3>2, <3>3
  <2> QED BY <1>5, <2>3, <2>4
<1>6. c \in T
  <2> HIDE DEF T
  <2>1. \A n \in 0 .. c : n \in T
    BY <1>1, <1>4, <1>5, UpTo
  <2> QED BY <1>1, <2>1
<1>7. found(c, f[c]) \/ none(c, f[c])
  BY <1>6
<1> QED BY <1>1, <1>2, <1>7 DEF IsFirst

\* saftest_list_delete takes every element off the list.
THEOREM EmptiedIsEmpty ==
    ASSUME NEW m \in Memories, NEW l \in Lists, NEW s, Represents(m, l, s)
    PROVE  Represents(Emptied(m, l), l, <<>>)
<1> DEFINE c == Len(s)
<1>1. c \in Nat /\ m.count[l] = c
  BY ListSays
<1>2. PICK f : EmptyWalk(m, l, f) /\ Emptied(m, l) = f[c]
  BY <1>1, EmptiedIs
<1>3. f[0] = m /\ \A n \in 0 .. c : n # 0 => f[n] = Dequeue(f[n - 1], l)
  <2>1. f = [n \in 0 .. c |-> IF n = 0 THEN m ELSE Dequeue(f[n - 1], l)]
    BY <1>1, <1>2 DEF EmptyWalk
  <2>2. 0 \in 0 .. c
    BY <1>1
  <2> HIDE DEF c
  <2> QED BY <2>1, <2>2
<1> DEFINE left(n) == f[n] \in Memories /\ \E r : Represents(f[n], l, r) /\ Len(r) = c - n
           T == {n \in 0 .. c : left(n)}
<1>4. 0 \in T
  BY <1>1, <1>3
<1>5. ASSUME NEW n \in 0 .. c, n < c, n \in T PROVE n + 1 \in T
  <2>1. n + 1 \in 0 .. c /\ n + 1 # 0 /\ (n + 1) - 1 = n
    BY <1>1, <1>5
  <2>2. f[n + 1] = Dequeue(f[n], l)
    BY <1>3, <2>1
  <2>3. PICK r : Represents(f[n], l, r) /\ Len(r) = c - n
    BY <1>5
  <2>4. PICK q \in Memories : q = f[n]
    BY <1>5
  <2>5. /\ r \in Seq(Elements) /\ Len(r) \in Nat /\ Len(r) # 0 /\ 1 \in 1 .. Len(r)
        /\ q.count[l] = Len(r) /\ Represents(q, l, r) /\ r[1] \in Elements
    BY <1>1, <1>5, <2>3, <2>4, ListSays
  <2>6. r # <<>>
    BY <2>5
  <2>7. f[n + 1] = Remove(q, l, r[1])
    BY <2>2, <2>4, <2>5, <2>6, DequeueRemovesFirst
  <2>8. Represents(f[n + 1], l, Without(r, 1)) /\ f[n + 1] \in Memories
    BY <2>5, <2>7, RemoveTakesOut, RemoveInMemories
  <2>9. Len(Without(r, 1)) = Len(r) - 1
    BY <2>5, WithoutElement
  <2>10. Len(Without(r, 1)) = c - (n + 1)
    BY <1>1, <2>3, <2>9
  <2> QED BY <2>1, <2>8, <2>10
<1>6. c \in T
  <2> HIDE DEF T
  <2>1. \A n \in 0 .. c : n \in T
    BY <1>1, <1>4, <1>5, UpTo
  <2> QED BY <1>1, <2>1
<1>7. PICK r : Represents(Emptied(m, l), l, r) /\ Len(r) = c - c
  BY <1>2, <1>6
<1>8. r = <<>>
  <2>1. r \in Seq(Elements) /\ Len(r) = 0
    BY <1>1, <1>7, ListSays
  <2> QED BY <2>1
<1> QED BY <1>7, <1>8

\* saftest_list_element_delete_if takes off the elements that pass the test, and
\* leaves the others in their order.  After n elements the list is what is left of
\* those, with all that follow.
LeftAfter(r, k, s, n) ==
    /\ Len(r) = Len(k) + (Len(s) - n)
    /\ \A i \in 1 .. Len(k) : r[i] = k[i]
    /\ \A i \in 1 .. Len(s) - n : r[Len(k) + i] = s[n + i]

LEMMA OneMoreKept ==
    ASSUME NEW s \in Seq(Elements), NEW r \in Seq(Elements), NEW k \in Seq(Elements),
           NEW n \in 0 .. Len(s), n < Len(s), LeftAfter(r, k, s, n)
    PROVE  /\ LeftAfter(r, Append(k, s[n + 1]), s, n + 1)
           /\ LeftAfter(Without(r, Len(k) + 1), k, s, n + 1)
           /\ Len(k) + 1 \in 1 .. Len(r) /\ r[Len(k) + 1] = s[n + 1]
           /\ Len(k) + 1 = Len(r) <=> n + 1 = Len(s)
           /\ n + 1 # Len(s) => r[(Len(k) + 1) + 1] = s[(n + 1) + 1]
<1>0. Len(s) \in Nat /\ Len(k) \in Nat
  OBVIOUS
<1>1. PICK c, d : c = Len(s) /\ d = Len(k) /\ c \in Nat /\ d \in Nat
  BY <1>0
<1>2. /\ Len(r) = d + (c - n) /\ \A i \in 1 .. d : r[i] = k[i]
      /\ \A i \in 1 .. c - n : r[d + i] = s[n + i]
  BY <1>1 DEF LeftAfter
<1>3. n \in Nat /\ n < c /\ n + 1 <= c
  BY <1>1
<1>4. d + 1 \in 1 .. Len(r) /\ r[d + 1] = s[n + 1] /\ (d + 1 = Len(r) <=> n + 1 = c)
  <2>1. 1 \in 1 .. c - n
    BY <1>1, <1>3
  <2> QED BY <1>1, <1>2, <1>3, <2>1
<1>5. n + 1 # c => r[(d + 1) + 1] = s[(n + 1) + 1]
  <2> SUFFICES ASSUME n + 1 # c PROVE r[(d + 1) + 1] = s[(n + 1) + 1]
    OBVIOUS
  <2>1. 2 \in 1 .. c - n /\ (d + 1) + 1 = d + 2 /\ (n + 1) + 1 = n + 2
    BY <1>1, <1>3
  <2> QED BY <1>2, <2>1
<1>6. LeftAfter(r, Append(k, s[n + 1]), s, n + 1)
  <2>1. PICK a : a = Append(k, s[n + 1])
    OBVIOUS
  <2>2. Len(a) = d + 1 /\ a[d + 1] = s[n + 1] /\ \A i \in 1 .. d : a[i] = k[i]
    BY <1>1, <1>3, <2>1
  <2>3. ASSUME NEW i \in 1 .. d + 1 PROVE r[i] = a[i]
    <3>1. CASE i = d + 1
      BY <1>4, <2>2, <3>1
    <3>2. CASE i # d + 1
      <4>1. i \in 1 .. d
        BY <1>1, <3>2
      <4> QED BY <1>2, <2>2, <4>1
    <3> QED BY <3>1, <3>2
  <2>4. ASSUME NEW i \in 1 .. c - (n + 1) PROVE r[(d + 1) + i] = s[(n + 1) + i]
    <3>1. i + 1 \in 1 .. c - n /\ (d + 1) + i = d + (i + 1) /\ (n + 1) + i = n + (i + 1)
      BY <1>1, <1>3
    <3> QED BY <1>2, <3>1
  <2>5. Len(r) = (d + 1) + (c - (n + 1))
    BY <1>1, <1>2, <1>3
  <2> QED BY <1>1, <2>1, <2>2, <2>3, <2>4, <2>5 DEF LeftAfter
<1>7. LeftAfter(Without(r, d + 1), k, s, n + 1)
  <2>1. PICK w : w = Without(r, d + 1)
    OBVIOUS
  <2>2. Len(w) = Len(r) - 1 /\ \A i \in 1 .. Len(r) - 1 : w[i] = r[IF i < d + 1 THEN i ELSE i + 1]
    BY <1>4, <2>1, WithoutElement
  <2>3. Len(w) = d + (c - (n + 1))
    BY <1>1, <1>2, <1>3, <2>2
  <2>4. ASSUME NEW i \in 1 .. d PROVE w[i] = k[i]
    <3>1. i \in 1 .. Len(r) - 1 /\ i < d + 1
      BY <1>1, <1>2, <1>3
    <3> QED BY <1>2, <2>2, <3>1
  <2>5. ASSUME NEW i \in 1 .. c - (n + 1) PROVE w[d + i] = s[(n + 1) + i]
    <3>1. d + i \in 1 .. Len(r) - 1 /\ ~(d + i < d + 1) /\ (d + i) + 1 = d + (i + 1)
      BY <1>1, <1>2, <1>3
    <3>2. i + 1 \in 1 .. c - n /\ (n + 1) + i = n + (i + 1)
      BY <1>1, <1>3
    <3> QED BY <1>2, <2>2, <3>1, <3>2
  <2> QED BY <1>1, <2>1, <2>3, <2>4, <2>5 DEF LeftAfter
<1> QED BY <1>1, <1>4, <1>5, <1>6, <1>7

\* saftest_list_element_delete_if takes off the elements that match, and keeps the others
\* in their order although it removes under its own walk.
THEOREM DeleteIfKeepsTheRest ==
    ASSUME NEW m \in Memories, NEW l \in Lists, NEW s, Represents(m, l, s), NEW S
    PROVE  Represents(DeleteIf(m, l, S), l, WithoutAll(s, S))
<1> DEFINE c == Len(s)
<1>1. /\ s \in Seq(Elements) /\ c \in Nat /\ m.count[l] = c
      /\ m.head[l] = IF c = 0 THEN NULL ELSE s[1]
      /\ \A i \in 1 .. c : s[i] \in Elements /\ s[i] # NULL
  BY ListSays
<1>2. PICK f : DeleteWalk(m, l, S, f) /\ DeleteIf(m, l, S) = f[c].m
  BY <1>1, DeleteIfIs
<1>3. PICK k : RestWalk(s, S, k) /\ WithoutAll(s, S) = k[c]
  BY <1>1, RestIs
<1>4. /\ f[0].m = m /\ f[0].e = IF c = 0 THEN NULL ELSE s[1]
      /\ \A n \in 1 .. c :
            /\ f[n].m = IF f[n - 1].e # NULL /\ f[n - 1].e \in S
                        THEN Remove(f[n - 1].m, l, f[n - 1].e) ELSE f[n - 1].m
            /\ f[n].e = IF f[n - 1].e = NULL THEN NULL ELSE f[n - 1].m.next[f[n - 1].e]
  <2>1. f = [n \in 0 .. c |->
                IF n = 0 THEN [m |-> m, e |-> m.head[l]]
                ELSE [m |-> IF f[n - 1].e # NULL /\ f[n - 1].e \in S
                            THEN Remove(f[n - 1].m, l, f[n - 1].e) ELSE f[n - 1].m,
                      e |-> IF f[n - 1].e = NULL THEN NULL ELSE f[n - 1].m.next[f[n - 1].e]]]
    BY <1>1, <1>2 DEF DeleteWalk
  <2>2. 0 \in 0 .. c /\ \A n \in 1 .. c : n \in 0 .. c /\ n # 0
    BY <1>1
  <2> HIDE DEF c
  <2>3. f[0] = [m |-> m, e |-> m.head[l]]
    BY <2>1, <2>2
  <2>4. ASSUME NEW n \in 1 .. c
        PROVE  /\ f[n].m = IF f[n - 1].e # NULL /\ f[n - 1].e \in S
                           THEN Remove(f[n - 1].m, l, f[n - 1].e) ELSE f[n - 1].m
               /\ f[n].e = IF f[n - 1].e = NULL THEN NULL ELSE f[n - 1].m.next[f[n - 1].e]
    <3>1. PICK x, y : /\ x = IF f[n - 1].e # NULL /\ f[n - 1].e \in S
                             THEN Remove(f[n - 1].m, l, f[n - 1].e) ELSE f[n - 1].m
                      /\ y = IF f[n - 1].e = NULL THEN NULL ELSE f[n - 1].m.next[f[n - 1].e]
      OBVIOUS
    <3>2. f[n] = [m |-> x, e |-> y]
      BY <2>1, <2>2, <3>1
    <3> QED BY <3>1, <3>2
  <2>5. f[0].m = m /\ f[0].e = m.head[l]
    BY <2>3
  <2> QED BY <1>1, <2>4, <2>5
<1>5. /\ k[0] = <<>>
      /\ \A n \in 1 .. c : k[n] = IF s[n] \in S THEN k[n - 1] ELSE Append(k[n - 1], s[n])
  <2>1. k = [n \in 0 .. c |-> IF n = 0 THEN <<>>
                              ELSE IF s[n] \in S THEN k[n - 1] ELSE Append(k[n - 1], s[n])]
    BY <1>3 DEF RestWalk
  <2>2. 0 \in 0 .. c /\ \A n \in 1 .. c : n \in 0 .. c /\ n # 0
    BY <1>1
  <2> HIDE DEF c
  <2> QED BY <2>1, <2>2
<1> DEFINE walked(n) == /\ f[n].m \in Memories /\ k[n] \in Seq(Elements)
                        /\ f[n].e = IF n < c THEN s[n + 1] ELSE NULL
                        /\ \E r : Represents(f[n].m, l, r) /\ LeftAfter(r, k[n], s, n)
           T == {n \in 0 .. c : walked(n)}
<1>6. 0 \in T
  <2>1. LeftAfter(s, <<>>, s, 0)
    <3>1. Len(<<>>) = 0 /\ c - 0 = c /\ c = 0 + c /\ 1 .. 0 = {}
      BY <1>1
    <3>2. \A i \in 1 .. c : s[0 + i] = s[i]
      BY <1>1
    <3> QED BY <3>1, <3>2 DEF LeftAfter
  <2>2. <<>> \in Seq(Elements) /\ (0 < c <=> c # 0) /\ 0 + 1 = 1 /\ 0 \in 0 .. c
    BY <1>1
  <2> QED BY <1>1, <1>4, <1>5, <2>1, <2>2
<1>7. ASSUME NEW n \in 0 .. c, n < c, n \in T PROVE n + 1 \in T
  <2>1. n + 1 \in 1 .. c /\ n + 1 \in 0 .. c /\ (n + 1) - 1 = n /\ (n + 1 < c <=> n + 1 # c)
    BY <1>1, <1>7
  <2>2. PICK q, e, old : /\ q = f[n].m /\ e = f[n].e /\ old = k[n]
                         /\ q \in Memories /\ old \in Seq(Elements)
    BY <1>7
  <2>3. e = s[n + 1] /\ e \in Elements /\ e # NULL
    BY <1>1, <1>7, <2>1, <2>2
  <2>4. PICK r : Represents(q, l, r) /\ LeftAfter(r, old, s, n)
    BY <1>7, <2>2
  <2>5. /\ r \in Seq(Elements) /\ q.count[l] = Len(r)
        /\ \A i \in 1 .. Len(r) : q.next[r[i]] = IF i = Len(r) THEN NULL ELSE r[i + 1]
    BY <2>4, ListSays
  <2>6. PICK i : i = Len(old) + 1
    OBVIOUS
  <2>7. /\ LeftAfter(r, Append(old, e), s, n + 1) /\ LeftAfter(Without(r, i), old, s, n + 1)
        /\ i \in 1 .. Len(r) /\ r[i] = e /\ (i = Len(r) <=> n + 1 = c)
        /\ n + 1 # c => r[i + 1] = s[(n + 1) + 1]
    BY <1>1, <1>7, <2>2, <2>3, <2>4, <2>5, <2>6, OneMoreKept
  <2>8. f[n + 1].e = IF n + 1 < c THEN s[(n + 1) + 1] ELSE NULL
    <3>1. f[n + 1].e = q.next[e]
      BY <1>4, <2>1, <2>2, <2>3
    <3> QED BY <2>1, <2>5, <2>7, <3>1
  <2>9. CASE e \in S
    <3>1. f[n + 1].m = Remove(q, l, r[i]) /\ k[n + 1] = old
      BY <1>4, <1>5, <2>1, <2>2, <2>3, <2>7, <2>9
    <3>2. Represents(f[n + 1].m, l, Without(r, i)) /\ f[n + 1].m \in Memories
      <4>1. q.count[l] # 0 /\ r[i] \in Elements
        BY <2>3, <2>5, <2>7
      <4> QED BY <2>2, <2>4, <2>7, <3>1, <4>1, RemoveTakesOut, RemoveInMemories
    <3> QED BY <2>1, <2>2, <2>7, <2>8, <3>1, <3>2
  <2>10. CASE e \notin S
    <3>1. f[n + 1].m = q /\ k[n + 1] = Append(old, e)
      BY <1>4, <1>5, <2>1, <2>2, <2>3, <2>10
    <3>2. Append(old, e) \in Seq(Elements)
      BY <2>2, <2>3
    <3> QED BY <2>1, <2>2, <2>4, <2>7, <2>8, <3>1, <3>2
  <2> QED BY <2>9, <2>10
<1>8. c \in T
  <2> HIDE DEF T
  <2>1. \A n \in 0 .. c : n \in T
    BY <1>1, <1>6, <1>7, UpTo
  <2> QED BY <1>1, <2>1
<1>9. k[c] \in Seq(Elements) /\ \E r : Represents(f[c].m, l, r) /\ LeftAfter(r, k[c], s, c)
  BY <1>8
<1>10. PICK r : Represents(f[c].m, l, r) /\ LeftAfter(r, k[c], s, c)
  BY <1>9
<1>11. r \in Seq(Elements) /\ Len(r) = Len(k[c]) /\ \A i \in 1 .. Len(k[c]) : r[i] = k[c][i]
  <2>1. r \in Seq(Elements)
    BY <1>10, ListSays
  <2>2. Len(k[c]) \in Nat
    BY <1>9
  <2> QED BY <1>1, <1>10, <2>1, <2>2 DEF LeftAfter
<1>12. r = k[c]
  <2> HIDE DEF c
  <2> QED BY <1>9, <1>11
<1> QED BY <1>2, <1>3, <1>10, <1>12

=============================================================================
