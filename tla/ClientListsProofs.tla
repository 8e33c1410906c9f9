---------------------------- MODULE ClientListsProofs ----------------------------
(***************************************************************************)
(* The lists of the daemon in memory hold the clients its threads serve:   *)
(* what the list operations do (DriverListProofs), and that a descriptor   *)
(* has one owner (DriverMainProofs), put together.                         *)
(***************************************************************************)
EXTENDS ClientLists, DriverListProofs, DriverMainProofs

\* An element that is not on a list is not in the sequence the list stands for.
LEMMA OnTheList ==
    ASSUME NEW m, NEW l, NEW s, Represents(m, l, s)
    PROVE  /\ s \in Seq(Elements) /\ Len(s) \in Nat /\ m.count[l] = Len(s)
           /\ \A i \in 1 .. Len(s) : s[i] \in Elements /\ m.list[s[i]] = l
           /\ \A e \in Elements : m.list[e] = l => \E i \in 1 .. Len(s) : s[i] = e
           /\ \A i, j \in 1 .. Len(s) : s[i] = s[j] => i = j
BY DEF Represents

\* The inductive invariant: no two elements of a list carry the same descriptor.
CarriedBy(s) == {resource[s[i]] : i \in 1 .. Len(s)}
CarriesOnce(s) == \A i, j \in 1 .. Len(s) : resource[s[i]] = resource[s[j]] => i = j
MemoryOK ==
    /\ heap \in Memories
    /\ resource \in [Elements -> Fds \cup {0}]
    /\ DOMAIN items = Threads
    /\ items = [t \in Threads |-> items[t]]
HoldsClients(t) ==
    /\ Represents(heap, t, items[t])
    /\ CarriesOnce(items[t])
    /\ CarriedBy(items[t]) = thr[t].clients
    /\ Len(items[t]) = Cardinality(thr[t].clients)
LInv == MemoryOK /\ \A t \in Threads : HoldsClients(t)

LEMMA ClientsAreFinite ==
    ASSUME TypeOK, NEW t \in Threads
    PROVE  thr[t].clients \in SUBSET Fds /\ IsFiniteSet(thr[t].clients)
<1>1. thr[t].clients \in SUBSET Fds
  BY DEF TypeOK, ThreadRecs
<1>2. IsFiniteSet(Fds)
  BY FS_Interval, MainAssumption DEF Fds
<1> QED BY <1>1, <1>2, FS_Subset

\* New lists hold no clients.
LEMMA EmptyLists ==
    /\ NewMemory \in Memories
    /\ \A t \in Threads : Represents(NewMemory, t, <<>>)
    /\ Len(<<>>) = 0 /\ 1 .. 0 = {} /\ Cardinality({}) = 0
<1>1. NewMemory \in Memories
  BY DEF NewMemory, Memories
<1>2. Len(<<>>) = 0 /\ 1 .. 0 = {} /\ <<>> \in Seq(Elements)
  OBVIOUS
<1>3. ASSUME NEW t \in Threads PROVE Represents(NewMemory, t, <<>>)
  <2>1. /\ NewMemory.head[t] = NULL /\ NewMemory.tail[t] = NULL /\ NewMemory.count[t] = 0
        /\ \A e \in Elements : NewMemory.list[e] = NULL
    BY ListsAssumption DEF NewMemory
  <2> QED BY <1>2, <2>1, ListsAssumption, ListAssumption DEF Represents
<1> QED BY <1>1, <1>2, <1>3, FS_EmptySet

\* The lowest free descriptor is on no list of a thread that is not deleting.
LEMMA NewDescriptor ==
    ASSUME IInv, NEW t \in Threads, thr[t].pc = "accept", Free # {}
    PROVE  LowestFree \in Fds /\ LowestFree \notin thr[t].clients
<1>1. LowestFree \in Fds /\ fds[LowestFree] = NoClient
  BY LowestIsFree
<1>2. Owners(LowestFree) = {}
  BY <1>1 DEF IInv, FdHasOneOwner
<1> QED BY <1>1, <1>2 DEF Owners, Closing

\* The accepted client's element goes to the end of its thread's list.
LEMMA AddStep ==
    ASSUME IInv, LInv, NEW t \in Threads, AddClientResource(t)
    PROVE  LInv'
<1> DEFINE s == items[t]
<1>1. Free # {} /\ thr[t].pc = "accept"
  BY DEF AddClientResource, Accept, Die
<1>2. PICK n \in Fds : n = LowestFree /\ n \notin thr[t].clients
  BY <1>1, NewDescriptor
<1>3. PICK e \in Elements :
         /\ heap.list[e] = NULL
         /\ heap' = Enqueue(heap, t, e)
         /\ resource' = [resource EXCEPT ![e] = n]
         /\ items' = [items EXCEPT ![t] = Append(@, e)]
  BY <1>2 DEF AddClientResource
<1>4. /\ thr'[t].clients = thr[t].clients \cup {n}
      /\ \A x \in Threads \ {t} : thr'[x] = thr[x]
  <2>1. thr' = [thr EXCEPT ![t].pc = "select", ![t].clients = @ \cup {n}]
    BY <1>1, <1>2 DEF AddClientResource, Accept
  <2>2. thr[t] \in ThreadRecs
    BY DEF IInv, TypeOK
  <2> QED BY <2>1, <2>2 DEF IInv, TypeOK, ThreadRecs
<1>5. MemoryOK'
  BY <1>3, EnqueueInMemories, ListsAssumption DEF LInv, MemoryOK
<1>6. /\ items'[t] = Append(s, e) /\ \A x \in Threads \ {t} : items'[x] = items[x]
      /\ resource'[e] = n /\ \A x \in Elements \ {e} : resource'[x] = resource[x]
  BY <1>3 DEF LInv, MemoryOK
<1>7. ASSUME NEW x \in Threads
      PROVE  /\ items[x] \in Seq(Elements) /\ Len(items[x]) \in Nat
             /\ \A i \in 1 .. Len(items[x]) :
                   /\ items[x][i] \in Elements \ {e}
                   /\ resource'[items[x][i]] = resource[items[x][i]]
  BY <1>3, <1>6, OnTheList, ListAssumption, ListsAssumption DEF LInv, HoldsClients
<1>8. HoldsClients(t)'
  <2>1. Represents(heap', t, Append(s, e))
    BY <1>3, EnqueueAppends, ListsAssumption DEF LInv, MemoryOK, HoldsClients
  <2>2. /\ Len(Append(s, e)) = Len(s) + 1 /\ Append(s, e)[Len(s) + 1] = e
        /\ \A i \in 1 .. Len(s) : Append(s, e)[i] = s[i]
    BY <1>7
  <2>3. \A i \in 1 .. Len(s) : resource[s[i]] \in thr[t].clients
    BY DEF LInv, HoldsClients, CarriedBy
  <2>4. \A i, j \in 1 .. Len(s) + 1 :
           resource'[Append(s, e)[i]] = resource'[Append(s, e)[j]] => i = j
    BY <1>2, <1>6, <1>7, <2>2, <2>3 DEF LInv, HoldsClients, CarriesOnce
  <2>5. {resource'[Append(s, e)[i]] : i \in 1 .. Len(s) + 1} = thr[t].clients \cup {n}
    <3>1. {resource[s[i]] : i \in 1 .. Len(s)} = thr[t].clients
      BY DEF LInv, HoldsClients, CarriedBy
    <3>2. \A i \in 1 .. Len(s) : resource'[Append(s, e)[i]] = resource[s[i]]
      BY <1>7, <2>2
    <3>3. resource'[Append(s, e)[Len(s) + 1]] = n
      BY <1>6, <2>2
    <3>4. \A i : i \in 1 .. Len(s) + 1 <=> i \in 1 .. Len(s) \/ i = Len(s) + 1
      BY <1>7
    <3> QED BY <3>1, <3>2, <3>3, <3>4
  <2>6. Cardinality(thr[t].clients \cup {n}) = Cardinality(thr[t].clients) + 1
    BY <1>2, ClientsAreFinite, FS_AddElement DEF IInv
  <2> QED BY <1>4, <1>6, <2>1, <2>2, <2>4, <2>5, <2>6
          DEF LInv, HoldsClients, CarriesOnce, CarriedBy
<1>9. ASSUME NEW x \in Threads \ {t} PROVE HoldsClients(x)'
  <2>1. Represents(heap', x, items[x])
    BY <1>3, OtherListsAreKept, ListsAssumption DEF LInv, MemoryOK, HoldsClients
  <2> QED BY <1>4, <1>6, <1>7, <2>1 DEF LInv, HoldsClients, CarriesOnce, CarriedBy
<1> QED BY <1>5, <1>8, <1>9 DEF LInv

\* The element of the client that left is found on its thread's list, whatever other
\* thread was given its descriptor since, and is taken out of it.
LEMMA DeleteStep ==
    ASSUME IInv, LInv, NEW t \in Threads, DeleteClientResource(t)
    PROVE  LInv'
<1> DEFINE s == items[t]
           fd == thr[t].fd
<1>1. thr' = [thr EXCEPT ![t].pc = "select", ![t].todo = {},
                         ![t].clients = @ \ {fd}, ![t].fd = 0]
  BY DEF DeleteClientResource, DeleteResource, Die
<1>2. /\ thr'[t].clients = thr[t].clients \ {fd}
      /\ \A x \in Threads \ {t} : thr'[x] = thr[x]
  <2>1. thr[t] \in ThreadRecs
    BY DEF IInv, TypeOK
  <2> QED BY <1>1, <2>1 DEF IInv, TypeOK, ThreadRecs
<1>3. fd \in thr[t].clients /\ fd \in Fds
  <2>1. thr[t].pc = "delete"
    BY DEF DeleteClientResource, DeleteResource
  <2> QED BY <2>1, ClientsAreFinite DEF IInv, InHand
<1>4. /\ s \in Seq(Elements) /\ Len(s) \in Nat /\ heap.count[t] = Len(s)
      /\ \A i \in 1 .. Len(s) : s[i] \in Elements /\ heap.list[s[i]] = t
      /\ \A i, j \in 1 .. Len(s) : s[i] = s[j] => i = j
      /\ \A x \in Elements : heap.list[x] = t => \E i \in 1 .. Len(s) : s[i] = x
  BY OnTheList DEF LInv, HoldsClients
<1>5. PICK e \in Elements :
         /\ heap.list[e] = t /\ resource[e] = fd
         /\ heap' = Remove(heap, heap.list[e], e)
         /\ resource' = [resource EXCEPT ![e] = 0]
         /\ items' = [items EXCEPT ![t] = Without(@, CHOOSE k \in 1 .. Len(@) : @[k] = e)]
  <2> DEFINE e == CHOOSE x \in Elements : heap.list[x] = t /\ resource[x] = fd
  <2>1. PICK i \in 1 .. Len(s) : resource[s[i]] = fd
    BY <1>3 DEF LInv, HoldsClients, CarriedBy
  <2>2. \E x \in Elements : heap.list[x] = t /\ resource[x] = fd
    BY <1>4, <2>1
  <2>3. e \in Elements /\ heap.list[e] = t /\ resource[e] = fd
    BY <2>2
  <2>4. /\ heap' = Remove(heap, heap.list[e], e)
        /\ resource' = [resource EXCEPT ![e] = 0]
        /\ items' = [items EXCEPT ![t] = Without(@, CHOOSE k \in 1 .. Len(@) : @[k] = e)]
    BY DEF DeleteClientResource
  <2> HIDE DEF e
  <2> QED BY <2>3, <2>4
<1>6. PICK k \in 1 .. Len(s) : s[k] = e /\ items' = [items EXCEPT ![t] = Without(s, k)]
  <2> DEFINE k == CHOOSE k \in 1 .. Len(s) : s[k] = e
  <2>1. k \in 1 .. Len(s) /\ s[k] = e
    BY <1>4, <1>5
  <2>2. items' = [items EXCEPT ![t] = Without(s, k)]
    BY <1>5
  <2> HIDE DEF k
  <2> QED BY <2>1, <2>2
<1> DEFINE w == Without(s, k)
<1>7. /\ items'[t] = w /\ \A x \in Threads \ {t} : items'[x] = items[x]
      /\ \A x \in Elements \ {e} : resource'[x] = resource[x]
  BY <1>5, <1>6 DEF LInv, MemoryOK
<1>8. MemoryOK'
  <2>1. heap' \in Memories
    BY <1>4, <1>5, <1>6, RemoveInMemories, ListsAssumption DEF LInv, MemoryOK
  <2>2. resource' \in [Elements -> Fds \cup {0}]
    BY <1>5 DEF LInv, MemoryOK
  <2>3. DOMAIN items' = Threads /\ items' = [x \in Threads |-> items'[x]]
    BY <1>6 DEF LInv, MemoryOK
  <2> QED BY <2>1, <2>2, <2>3 DEF MemoryOK
<1>9. /\ Len(w) = Len(s) - 1
      /\ \A i \in 1 .. Len(s) - 1 : w[i] = s[IF i < k THEN i ELSE i + 1]
      /\ \A j \in 1 .. Len(s) : j # k => \E i \in 1 .. Len(s) - 1 : w[i] = s[j]
  <2>1. s \in Seq(Elements) /\ k \in 1 .. Len(s)
    BY <1>4
  <2> HIDE DEF s
  <2> QED BY <2>1, WithoutElement
<1>10. ASSUME NEW i \in 1 .. Len(s) - 1
       PROVE  \E a \in 1 .. Len(s) \ {k} : /\ a = IF i < k THEN i ELSE i + 1
                                          /\ w[i] = s[a]
                                          /\ resource'[w[i]] = resource[s[a]]
  <2> DEFINE a == IF i < k THEN i ELSE i + 1
  <2>1. a \in 1 .. Len(s) /\ a # k
    BY <1>4
  <2>2. w[i] = s[a]
    BY <1>9
  <2>3. s[a] \in Elements /\ s[a] # e
    BY <1>4, <1>6, <2>1
  <2>4. resource'[s[a]] = resource[s[a]]
    BY <1>7, <2>3
  <2> QED BY <2>1, <2>2, <2>4
<1>11. HoldsClients(t)'
  <2>1. Represents(heap', t, w)
    BY <1>5, <1>6, RemoveTakesOut, ListsAssumption DEF LInv, MemoryOK, HoldsClients
  <2> HIDE DEF w
  <2>2. \A i, j \in 1 .. Len(s) - 1 : resource'[w[i]] = resource'[w[j]] => i = j
    <3> SUFFICES ASSUME NEW i \in 1 .. Len(s) - 1, NEW j \in 1 .. Len(s) - 1,
                        resource'[w[i]] = resource'[w[j]]
                 PROVE  i = j
      OBVIOUS
    <3>1. PICK a \in 1 .. Len(s) : /\ a = IF i < k THEN i ELSE i + 1
                                   /\ resource'[w[i]] = resource[s[a]]
      BY <1>10
    <3>2. PICK b \in 1 .. Len(s) : /\ b = IF j < k THEN j ELSE j + 1
                                   /\ resource'[w[j]] = resource[s[b]]
      BY <1>10
    <3>3. resource[s[a]] = resource[s[b]]
      BY <3>1, <3>2
    <3>4. a = b
      <4>1. CarriesOnce(s)
        BY DEF LInv, HoldsClients
      <4> QED BY <3>3, <4>1 DEF CarriesOnce
    <3> QED BY <1>4, <3>1, <3>2, <3>4
  <2>3. {resource'[w[i]] : i \in 1 .. Len(s) - 1} = thr[t].clients \ {fd}
    <3>1. /\ {resource[s[i]] : i \in 1 .. Len(s)} = thr[t].clients
          /\ \A i, j \in 1 .. Len(s) : resource[s[i]] = resource[s[j]] => i = j
      BY DEF LInv, HoldsClients, CarriedBy, CarriesOnce
    <3>2. ASSUME NEW i \in 1 .. Len(s) - 1
          PROVE  resource'[w[i]] \in thr[t].clients \ {fd}
      <4>1. PICK a \in 1 .. Len(s) \ {k} : resource'[w[i]] = resource[s[a]]
        BY <1>10
      <4>2. resource[s[a]] # resource[s[k]]
        BY <3>1, <4>1
      <4> QED BY <1>5, <1>6, <3>1, <4>1, <4>2
    <3>3. ASSUME NEW g \in thr[t].clients \ {fd}
          PROVE  \E i \in 1 .. Len(s) - 1 : resource'[w[i]] = g
      <4>1. PICK j \in 1 .. Len(s) : resource[s[j]] = g
        BY <3>1
      <4>2. j # k
        BY <1>5, <1>6, <3>3, <4>1
      <4>3. PICK i \in 1 .. Len(s) - 1 : w[i] = s[j]
        BY <1>9, <4>2
      <4>4. s[j] \in Elements \ {e}
        BY <1>4, <1>6, <4>2
      <4> QED BY <1>7, <4>1, <4>3, <4>4
    <3> QED BY <3>2, <3>3
  <2>4. Cardinality(thr[t].clients \ {fd}) = Cardinality(thr[t].clients) - 1
    BY <1>3, ClientsAreFinite, FS_RemoveElement DEF IInv
  <2> QED BY <1>2, <1>7, <1>9, <2>1, <2>2, <2>3, <2>4
          DEF LInv, HoldsClients, CarriesOnce, CarriedBy
<1>12. ASSUME NEW x \in Threads \ {t} PROVE HoldsClients(x)'
  <2>1. Represents(heap', x, items[x])
    BY <1>5, OtherListsAreKept, ListsAssumption DEF LInv, MemoryOK, HoldsClients
  <2>2. \A i \in 1 .. Len(items[x]) : items[x][i] \in Elements \ {e}
    BY <1>5, OnTheList DEF LInv, HoldsClients
  <2>3. \A i \in 1 .. Len(items[x]) : resource'[items[x][i]] = resource[items[x][i]]
    BY <1>7, <2>2
  <2>4. items'[x] = items[x] /\ thr'[x] = thr[x]
    BY <1>2, <1>7
  <2> QED BY <2>1, <2>3, <2>4 DEF LInv, HoldsClients, CarriesOnce, CarriedBy
<1> QED BY <1>8, <1>11, <1>12 DEF LInv

\* What else happens leaves the lists alone, or ends the daemon.
LEMMA DaemonEnds ==
    ASSUME Next, daemon' # daemon
    PROVE  \A t \in Threads : thr'[t].clients = {}
<1>1. \A why : Die(why) => \A t \in Threads : thr'[t].clients = {}
  BY DEF Die, NoThread
<1>2. \E why : Die(why)
  <2>1. ASSUME NEW c \in Clients, Client(c) \/ KillClient(c) PROVE FALSE
    BY <2>1 DEF Client, Connect, Send, Receive, KillClient
  <2>2. CASE KillDaemon
    BY <2>2 DEF KillDaemon
  <2>3. ASSUME NEW t \in Threads, Loop(t) \/ Unblock(t) PROVE \E why : Die(why)
    <3>1. CASE StartThread(t) \/ EndPass(t) \/ Unblock(t)
      BY <3>1 DEF StartThread, EndPass, Unblock
    <3>2. ASSUME NEW f \in Fds, ReceiveRequest(t, f) \/ HangUp(t, f) PROVE FALSE
      BY <3>2 DEF ReceiveRequest, HangUp
    <3>3. CASE Select(t)
      BY <3>3 DEF Select
    <3>4. CASE Accept(t)
      BY <3>4 DEF Accept
    <3>5. CASE DeleteResource(t)
      BY <3>5 DEF DeleteResource
    <3>6. CASE Handle(t)
      BY <3>6 DEF Handle, HandleInitialize, HandleStatus, HandleCreateThread, HandleLibrary
    <3>7. CASE SendReply(t)
      BY <3>7 DEF SendReply
    <3> QED BY <2>3, <3>1, <3>2, <3>3, <3>4, <3>5, <3>6, <3>7 DEF Loop
  <2> QED BY <2>1, <2>2, <2>3 DEF Next
<1> QED BY <1>1, <1>2

LEMMA ElsewhereStep ==
    ASSUME LInv, Elsewhere
    PROVE  LInv'
<1>1. CASE daemon' # daemon
  <2>1. \A t \in Threads : thr'[t].clients = {}
    BY <1>1, DaemonEnds DEF Elsewhere
  <2>2. heap' = NewMemory /\ items' = [t \in Threads |-> <<>>] /\ resource' = resource
    BY <1>1 DEF Elsewhere
  <2>3. MemoryOK'
    BY <2>2, EmptyLists DEF LInv, MemoryOK
  <2>4. ASSUME NEW t \in Threads PROVE HoldsClients(t)'
    <3>1. items'[t] = <<>>
      BY <2>2
    <3> QED BY <2>1, <2>2, <3>1, EmptyLists DEF HoldsClients, CarriesOnce, CarriedBy
  <2> QED BY <2>3, <2>4 DEF LInv
<1>2. CASE daemon' = daemon
  <2>1. (\A t \in Threads : thr'[t].clients = thr[t].clients) /\ UNCHANGED lvars
    BY <1>2 DEF Elsewhere
  <2> QED BY <2>1 DEF lvars, LInv, MemoryOK, HoldsClients, CarriesOnce, CarriedBy
<1> QED BY <1>1, <1>2

LEMMA ListsStep == IInv /\ LInv /\ [LNext]_<<vars, lvars>> => IInv' /\ LInv'
<1> SUFFICES ASSUME IInv, LInv, [LNext]_<<vars, lvars>> PROVE IInv' /\ LInv'
  OBVIOUS
<1>1. ASSUME NEW t \in Threads, daemon = "up", AddClientResource(t)
      PROVE  IInv' /\ LInv'
  <2>1. Next
    BY <1>1 DEF AddClientResource, Next, Loop
  <2> QED BY <1>1, <2>1, AddStep, EveryStep
<1>2. ASSUME NEW t \in Threads, daemon = "up", DeleteClientResource(t)
      PROVE  IInv' /\ LInv'
  <2>1. Next
    BY <1>2 DEF DeleteClientResource, Next, Loop
  <2> QED BY <1>2, <2>1, DeleteStep, EveryStep
<1>3. CASE Elsewhere
  <2>1. Next
    BY <1>3 DEF Elsewhere
  <2> QED BY <1>3, <2>1, ElsewhereStep, EveryStep
<1>4. CASE UNCHANGED <<vars, lvars>>
  <2>1. UNCHANGED vars /\ UNCHANGED lvars
    BY <1>4
  <2>2. IInv'
    BY <2>1, EveryStep
  <2> QED BY <2>1, <2>2 DEF vars, lvars, LInv, MemoryOK, HoldsClients, CarriesOnce, CarriedBy
<1> QED BY <1>1, <1>2, <1>3, <1>4 DEF LNext

LEMMA ListsInitially == LInit => IInv /\ LInv
<1> SUFFICES ASSUME LInit PROVE IInv /\ LInv
  OBVIOUS
<1>1. IInv
  BY Initially DEF LInit
<1>2. \A t \in Threads : thr[t].clients = {}
  BY DEF LInit, Init, NoThread
<1>3. MemoryOK
  BY EmptyLists DEF LInit, MemoryOK
<1>4. ASSUME NEW t \in Threads PROVE HoldsClients(t)
  <2>1. items[t] = <<>> /\ heap = NewMemory
    BY DEF LInit
  <2> QED BY <1>2, <2>1, EmptyLists DEF HoldsClients, CarriesOnce, CarriedBy
<1> QED BY <1>1, <1>3, <1>4 DEF LInv

\* For any number of threads, clients and descriptors: the list of a thread in memory
\* runs over exactly the descriptors the thread serves, in the order in which they
\* were accepted (saftest_list.c:142-239, saftest_main_lib.c:72-122, 215-227).
THEOREM ListsAreTheClients == LFairSpec => []ListsHoldTheClients
<1>1. LInv => ListsHoldTheClients
  BY DEF LInv, HoldsClients, ListsHoldTheClients, CarriedBy
<1>2. LInit => IInv /\ LInv
  BY ListsInitially
<1>3. IInv /\ LInv /\ [LNext]_<<vars, lvars>> => IInv' /\ LInv'
  BY ListsStep
<1> QED BY <1>1, <1>2, <1>3, PTL DEF LFairSpec

\* However a thread's list came to be, a conditional deletion leaves what does not pass
\* in its order, a search finds the first that passes, and the deletion of the list
\* takes every element off it (saftest_list.c:12-24, 82-102, 279-299).
THEOREM WalksAreComplete == LFairSpec => []ListWalksAreComplete
<1>1. LInv => ListWalksAreComplete
  <2> SUFFICES ASSUME LInv, NEW t \in Threads, NEW F,
                      NEW S, S = {e \in Elements : resource[e] \in F}
               PROVE  /\ Represents(DeleteIf(heap, t, S), t, WithoutAll(items[t], S))
                      /\ IsFirst(Find(heap, t, S, NULL), items[t], S)
                      /\ Represents(Emptied(heap, t), t, <<>>)
    BY DEF ListWalksAreComplete
  <2>1. heap \in Memories /\ t \in Lists /\ Represents(heap, t, items[t])
    BY ListsAssumption DEF LInv, MemoryOK, HoldsClients
  <2> QED BY <2>1, DeleteIfKeepsTheRest, FindsFirst, EmptiedIsEmpty
<1>2. LInit => IInv /\ LInv
  BY ListsInitially
<1>3. IInv /\ LInv /\ [LNext]_<<vars, lvars>> => IInv' /\ LInv'
  BY ListsStep
<1> QED BY <1>1, <1>2, <1>3, PTL DEF LFairSpec
=============================================================================
