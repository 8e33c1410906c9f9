------------------------------ MODULE ClientLists ------------------------------
(***************************************************************************)
(* The daemon of DriverMain with its client lists as they lie in memory    *)
(* (DriverList): DriverMain says which descriptors a thread serves, this   *)
(* module the elements its list is made of, and the order in which they    *)
(* are visited (src/trunk/driver/saftest_main_lib.c:72-122, 215-227,       *)
(* 402-419).  Each thread has one list, named by the thread.               *)
(***************************************************************************)
EXTENDS DriverMain, DriverList

ASSUME ListsAssumption == Lists = Threads

VARIABLES
    heap,     \* the lists and elements
    resource, \* [Elements -> the descriptor in the client_resource_t it carries]
    items     \* [Threads -> the elements of the list, as they should be] (history)

lvars == <<heap, resource, items>>

LInit ==
    /\ Init
    /\ heap = NewMemory
    /\ resource = [e \in Elements |-> 0]
    /\ items = [t \in Threads |-> <<>>]

\* saftest_list_element_create puts the new resource at the end of the thread's list.
AddClientResource(t) ==
    /\ Accept(t)
    /\ daemon' = "up"
    /\ \E x \in Elements : heap.list[x] = NULL    \* bound: as many elements as it takes
    /\ LET e == CHOOSE x \in Elements : heap.list[x] = NULL
       IN /\ heap' = Enqueue(heap, t, e)
          /\ resource' = [resource EXCEPT ![e] = LowestFree]
          /\ items' = [items EXCEPT ![t] = Append(@, e)]

\* The element is searched for on the lists of all threads, by its address.
DeleteClientResource(t) ==
    LET e == CHOOSE x \in Elements : heap.list[x] = t /\ resource[x] = thr[t].fd
    IN /\ DeleteResource(t)
       /\ daemon' = "up"
       /\ heap' = Remove(heap, heap.list[e], e)
       /\ resource' = [resource EXCEPT ![e] = 0]
       /\ items' = [items EXCEPT ![t] = Without(@, CHOOSE k \in 1 .. Len(@) : @[k] = e)]

\* saftest_list_each visits the clients in the order of the list.
VisitsInOrder ==
    \A t \in Threads : \A f \in thr[t].todo \ thr'[t].todo :
        LET s == items[t]
        IN \A i, j \in 1 .. Len(s) :
              resource[s[i]] \in thr[t].todo /\ resource[s[j]] = f => i >= j

\* Every other step leaves the lists as they are, or ends the process they are in.
Elsewhere ==
    /\ Next
    /\ IF daemon' # daemon
       THEN heap' = NewMemory /\ items' = [t \in Threads |-> <<>>] /\ UNCHANGED resource
       ELSE /\ \A t \in Threads : thr'[t].clients = thr[t].clients
            /\ VisitsInOrder
            /\ UNCHANGED lvars

LNext ==
    \/ daemon = "up" /\ \E t \in Threads : AddClientResource(t) \/ DeleteClientResource(t)
    \/ Elsewhere

LFairSpec == LInit /\ [][LNext]_<<vars, lvars>> /\ Fairness

-----------------------------------------------------------------------------
\* However clients come and go, a thread's list in memory runs over exactly the
\* descriptors it serves, each once, forwards and backwards, in the order in which
\* they were accepted, and counts them (saftest_list.c:142-239): no client is lost
\* from the loop by relinking its neighbours, and none stays on it after its
\* resource was freed.
ListsHoldTheClients ==
    \A t \in Threads :
        /\ Represents(heap, t, items[t])
        /\ {resource[items[t][i]] : i \in 1 .. Len(items[t])} = thr[t].clients
        /\ Len(items[t]) = Cardinality(thr[t].clients)

\* On every list the daemon comes to: a conditional deletion leaves the others in
\* their order although it frees the element it stands on, a search finds the first
\* that fits, and the deletion of a list takes every element off it
\* (saftest_list.c:12-24, 82-102, 279-299).
ListWalksAreComplete ==
    \A t \in Threads : \A F \in SUBSET thr[t].clients :
        LET passing == {e \in Elements : resource[e] \in F}
        IN /\ Represents(DeleteIf(heap, t, passing), t, WithoutAll(items[t], passing))
           /\ IsFirst(Find(heap, t, passing, NULL), items[t], passing)
           /\ Represents(Emptied(heap, t), t, <<>>)
=============================================================================
