----------------------------- MODULE RequestReply -----------------------------
(***************************************************************************)
(* What the daemon promises its clients: a request is executed at most     *)
(* once, only if its client sent all of it, and only the client of an      *)
(* executed request is sent a reply.  A client that dies stops wherever it *)
(* is; its request may still be executed.                                  *)
(* (src/trunk/include/saftest_comm.h, src/trunk/driver/saftest_main_lib.c) *)
(***************************************************************************)
EXTENDS Naturals

CONSTANT Clients

VARIABLES
    asked,     \* clients that sent a complete request
    executed,  \* [Clients -> how often the request was executed]
    answered   \* clients that received the reply

vars == <<asked, executed, answered>>

Init ==
    /\ asked = {}
    /\ executed = [c \in Clients |-> 0]
    /\ answered = {}

Ask(c) ==
    /\ c \notin asked
    /\ asked' = asked \cup {c}
    /\ UNCHANGED <<executed, answered>>

Execute(c) ==
    /\ c \in asked /\ executed[c] = 0
    /\ executed' = [executed EXCEPT ![c] = 1]
    /\ UNCHANGED <<asked, answered>>

Answer(c) ==
    /\ executed[c] = 1 /\ c \notin answered
    /\ answered' = answered \cup {c}
    /\ UNCHANGED <<asked, executed>>

Next == \E c \in Clients : Ask(c) \/ Execute(c) \/ Answer(c)

Spec == Init /\ [][Next]_vars
=============================================================================
