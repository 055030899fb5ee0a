---------------------------- MODULE RequestReply ----------------------------
(***************************************************************************)
(* What a connection promises the callers that share it: each asks, is     *)
(* given at most one answer and leaves, as if it had the connection for    *)
(* itself.  Nothing of streams, queues, send tasks or the receiver is left. *)
(*                                                                         *)
(* As long as the connection is trusted, the answer a caller is given is   *)
(* the answer to what it asked.  Trust is lost for good: the owner of the  *)
(* connection is expected to replace it.                                   *)
(***************************************************************************)
EXTENDS Naturals

CONSTANT Callers

VARIABLES
    asked,      \* the number of what each caller has asked, 0 for nothing
    given,      \* the number of the request whose answer it was given
    trusted,    \* answers go where they belong
    next        \* the number of the next request

vars == <<asked, given, trusted, next>>

Init ==
    /\ asked = [c \in Callers |-> 0]
    /\ given = [c \in Callers |-> 0]
    /\ trusted = TRUE
    /\ next = 1

Ask(c) ==
    /\ asked[c] = 0
    /\ asked' = [asked EXCEPT ![c] = next]
    /\ next' = next + 1
    /\ UNCHANGED <<given, trusted>>

(* No answer goes to two callers, and none to a question not yet asked. *)
Answer(c) ==
    /\ asked[c] # 0
    /\ given[c] = 0
    /\ \E n \in 1 .. next - 1 :
          /\ trusted => n = asked[c]
          /\ \A d \in Callers : given[d] # n
          /\ given' = [given EXCEPT ![c] = n]
    /\ UNCHANGED <<asked, trusted, next>>

(* The caller has its answer, or an exception. *)
Leave(c) ==
    /\ asked[c] # 0
    /\ asked' = [asked EXCEPT ![c] = 0]
    /\ given' = [given EXCEPT ![c] = 0]
    /\ UNCHANGED <<trusted, next>>

Distrust ==
    /\ trusted
    /\ trusted' = FALSE
    /\ UNCHANGED <<asked, given, next>>

Next == Distrust \/ \E c \in Callers : Ask(c) \/ Answer(c) \/ Leave(c)

Spec == Init /\ [][Next]_vars
=============================================================================
