------------------------ MODULE ConnectionRefinement ------------------------
(* Connection implements RequestReply. *)
EXTENDS Connection

(* A caller has asked from the moment it enters ExecuteMessageAsync to the  *)
(* moment it leaves; the answer is the frame it popped.  The connection is  *)
(* trusted until it is marked broken or an interrupted call leaves its      *)
(* stream behind.                                                           *)
Promise == INSTANCE RequestReply WITH
    asked   <- [c \in Callers |-> IF pc[c] = "idle" THEN 0 ELSE req[c]],
    given   <- [c \in Callers |-> IF reply[c] = NoFrame THEN 0 ELSE reply[c].id],
    trusted <- ~broken /\ poisoned = {},
    next    <- nextReq

(* The connection keeps the promise of RequestReply: every step of the      *)
(* callers, their send tasks and the receiver (ExecuteMessageAsync,         *)
(* SendMessage, ReceiverLoop) is a step of it or changes nothing in it, and *)
(* no answer reaches two callers.  That every caller gets away in the end   *)
(* is EveryCallReturns.                                                     *)
KeepsPromise == Promise!Spec
=============================================================================
