--------------------- MODULE ConnectionRefinementProofs ---------------------
(***************************************************************************)
(* Connection implements RequestReply, for any callers, stream ids and     *)
(* number of calls: the refinement mapping is Promise, the invariant it    *)
(* rests on is ConnectionInv with the two facts of PromiseInv.             *)
(***************************************************************************)
EXTENDS ConnectionRefinement, ConnectionProofs

(* Request numbers start at 1, so that 0 can stand for no question and no   *)
(* answer; and a caller has no answer before it has taken one.              *)
PromiseInv ==
    /\ nextReq > 0
    /\ \A c \in Callers : pc[c] # "idle" => req[c] > 0
    /\ \A m \in InFlight : m.id > 0
    /\ \A c \in Callers : reply[c] # NoFrame => pc[c] \in {"join", "unwind", "release"}

LEMMA PromiseInvInit == Init => PromiseInv
  BY DEF Init, PromiseInv, InFlight

LEMMA PromiseInvStep == TypeOK /\ PromiseInv /\ [Next]_vars => PromiseInv'
<1> SUFFICES ASSUME TypeOK, PromiseInv, [Next]_vars
             PROVE  PromiseInv'
    OBVIOUS
<1>1. \A m \in InFlight' : m.id > 0
  <2>1. CASE InFlight' \subseteq InFlight
        BY <2>1 DEF PromiseInv
  <2>2. ASSUME NEW c \in Callers, SendAll(c),
               InFlight' = InFlight \cup {[stream |-> sid[c], id |-> req[c]]}
        PROVE  \A m \in InFlight' : m.id > 0
    <3>1. req[c] > 0
          BY <2>2 DEF SendAll, TypeOK, Holds, PromiseInv
    <3> QED  BY <2>2, <3>1 DEF PromiseInv
  <2> QED  BY <2>1, <2>2, FlightStep
<1>2. ASSUME NEW c \in Callers, Call(c) PROVE PromiseInv'
      BY <1>1, <1>2 DEF Call, PromiseInv, TypeOK, Holds
<1>3. ASSUME NEW c \in Callers, PopReply(c) PROVE PromiseInv'
      BY <1>1, <1>3 DEF PopReply, PromiseInv, TypeOK
<1>4. ASSUME NEW c \in Callers, ReleaseStream(c) PROVE PromiseInv'
      BY <1>1, <1>4 DEF ReleaseStream, PromiseInv, TypeOK
<1>5. ASSUME NEW c \in Callers,
             AcquireStream(c) \/ StreamPoolExhausted(c) \/ PopTimeout(c)
      PROVE  PromiseInv'
      BY <1>1, <1>5 DEF AcquireStream, StreamPoolExhausted, PopTimeout,
                        PromiseInv, TypeOK
<1>6. ASSUME NEW c \in Callers,
             \/ MarkBrokenAndThrow(c) \/ CheckReply(c) \/ DestroyTask(c)
             \/ WaitInterrupted(c)
      PROVE  PromiseInv'
      BY <1>1, <1>6 DEF MarkBrokenAndThrow, CheckReply, DestroyTask,
                        WaitInterrupted, PromiseInv, TypeOK
<1>7. CASE UNCHANGED <<pc, req, reply, nextReq>>
      BY <1>1, <1>7 DEF PromiseInv
<1> QED
  BY <1>2, <1>3, <1>4, <1>5, <1>6, <1>7
     DEF Next, CallerStep, SendStep, LockSendMutex, SendAll, SendCutShort,
         FinishSend, SerializeFails, ReceiverStep, ReadFrame,
         DiscardNegativeStream, ReadFails, StreamOutOfRange, PushFrame,
         PushTimeout, vars, callerVars

-----------------------------------------------------------------------------
(* The refinement.                                                          *)

LEMMA PromiseInit == Init => Promise!Init
  BY DEF Init, Promise!Init

(* A caller that enters has asked. *)
LEMMA CallAsks ==
  ASSUME NEW c \in Callers, TypeOK, Call(c)
  PROVE  Promise!Ask(c)
  BY DEF Call, TypeOK, Holds, Promise!Ask

(* A caller that pops a frame is given an answer nobody else was given, and *)
(* its own while the connection is trusted.                                 *)
LEMMA PopAnswers ==
  ASSUME NEW c \in Callers, ConnectionInv, PromiseInv, PopReply(c)
  PROVE  Promise!Answer(c)
<1> DEFINE m == queue[sid[c]]
<1>1. sid[c] \in Streams /\ m # NoFrame /\ m \in Frames
      BY StreamsAssumption DEF PopReply, ConnectionInv, TypeOK, Holds
<1>2. m \in InFlight /\ m.stream = sid[c]
      BY <1>1 DEF InFlight, ConnectionInv, OnceInv
<1>3. m.id \in 1 .. nextReq - 1
      BY <1>1, <1>2 DEF ConnectionInv, TypeOK, RequestInv, PromiseInv, Frames
<1>4. ~broken /\ poisoned = {} => m.id = req[c]
      BY <1>1, <1>2 DEF ConnectionInv, OwnerInv, StreamInv, Tainted
<1>5. \A d \in Callers : reply[d] # NoFrame => reply[d].id # m.id
      BY <1>2 DEF ConnectionInv, OnceInv
<1>6. pc[c] = "wait" /\ reply[c] = NoFrame /\ req[c] > 0 /\ req[c] \in Nat
      BY DEF PopReply, PromiseInv, ConnectionInv, TypeOK
<1>7. /\ reply' = [reply EXCEPT ![c] = m]
      /\ pc' = [pc EXCEPT ![c] = "join"]
      /\ UNCHANGED <<req, nextReq, broken, poisoned>>
      BY DEF PopReply
<1> DEFINE asked == [d \in Callers |-> IF pc[d] = "idle" THEN 0 ELSE req[d]]
           given == [d \in Callers |-> IF reply[d] = NoFrame THEN 0 ELSE reply[d].id]
<1> HIDE DEF m
<1>8. asked[c] = req[c] /\ asked' = asked
      BY <1>6, <1>7 DEF ConnectionInv, TypeOK
<1>9. given[c] = 0 /\ given' = [given EXCEPT ![c] = m.id]
      BY <1>1, <1>6, <1>7 DEF ConnectionInv, TypeOK
<1>10. \A d \in Callers : given[d] # m.id
      BY <1>3, <1>5
<1>11. UNCHANGED <<~broken /\ poisoned = {}, nextReq>>
      BY <1>7
<1> QED
  <2> HIDE DEF asked, given
  <2>1. asked[c] # 0 /\ given[c] = 0
        BY <1>6, <1>8, <1>9
  <2>2. \E n \in 1 .. nextReq - 1 :
              /\ ~broken /\ poisoned = {} => n = asked[c]
              /\ \A d \in Callers : given[d] # n
              /\ given' = [given EXCEPT ![c] = n]
        BY <1>3, <1>4, <1>8, <1>9, <1>10
  <2>3. UNCHANGED <<asked, ~broken /\ poisoned = {}, nextReq>>
        BY <1>8, <1>11
  <2> QED  BY <2>1, <2>2, <2>3 DEF Promise!Answer, asked, given

(* A caller leaves by ~StreamGuard, or because there is no stream for it. *)
LEMMA CallerLeaves ==
  ASSUME NEW c \in Callers, TypeOK, PromiseInv,
         ReleaseStream(c) \/ StreamPoolExhausted(c)
  PROVE  Promise!Leave(c)
<1>1. pc[c] # "idle" /\ req[c] # 0
      BY DEF ReleaseStream, StreamPoolExhausted, PromiseInv, TypeOK
<1>2. /\ pc' = [pc EXCEPT ![c] = "idle"]
      /\ reply' = [reply EXCEPT ![c] = NoFrame]
      /\ UNCHANGED <<req, nextReq, broken, poisoned>>
      BY DEF ReleaseStream, StreamPoolExhausted, TypeOK, Holds
<1> QED  BY <1>1, <1>2 DEF Promise!Leave, TypeOK

(* Nothing else touches a question or an answer, and trust is not regained. *)
LEMMA OthersKeep ==
  ASSUME TypeOK, [Next]_vars,
         \A c \in Callers : /\ ~Call(c) /\ ~PopReply(c)
                            /\ ~ReleaseStream(c) /\ ~StreamPoolExhausted(c)
  PROVE  Promise!Distrust \/ UNCHANGED Promise!vars
<1>1. /\ UNCHANGED <<req, reply, nextReq>>
      /\ \A c \in Callers : pc'[c] = "idle" <=> pc[c] = "idle"
      /\ pc' \in [Callers -> PCs]
      BY DEF Next, CallerStep, AcquireStream, PopTimeout, MarkBrokenAndThrow,
             CheckReply, DestroyTask, WaitInterrupted, SendStep, LockSendMutex,
             SendAll, SendCutShort, FinishSend, SerializeFails, ReceiverStep,
             ReadFrame, DiscardNegativeStream, ReadFails, StreamOutOfRange,
             PushFrame, PushTimeout, vars, callerVars, TypeOK, PCs
<1>2. (broken => broken') /\ (poisoned # {} => poisoned' # {})
      BY DEF Next, CallerStep, AcquireStream, PopTimeout, MarkBrokenAndThrow,
             CheckReply, DestroyTask, WaitInterrupted, SendStep, LockSendMutex,
             SendAll, SendCutShort, FinishSend, SerializeFails, ReceiverStep,
             ReadFrame, DiscardNegativeStream, ReadFails, StreamOutOfRange,
             PushFrame, PushTimeout, vars, callerVars
<1>3. UNCHANGED [c \in Callers |-> IF pc[c] = "idle" THEN 0 ELSE req[c]]
      BY <1>1 DEF TypeOK
<1>4. UNCHANGED [c \in Callers |-> IF reply[c] = NoFrame THEN 0 ELSE reply[c].id]
      BY <1>1
<1> QED  BY <1>1, <1>2, <1>3, <1>4 DEF Promise!Distrust, Promise!vars

LEMMA PromiseStep ==
  ConnectionInv /\ PromiseInv /\ [Next]_vars => [Promise!Next]_(Promise!vars)
<1> SUFFICES ASSUME ConnectionInv, PromiseInv, [Next]_vars
             PROVE  [Promise!Next]_(Promise!vars)
    OBVIOUS
<1>t. TypeOK
      BY DEF ConnectionInv
<1>1. ASSUME NEW c \in Callers, Call(c) PROVE Promise!Next
      BY <1>t, <1>1, CallAsks DEF Promise!Next
<1>2. ASSUME NEW c \in Callers, PopReply(c) PROVE Promise!Next
      BY <1>2, PopAnswers DEF Promise!Next
<1>3. ASSUME NEW c \in Callers, ReleaseStream(c) \/ StreamPoolExhausted(c)
      PROVE  Promise!Next
      BY <1>t, <1>3, CallerLeaves DEF Promise!Next
<1>4. CASE \A c \in Callers : /\ ~Call(c) /\ ~PopReply(c)
                              /\ ~ReleaseStream(c) /\ ~StreamPoolExhausted(c)
      BY <1>t, <1>4, OthersKeep DEF Promise!Next
<1> QED  BY <1>1, <1>2, <1>3, <1>4

(* The connection keeps the promise of RequestReply for any number of       *)
(* callers, streams and calls: to a caller of ExecuteMessageAsync it is as  *)
(* if it had the connection for itself, until the connection is marked      *)
(* broken or an interrupted call leaves a stream behind; and even then no   *)
(* answer reaches two callers.                                              *)
THEOREM ConnectionKeepsPromise == Spec => KeepsPromise
<1>1. Init => PromiseInv /\ Promise!Init
      BY PromiseInvInit, PromiseInit
<1>2. ConnectionInv /\ PromiseInv /\ [Next]_vars => PromiseInv'
      BY PromiseInvStep DEF ConnectionInv
<1> QED
  BY <1>1, <1>2, InvariantHolds, PromiseStep, PTL
     DEF Spec, KeepsPromise, Promise!Spec
=============================================================================
