-------------------------- MODULE ConnectionProofs --------------------------
(***************************************************************************)
(* Proofs about Connection, for any callers, stream ids and number of      *)
(* calls.                                                                  *)
(***************************************************************************)
EXTENDS Connection, FiniteSetTheorems, TLAPS

-----------------------------------------------------------------------------
(* Type correctness.                                                        *)

LEMMA InitType == Init => TypeOK
<1> SUFFICES ASSUME Init
             PROVE  TypeOK
    OBVIOUS
<1>1. /\ pc \in [Callers -> PCs]
      /\ task \in [Callers -> TaskStates]
      /\ broken \in BOOLEAN
      /\ receiver \in {"reading", "pushing", "exited"}
      BY DEF Init, PCs, TaskStates
<1>2. /\ free \subseteq Streams
      /\ sid \in [Callers -> Streams \cup {NoStream}]
      /\ req \in [Callers -> Nat]
      /\ reply \in [Callers -> Frames \cup {NoFrame}]
      /\ nextReq \in Nat
      /\ wire \subseteq Frames
      /\ frame \in Frames \cup {NoFrame}
      /\ queue \in [Streams -> Frames \cup {NoFrame}]
      /\ poisoned \subseteq Streams
      BY DEF Init
<1>3. \A c \in Callers : /\ Holds(c) <=> sid[c] # NoStream
                         /\ Holds(c) <=> task[c] # "none"
                         /\ reply[c] # NoFrame => Holds(c)
      BY DEF Init, Holds
<1>4. receiver = "pushing" <=> frame # NoFrame
      BY DEF Init
<1> QED  BY <1>1, <1>2, <1>3, <1>4 DEF TypeOK

LEMMA TypeStep == TypeOK /\ [Next]_vars => TypeOK'
<1> SUFFICES ASSUME TypeOK, [Next]_vars
             PROVE  TypeOK'
    OBVIOUS
<1> USE StreamsAssumption, FrameAssumption
        DEF TypeOK, Holds, PCs, TaskStates, Frames
<1>1. ASSUME NEW c \in Callers, Call(c) PROVE TypeOK'
      BY <1>1 DEF Call
<1>2. ASSUME NEW c \in Callers, CallerStep(c) PROVE TypeOK'
  <2>1. CASE AcquireStream(c)
        BY <2>1 DEF AcquireStream
  <2>2. CASE StreamPoolExhausted(c)
        BY <2>2 DEF StreamPoolExhausted
  <2>3. CASE PopReply(c)
        BY <2>3 DEF PopReply
  <2>4. CASE PopTimeout(c)
        BY <2>4 DEF PopTimeout
  <2>5. CASE MarkBrokenAndThrow(c)
        BY <2>5 DEF MarkBrokenAndThrow
  <2>6. CASE CheckReply(c)
        BY <2>6 DEF CheckReply
  <2>7. CASE DestroyTask(c)
        BY <2>7 DEF DestroyTask
  <2>8. CASE ReleaseStream(c)
        BY <2>8 DEF ReleaseStream
  <2> QED  BY <1>2, <2>1, <2>2, <2>3, <2>4, <2>5, <2>6, <2>7, <2>8
           DEF CallerStep
<1>3. ASSUME NEW c \in Callers, WaitInterrupted(c) PROVE TypeOK'
      BY <1>3 DEF WaitInterrupted
<1>4. ASSUME NEW c \in Callers, SendStep(c) PROVE TypeOK'
  <2>1. CASE LockSendMutex(c)
        BY <2>1 DEF LockSendMutex
  <2>2. CASE SendAll(c)
        BY <2>2 DEF SendAll
  <2>3. CASE SendCutShort(c)
        BY <2>3 DEF SendCutShort
  <2>4. CASE FinishSend(c)
        BY <2>4 DEF FinishSend
  <2> QED  BY <1>4, <2>1, <2>2, <2>3, <2>4 DEF SendStep
<1>5. ASSUME NEW c \in Callers, SerializeFails(c) PROVE TypeOK'
      BY <1>5 DEF SerializeFails
<1>6. ASSUME ReceiverStep PROVE TypeOK'
  <2>1. CASE ReadFrame
        BY <2>1 DEF ReadFrame, callerVars
  <2>2. CASE DiscardNegativeStream
        BY <2>2 DEF DiscardNegativeStream, callerVars
  <2>3. CASE ReadFails
        BY <2>3 DEF ReadFails, callerVars
  <2>4. CASE StreamOutOfRange
        BY <2>4 DEF StreamOutOfRange, callerVars
  <2>5. CASE PushFrame
        BY <2>5 DEF PushFrame, callerVars
  <2>6. CASE PushTimeout
        BY <2>6 DEF PushTimeout, callerVars
  <2> QED  BY <1>6, <2>1, <2>2, <2>3, <2>4, <2>5, <2>6 DEF ReceiverStep
<1>7. CASE UNCHANGED vars
      BY <1>7 DEF vars, callerVars
<1> QED  BY <1>1, <1>2, <1>3, <1>4, <1>5, <1>6, <1>7 DEF Next

(* Every variable keeps its type, a caller has a stream and a send task     *)
(* exactly while its StreamGuard is alive, and the receiver has a frame     *)
(* exactly while it pushes one: whatever callers, streams and cancellations *)
(* do.                                                                      *)
THEOREM TypeCorrect == Spec => []TypeOK
  BY InitType, TypeStep, PTL DEF Spec

-----------------------------------------------------------------------------
(* The inductive invariant behind StreamsPartitioned, ReplyIsOwn,           *)
(* PushNeverStalls and IdleIsQuiet.                                         *)

(* An answer that has been asked for and not yet handed to a caller. *)
InFlight == wire \cup ({frame} \ {NoFrame})
                 \cup {queue[s] : s \in {t \in Streams : queue[t] # NoFrame}}

(* Answers on stream s may belong to an earlier call. *)
Tainted(s) == broken \/ s \in poisoned

(* A stream id is in the pool or held, never both, never held twice. *)
StreamInv ==
    /\ \A c \in Callers : sid[c] \notin free
    /\ \A c, d \in Callers : sid[c] \in Streams /\ sid[c] = sid[d] => c = d
    /\ \A s \in Streams : s \in free \/ \E c \in Callers : sid[c] = s

(* Request numbers are used once: below the next one, different for         *)
(* different calls, and never on an answer before the request is sent.      *)
RequestInv ==
    /\ \A c \in Callers : req[c] < nextReq
    /\ \A m \in InFlight : m.id < nextReq
    /\ \A c \in Callers : reply[c] # NoFrame => reply[c].id < nextReq
    /\ \A c, d \in Callers :
          pc[c] # "idle" /\ pc[d] # "idle" /\ req[c] = req[d] => c = d
    /\ \A c \in Callers :
          pc[c] = "acquire" \/ task[c] \in {"created", "sending"} =>
             /\ \A m \in InFlight : m.id # req[c]
             /\ \A d \in Callers :
                   reply[d] # NoFrame => reply[d].id # req[c]

(* A request is answered at most once: its answer is in one place. *)
OnceInv ==
    /\ \A m, n \in wire : m.id = n.id => m = n
    /\ frame # NoFrame => \A m \in wire : m.id # frame.id
    /\ \A s \in Streams : queue[s] # NoFrame =>
          /\ queue[s].stream = s
          /\ \A m \in wire : m.id # queue[s].id
          /\ frame # NoFrame => frame.id # queue[s].id
          /\ \A t \in Streams \ {s} :
                queue[t] # NoFrame => queue[t].id # queue[s].id
    /\ \A c \in Callers : reply[c] # NoFrame =>
          \A m \in InFlight : m.id # reply[c].id

(* On a stream that is not tainted, an answer in flight belongs to the call *)
(* that holds the stream, and a call that is about to release it has its    *)
(* own answer.                                                              *)
OwnerInv ==
    /\ \A m \in InFlight :
          Tainted(m.stream)
             \/ \E c \in Callers : sid[c] = m.stream /\ req[c] = m.id
    /\ \A c \in Callers : reply[c] # NoFrame =>
          reply[c].id = req[c] \/ Tainted(sid[c])
    /\ \A c \in Callers : pc[c] = "release" =>
          reply[c] # NoFrame \/ Tainted(sid[c])

ConnectionInv == TypeOK /\ StreamInv /\ RequestInv /\ OnceInv /\ OwnerInv

LEMMA InitInv == Init => ConnectionInv
<1> SUFFICES ASSUME Init
             PROVE  ConnectionInv
    OBVIOUS
<1>1. TypeOK
      BY InitType
<1>2. InFlight = {}
      BY DEF Init, InFlight
<1>3. StreamInv
      BY StreamsAssumption DEF Init, StreamInv
<1>4. RequestInv
      BY <1>2 DEF Init, RequestInv
<1>5. OnceInv
      BY <1>2 DEF Init, OnceInv
<1>6. OwnerInv
      BY <1>2 DEF Init, OwnerInv
<1> QED  BY <1>1, <1>3, <1>4, <1>5, <1>6 DEF ConnectionInv

(* Only StreamGuard's constructor and destructor touch the pool. *)
LEMMA StreamStep == TypeOK /\ StreamInv /\ [Next]_vars => StreamInv'
<1> SUFFICES ASSUME TypeOK, StreamInv, [Next]_vars
             PROVE  StreamInv'
    OBVIOUS
<1>1. ASSUME NEW c \in Callers, AcquireStream(c) PROVE StreamInv'
  <2>1. PICK s \in free : free' = free \ {s} /\ sid' = [sid EXCEPT ![c] = s]
        BY <1>1 DEF AcquireStream
  <2>2. sid[c] = NoStream
        BY <1>1 DEF AcquireStream, TypeOK, Holds
  <2> QED  BY <2>1, <2>2, StreamsAssumption DEF StreamInv, TypeOK
<1>2. ASSUME NEW c \in Callers, ReleaseStream(c) PROVE StreamInv'
  <2>1. /\ sid[c] \in Streams
        /\ free' = free \cup {sid[c]}
        /\ sid' = [sid EXCEPT ![c] = NoStream]
        BY <1>2, StreamsAssumption DEF ReleaseStream, TypeOK, Holds
  <2> QED  BY <2>1, StreamsAssumption DEF StreamInv, TypeOK
<1>3. CASE UNCHANGED <<free, sid>>
      BY <1>3 DEF StreamInv
<1> QED
  BY <1>1, <1>2, <1>3
     DEF Next, Call, CallerStep, StreamPoolExhausted, PopReply, PopTimeout,
         MarkBrokenAndThrow, CheckReply, DestroyTask, WaitInterrupted,
         SendStep, LockSendMutex, SendAll, SendCutShort, FinishSend,
         SerializeFails, ReceiverStep, ReadFrame, DiscardNegativeStream,
         ReadFails, StreamOutOfRange, PushFrame, PushTimeout, vars, callerVars

(* An answer comes into flight when its request is sent, and in no other    *)
(* way.                                                                     *)
LEMMA FlightStep ==
  ASSUME TypeOK, [Next]_vars
  PROVE  \/ InFlight' \subseteq InFlight
         \/ \E c \in Callers :
               /\ SendAll(c)
               /\ InFlight' = InFlight \cup {[stream |-> sid[c], id |-> req[c]]}
<1>1. ASSUME NEW c \in Callers, SendAll(c)
      PROVE  InFlight' = InFlight \cup {[stream |-> sid[c], id |-> req[c]]}
      BY <1>1 DEF SendAll, InFlight
<1>2. ASSUME NEW c \in Callers, PopReply(c)
      PROVE  InFlight' \subseteq InFlight
      BY <1>2 DEF PopReply, InFlight, TypeOK
<1>3. CASE ReadFrame
      BY <1>3 DEF ReadFrame, InFlight, TypeOK
<1>4. CASE DiscardNegativeStream
      BY <1>4 DEF DiscardNegativeStream, InFlight
<1>5. CASE PushFrame
      BY <1>5 DEF PushFrame, InFlight, TypeOK
<1>6. CASE PushTimeout
      BY <1>6 DEF PushTimeout, InFlight
<1>7. CASE UNCHANGED <<wire, frame, queue>>
      BY <1>7 DEF InFlight
<1> QED
  BY <1>1, <1>2, <1>3, <1>4, <1>5, <1>6, <1>7
     DEF Next, Call, CallerStep, AcquireStream, StreamPoolExhausted,
         PopTimeout, MarkBrokenAndThrow, CheckReply, DestroyTask,
         ReleaseStream, WaitInterrupted, SendStep, LockSendMutex,
         SendCutShort, FinishSend, SerializeFails, ReceiverStep, ReadFails,
         StreamOutOfRange, vars, callerVars

LEMMA RequestStep == TypeOK /\ RequestInv /\ [Next]_vars => RequestInv'
<1> SUFFICES ASSUME TypeOK, RequestInv, [Next]_vars
             PROVE  RequestInv'
    OBVIOUS
<1>t. TypeOK'
      BY TypeStep
<1>f. InFlight \subseteq Frames
      BY DEF TypeOK, InFlight
<1>1. ASSUME NEW c \in Callers, Call(c) PROVE RequestInv'
  <2>1. /\ InFlight' = InFlight /\ UNCHANGED <<task, reply>>
        /\ req' = [req EXCEPT ![c] = nextReq] /\ nextReq' = nextReq + 1
        /\ pc' = [pc EXCEPT ![c] = "acquire"]
        BY <1>1 DEF Call, InFlight
  <2>2. task[c] = "none"
        BY <1>1 DEF Call, TypeOK, Holds
  <2>3. \A m \in InFlight : m.id \in Nat
        BY <1>f DEF Frames
  <2>4. \A d \in Callers : reply[d] # NoFrame => reply[d].id \in Nat
        BY DEF TypeOK, Frames
  <2> QED  BY <2>1, <2>2, <2>3, <2>4 DEF RequestInv, TypeOK
<1>2. ASSUME NEW c \in Callers, SendAll(c) PROVE RequestInv'
  <2>1. /\ InFlight' = InFlight \cup {[stream |-> sid[c], id |-> req[c]]}
        /\ task' = [task EXCEPT ![c] = "sent"]
        /\ UNCHANGED <<pc, req, reply, nextReq>>
        BY <1>2 DEF SendAll, InFlight
  <2>2. task[c] = "sending" /\ pc[c] # "idle" /\ pc[c] # "acquire"
        BY <1>2 DEF SendAll, TypeOK, Holds
  <2>3. \A d \in Callers :
           pc[d] = "acquire" \/ task'[d] \in {"created", "sending"}
              => req[d] # req[c] /\ pc[d] # "idle"
        BY <2>1, <2>2 DEF RequestInv, TypeOK, Holds
  <2> QED  BY <2>1, <2>2, <2>3 DEF RequestInv, TypeOK
<1>3. ASSUME NEW c \in Callers, PopReply(c) PROVE RequestInv'
  <2>1. InFlight' \subseteq InFlight /\ queue[sid[c]] \in InFlight
        BY <1>3, StreamsAssumption DEF PopReply, InFlight, TypeOK, Holds
  <2>2. /\ reply' = [reply EXCEPT ![c] = queue[sid[c]]]
        /\ pc' = [pc EXCEPT ![c] = "join"] /\ pc[c] = "wait"
        /\ UNCHANGED <<req, task, nextReq>>
        BY <1>3 DEF PopReply
  <2> QED  BY <2>1, <2>2 DEF RequestInv, TypeOK
<1>4. ASSUME NEW c \in Callers, AcquireStream(c) PROVE RequestInv'
  <2>1. InFlight' = InFlight
        BY <1>4 DEF AcquireStream, InFlight
  <2> QED  BY <1>4, <2>1 DEF AcquireStream, RequestInv, TypeOK
<1>5. ASSUME NEW c \in Callers, ReleaseStream(c) PROVE RequestInv'
  <2>1. InFlight' = InFlight
        BY <1>5 DEF ReleaseStream, InFlight
  <2> QED  BY <1>5, <2>1 DEF ReleaseStream, RequestInv, TypeOK
<1>6. ASSUME NEW c \in Callers,
             \/ StreamPoolExhausted(c) \/ PopTimeout(c)
             \/ MarkBrokenAndThrow(c) \/ CheckReply(c) \/ DestroyTask(c)
             \/ WaitInterrupted(c)
      PROVE  RequestInv'
  <2>1. InFlight' = InFlight /\ UNCHANGED <<req, task, reply, nextReq>>
        BY <1>6 DEF StreamPoolExhausted, PopTimeout, MarkBrokenAndThrow,
                    CheckReply, DestroyTask, WaitInterrupted, InFlight
  <2>2. pc[c] # "idle" /\ \E p \in PCs \ {"acquire"} : pc' = [pc EXCEPT ![c] = p]
        BY <1>6 DEF StreamPoolExhausted, PopTimeout, MarkBrokenAndThrow,
                    CheckReply, DestroyTask, WaitInterrupted, PCs
  <2> QED  BY <2>1, <2>2 DEF RequestInv, TypeOK
<1>7. ASSUME NEW c \in Callers,
             \/ LockSendMutex(c) \/ SendCutShort(c) \/ FinishSend(c)
             \/ SerializeFails(c)
      PROVE  RequestInv'
  <2>1. InFlight' = InFlight /\ UNCHANGED <<pc, req, reply, nextReq>>
        BY <1>7 DEF LockSendMutex, SendCutShort, FinishSend, SerializeFails,
                    InFlight
  <2>2. \A d \in Callers : task'[d] \in {"created", "sending"}
                             => task[d] \in {"created", "sending"}
        BY <1>7 DEF LockSendMutex, SendCutShort, FinishSend, SerializeFails,
                    TypeOK
  <2> QED  BY <2>1, <2>2 DEF RequestInv
<1>8. CASE UNCHANGED <<callerVars, nextReq>>
  <2>1. InFlight' \subseteq InFlight
        BY FlightStep, <1>8 DEF SendAll, callerVars, TypeOK
  <2> QED  BY <1>8, <2>1 DEF RequestInv, callerVars
<1> QED
  BY <1>1, <1>2, <1>3, <1>4, <1>5, <1>6, <1>7, <1>8
     DEF Next, CallerStep, SendStep, ReceiverStep, ReadFrame,
         DiscardNegativeStream, ReadFails, StreamOutOfRange, PushFrame,
         PushTimeout, vars

LEMMA OnceStep == TypeOK /\ RequestInv /\ OnceInv /\ [Next]_vars => OnceInv'
<1> SUFFICES ASSUME TypeOK, RequestInv, OnceInv, [Next]_vars
             PROVE  OnceInv'
    OBVIOUS
<1>1. ASSUME NEW c \in Callers, SendAll(c) PROVE OnceInv'
  <2> DEFINE new == [stream |-> sid[c], id |-> req[c]]
  <2>1. /\ wire' = wire \cup {new} /\ InFlight' = InFlight \cup {new}
        /\ UNCHANGED <<frame, queue, reply>>
        BY <1>1 DEF SendAll, InFlight
  <2>2. task[c] = "sending"
        BY <1>1 DEF SendAll
  <2>3. /\ \A m \in InFlight : m.id # new.id
        /\ \A d \in Callers : reply[d] # NoFrame => reply[d].id # new.id
        BY <2>2 DEF RequestInv
  <2>4. /\ \A m \in wire : m \in InFlight
        /\ frame # NoFrame => frame \in InFlight
        /\ \A s \in Streams : queue[s] # NoFrame => queue[s] \in InFlight
        BY DEF InFlight
  <2> HIDE DEF new
  <2> QED  BY <2>1, <2>3, <2>4 DEF OnceInv
<1>2. ASSUME NEW c \in Callers, PopReply(c) PROVE OnceInv'
  <2>1. sid[c] \in Streams
        BY <1>2, StreamsAssumption DEF PopReply, TypeOK, Holds
  <2>2. InFlight' \subseteq InFlight
        BY <1>2, <2>1 DEF PopReply, InFlight, TypeOK
  <2>3. \A m \in InFlight' : m.id # queue[sid[c]].id
        BY <1>2, <2>1 DEF PopReply, InFlight, TypeOK, OnceInv
  <2> QED  BY <1>2, <2>1, <2>2, <2>3 DEF PopReply, OnceInv, TypeOK
<1>3. ASSUME NEW c \in Callers, ReleaseStream(c) PROVE OnceInv'
      BY <1>3 DEF ReleaseStream, OnceInv, TypeOK, InFlight
<1>4. CASE ReadFrame
  <2>1. frame = NoFrame /\ InFlight' \subseteq InFlight
        BY <1>4 DEF ReadFrame, TypeOK, InFlight
  <2>2. PICK m \in wire : wire' = wire \ {m} /\ frame' = m
        BY <1>4 DEF ReadFrame
  <2> QED  BY <1>4, <2>1, <2>2 DEF ReadFrame, OnceInv, callerVars
<1>5. CASE DiscardNegativeStream
  <2>1. InFlight' \subseteq InFlight
        BY <1>5 DEF DiscardNegativeStream, InFlight
  <2> QED  BY <1>5, <2>1 DEF DiscardNegativeStream, OnceInv, callerVars
<1>6. CASE PushFrame
  <2>1. InFlight' \subseteq InFlight /\ frame # NoFrame /\ frame.stream \in Streams
        BY <1>6 DEF PushFrame, TypeOK, InFlight, Frames
  <2> QED  BY <1>6, <2>1 DEF PushFrame, OnceInv, callerVars, TypeOK
<1>7. CASE PushTimeout
  <2>1. InFlight' \subseteq InFlight
        BY <1>7 DEF PushTimeout, InFlight
  <2> QED  BY <1>7, <2>1 DEF PushTimeout, OnceInv, callerVars
<1>8. CASE UNCHANGED <<wire, frame, queue, reply>>
      BY <1>8 DEF OnceInv, InFlight
<1> QED
  BY <1>1, <1>2, <1>3, <1>4, <1>5, <1>6, <1>7, <1>8
     DEF Next, Call, CallerStep, AcquireStream, StreamPoolExhausted,
         PopTimeout, MarkBrokenAndThrow, CheckReply, DestroyTask,
         WaitInterrupted, SendStep, LockSendMutex, SendCutShort, FinishSend,
         SerializeFails, ReceiverStep, ReadFails, StreamOutOfRange, vars,
         callerVars

(* The step that matters is ReleaseStream: the call has its own answer, so  *)
(* no answer to it is in flight any more, or the stream is tainted.         *)
LEMMA OwnerStep == ConnectionInv /\ [Next]_vars => OwnerInv'
<1> SUFFICES ASSUME ConnectionInv, [Next]_vars
             PROVE  OwnerInv'
    OBVIOUS
<1> USE DEF ConnectionInv
<1>f. InFlight \subseteq Frames
      BY DEF TypeOK, InFlight
<1>1. ASSUME NEW c \in Callers, Call(c) PROVE OwnerInv'
  <2>1. /\ InFlight' = InFlight /\ UNCHANGED <<sid, reply, broken, poisoned>>
        /\ req' = [req EXCEPT ![c] = nextReq]
        /\ pc' = [pc EXCEPT ![c] = "acquire"]
        BY <1>1 DEF Call, InFlight
  <2>2. sid[c] = NoStream /\ reply[c] = NoFrame
        BY <1>1 DEF Call, TypeOK, Holds
  <2>3. \A m \in InFlight : m.stream # NoStream
        BY <1>f, StreamsAssumption DEF Frames
  <2> QED  BY <2>1, <2>2, <2>3 DEF OwnerInv, Tainted, TypeOK
<1>2. ASSUME NEW c \in Callers, AcquireStream(c) PROVE OwnerInv'
  <2>1. PICK s \in free : sid' = [sid EXCEPT ![c] = s]
        BY <1>2 DEF AcquireStream
  <2>2. /\ InFlight' = InFlight /\ UNCHANGED <<req, reply, broken, poisoned>>
        /\ pc' = [pc EXCEPT ![c] = "wait"]
        BY <1>2 DEF AcquireStream, InFlight
  <2>3. sid[c] = NoStream /\ reply[c] = NoFrame
        BY <1>2 DEF AcquireStream, TypeOK, Holds
  <2>4. \A m \in InFlight : m.stream # NoStream
        BY <1>f, StreamsAssumption DEF Frames
  <2> QED  BY <2>1, <2>2, <2>3, <2>4 DEF OwnerInv, Tainted, TypeOK
<1>3. ASSUME NEW c \in Callers, PopReply(c) PROVE OwnerInv'
  <2>1. sid[c] \in Streams /\ queue[sid[c]] # NoFrame
        BY <1>3, StreamsAssumption DEF PopReply, TypeOK, Holds
  <2>2. /\ queue[sid[c]] \in InFlight /\ queue[sid[c]].stream = sid[c]
        /\ InFlight' \subseteq InFlight
        BY <1>3, <2>1 DEF PopReply, InFlight, TypeOK, OnceInv
  <2>3. queue[sid[c]].id = req[c] \/ Tainted(sid[c])
        BY <2>1, <2>2 DEF OwnerInv, StreamInv
  <2> QED  BY <1>3, <2>2, <2>3 DEF PopReply, OwnerInv, Tainted, TypeOK
<1>4. ASSUME NEW c \in Callers, MarkBrokenAndThrow(c) PROVE OwnerInv'
      BY <1>4 DEF MarkBrokenAndThrow, OwnerInv, Tainted
<1>5. ASSUME NEW c \in Callers, CheckReply(c) PROVE OwnerInv'
      BY <1>5 DEF CheckReply, OwnerInv, Tainted, InFlight, TypeOK
<1>6. ASSUME NEW c \in Callers, DestroyTask(c) PROVE OwnerInv'
  <2>1. /\ InFlight' = InFlight /\ UNCHANGED <<req, sid, reply, broken>>
        /\ pc' = [pc EXCEPT ![c] = "release"]
        /\ poisoned \subseteq poisoned'
        /\ reply[c] = NoFrame => sid[c] \in poisoned'
        BY <1>6 DEF DestroyTask, InFlight
  <2> QED  BY <2>1 DEF OwnerInv, Tainted, TypeOK
<1>7. ASSUME NEW c \in Callers, ReleaseStream(c) PROVE OwnerInv'
  <2>1. /\ InFlight' = InFlight /\ UNCHANGED <<req, broken, poisoned>>
        /\ sid' = [sid EXCEPT ![c] = NoStream]
        /\ reply' = [reply EXCEPT ![c] = NoFrame]
        /\ pc' = [pc EXCEPT ![c] = "idle"] /\ pc[c] = "release"
        BY <1>7 DEF ReleaseStream, InFlight
  <2>2. Tainted(sid[c]) \/ \A m \in InFlight : m.id # req[c]
        BY <2>1 DEF OwnerInv, OnceInv
  <2>3. ASSUME NEW m \in InFlight, ~Tainted(m.stream)
        PROVE  \E d \in Callers : sid'[d] = m.stream /\ req[d] = m.id
    <3>1. PICK d \in Callers : sid[d] = m.stream /\ req[d] = m.id
          BY <2>3 DEF OwnerInv
    <3>2. d # c
          BY <2>2, <2>3, <3>1
    <3> QED  BY <2>1, <3>1, <3>2 DEF TypeOK
  <2> QED  BY <2>1, <2>3 DEF OwnerInv, Tainted, TypeOK
<1>8. ASSUME NEW c \in Callers, SendAll(c) PROVE OwnerInv'
  <2> DEFINE new == [stream |-> sid[c], id |-> req[c]]
  <2>1. /\ InFlight' = InFlight \cup {new}
        /\ UNCHANGED <<pc, sid, req, reply, broken, poisoned>>
        BY <1>8 DEF SendAll, InFlight
  <2>2. sid[c] = new.stream /\ req[c] = new.id
        OBVIOUS
  <2> HIDE DEF new
  <2> QED  BY <2>1, <2>2 DEF OwnerInv, Tainted
<1>9. ASSUME NEW c \in Callers,
             StreamPoolExhausted(c) \/ PopTimeout(c) \/ WaitInterrupted(c)
      PROVE  OwnerInv'
  <2>1. InFlight' = InFlight /\ UNCHANGED <<sid, req, reply, broken, poisoned>>
        BY <1>9 DEF StreamPoolExhausted, PopTimeout, WaitInterrupted, InFlight
  <2>2. \E p \in PCs \ {"release"} : pc' = [pc EXCEPT ![c] = p]
        BY <1>9 DEF StreamPoolExhausted, PopTimeout, WaitInterrupted, PCs
  <2> QED  BY <2>1, <2>2 DEF OwnerInv, Tainted, TypeOK
<1>10. CASE /\ UNCHANGED <<pc, sid, req, reply, poisoned>>
            /\ broken => broken'
            /\ InFlight' \subseteq InFlight
      BY <1>10 DEF OwnerInv, Tainted
<1>11. ASSUME NEW c \in Callers,
              \/ LockSendMutex(c) \/ SendCutShort(c) \/ FinishSend(c)
              \/ SerializeFails(c)
       PROVE  OwnerInv'
       BY <1>10, <1>11 DEF LockSendMutex, SendCutShort, FinishSend,
                           SerializeFails, InFlight
<1>12. CASE ReceiverStep \/ UNCHANGED vars
  <2>1. UNCHANGED <<pc, sid, req, task, reply, poisoned>> /\ (broken => broken')
        BY <1>12 DEF ReceiverStep, ReadFrame, DiscardNegativeStream, ReadFails,
                     StreamOutOfRange, PushFrame, PushTimeout, vars, callerVars
  <2>2. InFlight' \subseteq InFlight
        BY <2>1, FlightStep DEF SendAll, TypeOK
  <2> QED  BY <1>10, <2>1, <2>2
<1> QED
  BY <1>1, <1>2, <1>3, <1>4, <1>5, <1>6, <1>7, <1>8, <1>9, <1>11, <1>12
     DEF Next, CallerStep, SendStep

LEMMA InvariantHolds == Spec => []ConnectionInv
<1>1. ConnectionInv /\ [Next]_vars => ConnectionInv'
      BY TypeStep, StreamStep, RequestStep, OnceStep, OwnerStep
         DEF ConnectionInv
<1> QED  BY <1>1, InitInv, PTL DEF Spec

-----------------------------------------------------------------------------
(* What follows from it.                                                    *)

(* The pool neither loses nor duplicates a stream id, whichever way calls   *)
(* leave ExecuteMessageAsync.                                               *)
THEOREM StreamsAreConserved == Spec => []StreamsPartitioned
<1>1. ConnectionInv => StreamsPartitioned
      BY DEF ConnectionInv, StreamInv, StreamsPartitioned, TypeOK
<1> QED  BY <1>1, InvariantHolds, PTL

(* As long as the connection is not marked broken, a caller that gets an    *)
(* answer gets its own, unless an interrupted call has left the stream      *)
(* behind: MarkBroken before ~StreamGuard is what makes the reuse of stream *)
(* ids safe after a timeout.                                                *)
THEOREM RepliesAreOwn == Spec => []ReplyIsOwn
<1>1. ConnectionInv => ReplyIsOwn
      BY DEF ConnectionInv, OwnerInv, ReplyIsOwn, Tainted
<1> QED  BY <1>1, InvariantHolds, PTL

(* The receiver never finds the slot it pushes into full, unless the        *)
(* connection is marked broken or an interrupted call has left the stream   *)
(* behind: no caller can hold up the answers of the others.                 *)
THEOREM ReceiverNeverStalls == Spec => []PushNeverStalls
<1>1. ConnectionInv => PushNeverStalls
  <2> SUFFICES ASSUME ConnectionInv, receiver = "pushing",
                      queue[frame.stream] # NoFrame, ~Tainted(frame.stream)
               PROVE  FALSE
      BY DEF PushNeverStalls, Tainted
  <2> DEFINE s == frame.stream
  <2>1. frame # NoFrame /\ s \in Streams
        BY DEF ConnectionInv, TypeOK, Frames
  <2>2. frame \in InFlight /\ queue[s] \in InFlight /\ queue[s].stream = s
        BY <2>1 DEF InFlight, ConnectionInv, OnceInv
  <2>3. PICK c \in Callers : sid[c] = s /\ req[c] = frame.id
        BY <2>2 DEF ConnectionInv, OwnerInv
  <2>4. PICK d \in Callers : sid[d] = s /\ req[d] = queue[s].id
        BY <2>2 DEF ConnectionInv, OwnerInv
  <2>5. c = d
        BY <2>1, <2>3, <2>4 DEF ConnectionInv, StreamInv
  <2>6. frame.id # queue[s].id
        BY <2>1 DEF ConnectionInv, OnceInv
  <2> QED  BY <2>3, <2>4, <2>5, <2>6
<1> QED  BY <1>1, InvariantHolds, PTL

(* A connection that is idle and not marked broken is quiet: no caller is   *)
(* inside and no answer is in flight, except on streams that an interrupted *)
(* call has left behind.                                                    *)
THEOREM IdleMeansQuiet == Spec => []IdleIsQuiet
<1>1. ConnectionInv => IdleIsQuiet
  <2> SUFFICES ASSUME ConnectionInv, IsIdle, ~broken
               PROVE  /\ \A c \in Callers : ~Holds(c)
                      /\ \A m \in InFlight : m.stream \in poisoned
                      /\ \A m \in wire : m \in InFlight
                      /\ receiver = "pushing" => frame \in InFlight
                      /\ \A s \in Streams : queue[s] # NoFrame =>
                            queue[s] \in InFlight /\ queue[s].stream = s
      BY DEF IdleIsQuiet, IsBroken
  <2>1. Streams \ free = {}
    <3>1. IsFiniteSet(Streams \ free)
          BY StreamsFinite, FS_Subset
    <3> QED  BY <3>1, FS_EmptySet DEF IsIdle, GetUsedStreams
  <2>2. \A c \in Callers : sid[c] = NoStream
        BY <2>1 DEF ConnectionInv, TypeOK, StreamInv
  <2>3. \A c \in Callers : ~Holds(c)
        BY <2>2 DEF ConnectionInv, TypeOK
  <2>4. \A m \in InFlight : m.stream \in Streams
        BY DEF ConnectionInv, TypeOK, InFlight, Frames
  <2>5. \A m \in InFlight : m.stream \in poisoned
        BY <2>2, <2>4, StreamsAssumption DEF ConnectionInv, OwnerInv, Tainted
  <2>6. receiver = "pushing" => frame # NoFrame
        BY DEF ConnectionInv, TypeOK
  <2> QED  BY <2>3, <2>5, <2>6 DEF InFlight, ConnectionInv, OnceInv
<1> QED  BY <1>1, InvariantHolds, PTL
=============================================================================
