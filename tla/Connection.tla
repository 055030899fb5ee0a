----------------------------- MODULE Connection -----------------------------
(***************************************************************************)
(* One established connection to a Cassandra node: ConnectionImpl and its  *)
(* StreamPool (src/src/detail/connection_impl.cpp, stream_pool.hpp/.cpp)   *)
(* from the moment StartReceiverLoop has run.                              *)
(*                                                                         *)
(* Any number of callers multiplex their requests over the socket.  A      *)
(* caller takes a stream id from the pool, starts a background task that   *)
(* serialises and sends the request under _send_mutex, and waits on the    *)
(* one-slot queue of its stream; the receiver task reads frames from the   *)
(* socket and pushes each into the queue of the stream it names.           *)
(*                                                                         *)
(* The node (external) answers the requests it has in any order, each at   *)
(* most once, or never.  Requests are told apart by a number, which only   *)
(* the model knows: the code matches an answer to its call by stream id    *)
(* alone, and whether that is enough is what this module is about.         *)
(***************************************************************************)
EXTENDS Naturals, FiniteSets

CONSTANTS
    Callers,    \* tasks that call Execute, ExecutePrepared, Prepare, ...
    Streams,    \* the ids 0 .. kMaxStreams-1 the pool is filled with
    NoStream,   \* _stream_id before StreamGuard has one
    NoFrame,    \* a null shared_ptr<ResponseMessage>
    MaxCalls    \* bound: number of requests in a behaviour

ASSUME StreamsAssumption  == NoStream \notin Streams
ASSUME StreamsFinite      == IsFiniteSet(Streams)
ASSUME MaxCallsAssumption == MaxCalls \in Nat
ASSUME FrameAssumption    == NoFrame \notin [stream : Streams, id : Nat]

VARIABLES
    free,       \* StreamPool::_queue: the ids nobody holds
    broken,     \* ConnectionImpl::_broken
    pc,         \* where each caller is in ExecuteMessageAsync
    sid,        \* the caller's guard.GetStreamId()
    req,        \* the number of the caller's request
    task,       \* the caller's send task
    reply,      \* the caller's `result`
    nextReq,    \* the number of the next request
    wire,       \* requests sent whose answer has not been read
    receiver,   \* ReceiverLoop
    frame,      \* ReceiverLoop's `frame`
    queue,      \* _received_message_queue_map: one slot per stream
    poisoned    \* history: streams released by an interrupted wait

callerVars == <<pc, sid, req, task, reply>>
vars == <<free, broken, callerVars, nextReq, wire, receiver, frame, queue,
          poisoned>>

(* An answer frame: the stream id in its header, and the request it answers. *)
Frames == [stream : Streams, id : Nat]

PCs == {"idle", "acquire", "wait", "join", "unwind", "release"}

(* "created": CriticalAsyncNoTracing has been called; "sending": the task   *)
(* owns _send_mutex and is in SendAll; "sent": SendAll has returned or      *)
(* thrown; "done": finished, with or without an exception.                  *)
TaskStates == {"none", "created", "sending", "sent", "done"}

(* The caller's StreamGuard is alive. *)
Holds(c) == pc[c] \in {"wait", "join", "unwind", "release"}

GetUsedStreams == Cardinality(Streams \ free)
IsIdle == GetUsedStreams = 0
IsBroken == broken

Init ==
    /\ free = Streams
    /\ broken = FALSE
    /\ pc = [c \in Callers |-> "idle"]
    /\ sid = [c \in Callers |-> NoStream]
    /\ req = [c \in Callers |-> 0]
    /\ task = [c \in Callers |-> "none"]
    /\ reply = [c \in Callers |-> NoFrame]
    /\ nextReq = 1
    /\ wire = {}
    /\ receiver = "reading"
    /\ frame = NoFrame
    /\ queue = [s \in Streams |-> NoFrame]
    /\ poisoned = {}

-----------------------------------------------------------------------------
(* The caller: ExecuteMessageAsync.                                         *)

(* Execute, ExecutePrepared, Prepare or BatchExecute is entered.  Nothing   *)
(* checks _broken here: the pool looked at it when it chose the connection. *)
Call(c) ==
    /\ pc[c] = "idle"
    /\ nextReq <= MaxCalls
    /\ req' = [req EXCEPT ![c] = nextReq]
    /\ nextReq' = nextReq + 1
    /\ pc' = [pc EXCEPT ![c] = "acquire"]
    /\ UNCHANGED <<free, broken, sid, task, reply, wire, receiver, frame,
                   queue, poisoned>>

(* Deviation: the id is read and not taken out of the pool. *)
AcquireStreamPeek(c) ==
    /\ pc[c] = "acquire"
    /\ \E s \in free : sid' = [sid EXCEPT ![c] = s]
    /\ task' = [task EXCEPT ![c] = "created"]
    /\ pc' = [pc EXCEPT ![c] = "wait"]
    /\ UNCHANGED <<free, broken, req, reply, nextReq, wire, receiver, frame,
                   queue, poisoned>>

(* StreamGuard gets an id (NonFifoMpmcQueue: any of them) and the send task *)
(* is started.                                                              *)
AcquireStream(c) ==
    /\ pc[c] = "acquire"
    /\ \E s \in free :
          /\ free' = free \ {s}
          /\ sid' = [sid EXCEPT ![c] = s]
    /\ task' = [task EXCEPT ![c] = "created"]
    /\ pc' = [pc EXCEPT ![c] = "wait"]
    /\ UNCHANGED <<broken, req, reply, nextReq, wire, receiver, frame, queue,
                   poisoned>>

(* One second without a free id, or the calling task is cancelled: Acquire  *)
(* throws ConnectionError and there is no guard to destroy.                 *)
StreamPoolExhausted(c) ==
    /\ pc[c] = "acquire"
    /\ free = {}
    /\ pc' = [pc EXCEPT ![c] = "idle"]
    /\ UNCHANGED <<free, broken, sid, req, task, reply, nextReq, wire,
                   receiver, frame, queue, poisoned>>

(* Pop takes whatever is in the slot of the caller's stream. *)
PopReply(c) ==
    /\ pc[c] = "wait"
    /\ queue[sid[c]] # NoFrame
    /\ reply' = [reply EXCEPT ![c] = queue[sid[c]]]
    /\ queue' = [queue EXCEPT ![sid[c]] = NoFrame]
    /\ pc' = [pc EXCEPT ![c] = "join"]
    /\ UNCHANGED <<free, broken, sid, req, task, nextReq, wire, receiver,
                   frame, poisoned>>

(* Deviation: Pop without a deadline, woken only by the receiver's end. *)
PopUntilReceiverEnds(c) ==
    /\ pc[c] = "wait"
    /\ queue[sid[c]] = NoFrame
    /\ receiver = "exited"
    /\ pc' = [pc EXCEPT ![c] = "join"]
    /\ UNCHANGED <<free, broken, sid, req, task, reply, nextReq, wire,
                   receiver, frame, queue, poisoned>>

(* Pop gives up on an empty slot: deadline, or cancellation of the caller. *)
PopTimeout(c) ==
    /\ pc[c] = "wait"
    /\ queue[sid[c]] = NoFrame
    /\ pc' = [pc EXCEPT ![c] = "join"]
    /\ UNCHANGED <<free, broken, sid, req, task, reply, nextReq, wire,
                   receiver, frame, queue, poisoned>>

(* Deviation: the timeout is thrown and MarkBroken is not called. *)
ThrowWithoutMark(c) ==
    /\ pc[c] = "join"
    /\ task[c] = "done"
    /\ reply[c] = NoFrame
    /\ pc' = [pc EXCEPT ![c] = "release"]
    /\ UNCHANGED <<free, broken, sid, req, task, reply, nextReq, wire,
                   receiver, frame, queue, poisoned>>

(* task.Wait() returned and there is no answer: MarkBroken, then throw. *)
MarkBrokenAndThrow(c) ==
    /\ pc[c] = "join"
    /\ task[c] = "done"
    /\ reply[c] = NoFrame
    /\ broken' = TRUE
    /\ pc' = [pc EXCEPT ![c] = "release"]
    /\ UNCHANGED <<free, sid, req, task, reply, nextReq, wire, receiver,
                   frame, queue, poisoned>>

(* task.Wait() returned and there is an answer: CheckError throws or the    *)
(* result is returned; the connection is left alone in both cases.          *)
CheckReply(c) ==
    /\ pc[c] = "join"
    /\ task[c] = "done"
    /\ reply[c] # NoFrame
    /\ pc' = [pc EXCEPT ![c] = "release"]
    /\ UNCHANGED <<free, broken, sid, req, task, reply, nextReq, wire,
                   receiver, frame, queue, poisoned>>

(* The caller is cancelled while it waits for an unfinished send task:      *)
(* Wait() throws, so MarkBroken is skipped; the task's destructor cancels   *)
(* the send task and waits for it.                                          *)
WaitInterrupted(c) ==
    /\ pc[c] = "join"
    /\ task[c] # "done"
    /\ pc' = [pc EXCEPT ![c] = "unwind"]
    /\ UNCHANGED <<free, broken, sid, req, task, reply, nextReq, wire,
                   receiver, frame, queue, poisoned>>

(* ~TaskWithResult has waited for the send task.  The history variable      *)
(* records the stream when its caller leaves without an answer.             *)
DestroyTask(c) ==
    /\ pc[c] = "unwind"
    /\ task[c] = "done"
    /\ poisoned' = IF reply[c] = NoFrame THEN poisoned \cup {sid[c]}
                   ELSE poisoned
    /\ pc' = [pc EXCEPT ![c] = "release"]
    /\ UNCHANGED <<free, broken, sid, req, task, reply, nextReq, wire,
                   receiver, frame, queue>>

(* Deviation: the guard forgets its id before it gives it back. *)
ReleaseForgottenStream(c) ==
    /\ pc[c] = "release"
    /\ sid' = [sid EXCEPT ![c] = NoStream]
    /\ free' = free \cup {sid'[c]}
    /\ task' = [task EXCEPT ![c] = "none"]
    /\ reply' = [reply EXCEPT ![c] = NoFrame]
    /\ pc' = [pc EXCEPT ![c] = "idle"]
    /\ UNCHANGED <<broken, req, nextReq, wire, receiver, frame, queue,
                   poisoned>>

(* ~StreamGuard: the id goes back to the pool. *)
ReleaseStream(c) ==
    /\ pc[c] = "release"
    /\ free' = free \cup {sid[c]}
    /\ sid' = [sid EXCEPT ![c] = NoStream]
    /\ task' = [task EXCEPT ![c] = "none"]
    /\ reply' = [reply EXCEPT ![c] = NoFrame]
    /\ pc' = [pc EXCEPT ![c] = "idle"]
    /\ UNCHANGED <<broken, req, nextReq, wire, receiver, frame, queue,
                   poisoned>>

-----------------------------------------------------------------------------
(* The send task: SendMessage(unique_ptr).                                  *)

(* The request is serialised (and compressed) and _send_mutex is free. *)
LockSendMutex(c) ==
    /\ task[c] = "created"
    /\ \A d \in Callers : task[d] \notin {"sending", "sent"}
    /\ task' = [task EXCEPT ![c] = "sending"]
    /\ UNCHANGED <<free, broken, pc, sid, req, reply, nextReq, wire, receiver,
                   frame, queue, poisoned>>

(* Serialize throws: nothing is sent, and nobody looks at the exception. *)
SerializeFails(c) ==
    /\ task[c] = "created"
    /\ task' = [task EXCEPT ![c] = "done"]
    /\ UNCHANGED <<free, broken, pc, sid, req, reply, nextReq, wire, receiver,
                   frame, queue, poisoned>>

(* SendAll gives the node the whole request, or a part of it that the node  *)
(* nevertheless answers (with an error).                                    *)
SendAll(c) ==
    /\ task[c] = "sending"
    /\ task' = [task EXCEPT ![c] = "sent"]
    /\ wire' = wire \cup {[stream |-> sid[c], id |-> req[c]]}
    /\ UNCHANGED <<free, broken, pc, sid, req, reply, nextReq, receiver,
                   frame, queue, poisoned>>

(* SendAll is cut short (deadline, cancellation, closed socket): a log line *)
(* or an exception that Wait() does not rethrow.                            *)
SendCutShort(c) ==
    /\ task[c] = "sending"
    /\ task' = [task EXCEPT ![c] = "sent"]
    /\ UNCHANGED <<free, broken, pc, sid, req, reply, nextReq, wire, receiver,
                   frame, queue, poisoned>>

(* _send_mutex is unlocked and the task finishes. *)
FinishSend(c) ==
    /\ task[c] = "sent"
    /\ task' = [task EXCEPT ![c] = "done"]
    /\ UNCHANGED <<free, broken, pc, sid, req, reply, nextReq, wire, receiver,
                   frame, queue, poisoned>>

-----------------------------------------------------------------------------
(* The receiver task: ReceiverLoop.                                         *)

(* ReadFrame returns an answer of the node to one of the open requests. *)
ReadFrame ==
    /\ receiver = "reading"
    /\ \E m \in wire :
          /\ wire' = wire \ {m}
          /\ frame' = m
    /\ receiver' = "pushing"
    /\ UNCHANGED <<free, broken, callerVars, nextReq, queue, poisoned>>

(* A frame with stream_id < 0 is discarded; the request it was about stays  *)
(* unanswered.                                                              *)
DiscardNegativeStream ==
    /\ receiver = "reading"
    /\ \E m \in wire : wire' = wire \ {m}
    /\ UNCHANGED <<free, broken, callerVars, nextReq, receiver, frame, queue,
                   poisoned>>

(* ReadFrame throws: end of stream, I/O error, a direction or opcode it     *)
(* does not know (EVENT is one), a body that does not decode.               *)
ReadFails ==
    /\ receiver = "reading"
    /\ broken' = TRUE
    /\ receiver' = "exited"
    /\ UNCHANGED <<free, callerVars, nextReq, wire, frame, queue, poisoned>>

(* stream_id >= kMaxStreams: the loop ends, the connection is not marked. *)
StreamOutOfRange ==
    /\ receiver = "reading"
    /\ receiver' = "exited"
    /\ UNCHANGED <<free, broken, callerVars, nextReq, wire, frame, queue,
                   poisoned>>

(* Push finds the slot of the frame's stream empty. *)
PushFrame ==
    /\ receiver = "pushing"
    /\ queue[frame.stream] = NoFrame
    /\ queue' = [queue EXCEPT ![frame.stream] = frame]
    /\ frame' = NoFrame
    /\ receiver' = "reading"
    /\ UNCHANGED <<free, broken, callerVars, nextReq, wire, poisoned>>

(* The slot stays full for 30 seconds: the loop ends, the connection is not *)
(* marked, the frame is lost.                                               *)
PushTimeout ==
    /\ receiver = "pushing"
    /\ queue[frame.stream] # NoFrame
    /\ frame' = NoFrame
    /\ receiver' = "exited"
    /\ UNCHANGED <<free, broken, callerVars, nextReq, wire, queue, poisoned>>

-----------------------------------------------------------------------------
(* What the caller does on its own, cancellation left out: its deadlines    *)
(* and the end of its send task make every one of these happen.             *)
CallerStep(c) ==
    \/ AcquireStream(c)
    \/ StreamPoolExhausted(c)
    \/ PopReply(c)
    \/ PopTimeout(c)
    \/ MarkBrokenAndThrow(c)
    \/ CheckReply(c)
    \/ DestroyTask(c)
    \/ ReleaseStream(c)

(* What the send task does: SendAll ends at the deadline at the latest. *)
SendStep(c) ==
    \/ LockSendMutex(c)
    \/ SendAll(c)
    \/ SendCutShort(c)
    \/ FinishSend(c)

ReceiverStep ==
    \/ ReadFrame
    \/ DiscardNegativeStream
    \/ ReadFails
    \/ StreamOutOfRange
    \/ PushFrame
    \/ PushTimeout

Next ==
    \/ \E c \in Callers :
          \/ Call(c)
          \/ CallerStep(c)
          \/ WaitInterrupted(c)
          \/ SendStep(c)
          \/ SerializeFails(c)
    \/ ReceiverStep

Spec == Init /\ [][Next]_vars

(* The tasks of a call run to their deadlines.  Nothing is assumed of the   *)
(* node, of the receiver, or of cancellation.                               *)
Fairness == \A c \in Callers : WF_vars(CallerStep(c)) /\ WF_vars(SendStep(c))

FairSpec == Spec /\ Fairness

-----------------------------------------------------------------------------
(* Properties.                                                              *)

(* Every variable has its type; a caller has a stream and a send task       *)
(* exactly while its StreamGuard is alive, and the receiver has a frame     *)
(* exactly while it pushes one.                                             *)
TypeOK ==
    /\ free \subseteq Streams
    /\ broken \in BOOLEAN
    /\ pc \in [Callers -> PCs]
    /\ sid \in [Callers -> Streams \cup {NoStream}]
    /\ req \in [Callers -> Nat]
    /\ task \in [Callers -> TaskStates]
    /\ reply \in [Callers -> Frames \cup {NoFrame}]
    /\ nextReq \in Nat
    /\ wire \subseteq Frames
    /\ receiver \in {"reading", "pushing", "exited"}
    /\ frame \in Frames \cup {NoFrame}
    /\ queue \in [Streams -> Frames \cup {NoFrame}]
    /\ poisoned \subseteq Streams
    /\ \A c \in Callers : /\ Holds(c) <=> sid[c] # NoStream
                          /\ Holds(c) <=> task[c] # "none"
                          /\ reply[c] # NoFrame => Holds(c)
    /\ receiver = "pushing" <=> frame # NoFrame

(* StreamPool never loses an id and never gives one out twice: an id is     *)
(* either in the pool or held by exactly one StreamGuard, on every way out  *)
(* of ExecuteMessageAsync.                                                  *)
StreamsPartitioned ==
    \A s \in Streams :
        IF s \in free THEN \A c \in Callers : sid[c] # s
        ELSE \E c \in Callers : /\ sid[c] = s
                               /\ \A d \in Callers : sid[d] = s => d = c

(* Matching answers to calls by stream id is right as long as the           *)
(* connection is not marked broken: the only answer to another call a       *)
(* caller can be given is on a stream that an interrupted call left behind. *)
ReplyIsOwn ==
    \A c \in Callers :
        reply[c] # NoFrame => \/ reply[c].id = req[c]
                              \/ broken
                              \/ sid[c] \in poisoned

(* One slow or absent caller does not stop the receiver for the others:     *)
(* the slot it pushes into is empty, so the 30 second Push timeout, which   *)
(* ends the loop without marking the connection, needs a stream that was    *)
(* released with its request unanswered.                                    *)
PushNeverStalls ==
    receiver = "pushing" /\ queue[frame.stream] # NoFrame
        => broken \/ frame.stream \in poisoned

(* IsIdle() on a connection not marked broken means what the pool takes it  *)
(* to mean: no caller is inside, and no answer is on its way to anybody,    *)
(* except on streams that an interrupted call left behind.                  *)
IdleIsQuiet ==
    IsIdle /\ ~IsBroken =>
        /\ \A c \in Callers : ~Holds(c)
        /\ \A m \in wire : m.stream \in poisoned
        /\ receiver = "pushing" => frame.stream \in poisoned
        /\ \A s \in Streams : queue[s] # NoFrame => s \in poisoned

(* Every call returns or throws, whatever the node and the receiver do: the *)
(* deadlines of StreamGuard, Pop and SendAll are enough, and nobody waits   *)
(* for _send_mutex forever.                                                 *)
EveryCallReturns ==
    \A c \in Callers : pc[c] = "acquire" ~> pc[c] = "idle"

(* A receiver that ended without a word is found out by the first call that *)
(* waits for it: the call marks the connection broken, so that the pool     *)
(* drops it.  The only way around is that the wait of that very call is     *)
(* interrupted, after which its stream, sound until then, is poisoned.      *)
DeadReceiverIsNoticed ==
    \A s \in Streams :
        (/\ receiver = "exited" /\ queue[s] = NoFrame /\ s \notin poisoned
         /\ \E c \in Callers : pc[c] = "wait" /\ sid[c] = s)
            ~> (broken \/ s \in poisoned)

(* What a thread-safe session needs of a connection the pool may still hand *)
(* out: the answer a caller gets is the answer to its own request.          *)
HealthyReplyIsOwn ==
    ~broken => \A c \in Callers : reply[c] # NoFrame => reply[c].id = req[c]
=============================================================================
