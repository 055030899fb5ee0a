----------------------------- MODULE Handshake ------------------------------
(***************************************************************************)
(* How one connection comes to be: Connection::Connect and AsyncConnect    *)
(* (src/src/detail/connection.cpp, connection_impl.cpp).  One task         *)
(* resolves the contact point, tries its addresses in turn, and exchanges  *)
(* OPTIONS/SUPPORTED and STARTUP/READY with the node over the new socket;  *)
(* the receiver of module Connection starts only after that.               *)
(*                                                                         *)
(* Both requests go out on stream 0, which the StreamPool hands to callers *)
(* too, and answers are not matched to requests: ExecuteMessage takes the  *)
(* next frame.  The node (external) answers in order.                      *)
(***************************************************************************)
EXTENDS Naturals, Sequences

CONSTANTS
    NumAddresses    \* addresses the contact point resolves to

ASSUME AddressesAssumption == NumAddresses \in Nat

Addresses == 1 .. NumAddresses

VARIABLES
    description,    \* the part of NodeDescription the task is given
    node,           \* what kind of node it is going to talk to
    phase,          \* where the task is
    late,           \* the deadline of Connect, shared by all addresses, is over
    tried,          \* addresses tried without success
    lz4,            \* the choice between the two STARTUP messages
    compressor,     \* _compressor_ptr is set
    broken,         \* ConnectionImpl::_broken
    error,          \* why Connect threw
    requests,       \* sent and not yet seen by the node
    answers,        \* sent by the node and not yet read
    nodeState,      \* what the node makes of this connection
    nodeLz4         \* the node compresses what it sends

given    == <<description, node>>
nodeVars == <<requests, answers, nodeState, nodeLz4>>
implVars == <<lz4, compressor, broken>>
vars == <<given, phase, late, tried, implVars, error, nodeVars>>

(* The credentials of a NodeDescription are read by nothing in Connect.     *)
Descriptions == [use_compression : BOOLEAN]

(* What the node says of COMPRESSION in SUPPORTED, whether it wants         *)
(* credentials, and which of the addresses lead to it.                      *)
Nodes == [compression : {"absent", "other", "lz4"}, auth : BOOLEAN,
          reachable : SUBSET Addresses]

AnswerKinds == {"SUPPORTED", "READY", "AUTHENTICATE", "ERROR", "UNKNOWN_ERROR"}

Init ==
    /\ description \in Descriptions
    /\ node \in Nodes
    /\ phase = "resolve"
    /\ late = FALSE
    /\ tried = 0
    /\ lz4 = FALSE
    /\ compressor = FALSE
    /\ broken = FALSE
    /\ error = "none"
    /\ requests = <<>>
    /\ answers = <<>>
    /\ nodeState = "new"
    /\ nodeLz4 = FALSE

(* Deviation: the exception has no reason. *)
ThrowSilently(why) == phase' = "failed" /\ UNCHANGED error

(* An exception leaves Connect and the half-built connection is destroyed. *)
Throw(why) == phase' = "failed" /\ error' = why

-----------------------------------------------------------------------------
(* TryResolveContactPoint and TcpConnect.                                   *)

DeadlinePasses ==
    /\ phase \in {"resolve", "tcp"}
    /\ ~late
    /\ late' = TRUE
    /\ UNCHANGED <<given, phase, tried, implVars, error, nodeVars>>

Resolve ==
    /\ phase = "resolve"
    /\ NumAddresses > 0
    /\ phase' = "tcp"
    /\ UNCHANGED <<given, late, tried, implVars, error, nodeVars>>

(* The resolver throws, or knows no address. *)
ResolveFails ==
    /\ phase = "resolve"
    /\ Throw("resolve")
    /\ UNCHANGED <<given, late, tried, implVars, nodeVars>>

ConnectAddress ==
    /\ phase = "tcp"
    /\ tried < NumAddresses
    /\ tried + 1 \in node.reachable
    /\ ~late
    /\ phase' = "options"
    /\ UNCHANGED <<given, late, tried, implVars, error, nodeVars>>

(* Deviation: the first address that fails ends the loop. *)
GiveUpAddresses ==
    /\ phase = "tcp"
    /\ tried < NumAddresses
    /\ tried + 1 \notin node.reachable \/ late
    /\ tried' = NumAddresses
    /\ UNCHANGED <<given, phase, late, implVars, error, nodeVars>>

(* Refused, or the deadline is over: IoException, and on to the next one. *)
ConnectRefused ==
    /\ phase = "tcp"
    /\ tried < NumAddresses
    /\ tried + 1 \notin node.reachable \/ late
    /\ tried' = tried + 1
    /\ UNCHANGED <<given, phase, late, implVars, error, nodeVars>>

(* No address is left and _socket is not valid. *)
SocketNotReady ==
    /\ phase = "tcp"
    /\ tried = NumAddresses
    /\ Throw("socket")
    /\ UNCHANGED <<given, late, tried, implVars, nodeVars>>

-----------------------------------------------------------------------------
(* ExecuteMessage: SendMessage, then ReadFrame with a deadline of its own.  *)

Awaiting == {"awaitSupported", "awaitReady"}

AwaitAfterSend ==
    phase' = IF phase = "options" THEN "awaitSupported" ELSE "awaitReady"

SendMessage ==
    /\ phase \in {"options", "startup"}
    /\ requests' = Append(requests,
                     [kind |-> IF phase = "options" THEN "OPTIONS" ELSE "STARTUP",
                      lz4  |-> phase = "startup" /\ lz4])
    /\ AwaitAfterSend
    /\ UNCHANGED <<given, late, tried, implVars, error, answers, nodeState,
                   nodeLz4>>

(* SendAll sends a part only: a log line, and the answer is waited for. *)
SendCutShort ==
    /\ phase \in {"options", "startup"}
    /\ AwaitAfterSend
    /\ UNCHANGED <<given, late, tried, implVars, error, nodeVars>>

SendFails ==
    /\ phase \in {"options", "startup"}
    /\ Throw("handshake")
    /\ UNCHANGED <<given, late, tried, implVars, nodeVars>>

(* SUPPORTED without COMPRESSION: options.at throws.  Otherwise the STARTUP *)
(* message is chosen.                                                       *)
ReadSupported ==
    /\ phase = "awaitSupported"
    /\ answers # <<>>
    /\ Head(answers) = "SUPPORTED"
    /\ answers' = Tail(answers)
    /\ IF node.compression = "absent"
       THEN Throw("handshake") /\ UNCHANGED lz4
       ELSE /\ phase' = "startup"
            /\ lz4' = (description.use_compression /\ node.compression = "lz4")
            /\ UNCHANGED error
    /\ UNCHANGED <<given, late, tried, compressor, broken, requests, nodeState,
                   nodeLz4>>

(* The dynamic_cast of anything else yields a null pointer, which is        *)
(* dereferenced; CheckError lets an ERROR with an unknown code through.     *)
ReadNotSupported ==
    /\ phase = "awaitSupported"
    /\ answers # <<>>
    /\ Head(answers) \notin {"SUPPORTED", "ERROR"}
    /\ answers' = Tail(answers)
    /\ phase' = "crashed"
    /\ UNCHANGED <<given, late, tried, implVars, error, requests, nodeState,
                   nodeLz4>>

(* CheckError throws. *)
ReadError ==
    /\ phase \in Awaiting
    /\ answers # <<>>
    /\ Head(answers) = "ERROR"
    /\ answers' = Tail(answers)
    /\ Throw("handshake")
    /\ UNCHANGED <<given, late, tried, implVars, requests, nodeState, nodeLz4>>

(* Deviation: the compressor follows the setting, not the choice made. *)
ReadReadyBySetting ==
    /\ phase = "awaitReady"
    /\ answers # <<>>
    /\ Head(answers) = "READY"
    /\ answers' = Tail(answers)
    /\ compressor' = description.use_compression
    /\ phase' = "established"
    /\ UNCHANGED <<given, late, tried, lz4, broken, error, requests, nodeState,
                   nodeLz4>>

(* READY, compressed or not (its body is not looked at): the compressor is  *)
(* installed and the receiver started.                                      *)
ReadReady ==
    /\ phase = "awaitReady"
    /\ answers # <<>>
    /\ Head(answers) = "READY"
    /\ answers' = Tail(answers)
    /\ compressor' = lz4
    /\ phase' = "established"
    /\ UNCHANGED <<given, late, tried, lz4, broken, error, requests, nodeState,
                   nodeLz4>>

(* Deviation: whatever is not an error is taken for READY. *)
AcceptAnything ==
    /\ phase = "awaitReady"
    /\ answers # <<>>
    /\ Head(answers) \notin {"READY", "ERROR"}
    /\ answers' = Tail(answers)
    /\ compressor' = lz4
    /\ phase' = "established"
    /\ UNCHANGED <<given, late, tried, lz4, broken, error, requests, nodeState,
                   nodeLz4>>

(* Any other opcode: the compressor is installed all the same, the          *)
(* connection marked, and the task throws.                                  *)
ReadNotReady ==
    /\ phase = "awaitReady"
    /\ answers # <<>>
    /\ Head(answers) \notin {"READY", "ERROR"}
    /\ answers' = Tail(answers)
    /\ compressor' = lz4
    /\ broken' = TRUE
    /\ Throw(IF Head(answers) = "AUTHENTICATE" THEN "authenticate"
             ELSE "handshake")
    /\ UNCHANGED <<given, late, tried, lz4, requests, nodeState, nodeLz4>>

(* Deviation: STARTUP is sent again when READY is late. *)
RetryStartup ==
    /\ phase = "awaitReady"
    /\ phase' = "startup"
    /\ UNCHANGED <<given, late, tried, implVars, error, nodeVars>>

(* Deviation: ReadFrame without a deadline fails only on what it can read. *)
ReadOnlyFailsOnFrame ==
    /\ phase \in Awaiting
    /\ answers # <<>>
    /\ Throw("handshake")
    /\ UNCHANGED <<given, late, tried, implVars, nodeVars>>

(* ReadFrame throws: the deadline (one second for SUPPORTED, ten for        *)
(* READY), a closed socket, a frame that does not decode.                   *)
ReadFails ==
    /\ phase \in Awaiting
    /\ Throw("handshake")
    /\ UNCHANGED <<given, late, tried, implVars, nodeVars>>

-----------------------------------------------------------------------------
(* The node (external). *)

NodeAnswersOptions ==
    /\ requests # <<>>
    /\ Head(requests).kind = "OPTIONS"
    /\ requests' = Tail(requests)
    /\ \E kind \in {"SUPPORTED", "ERROR", "UNKNOWN_ERROR"} :
          answers' = Append(answers, kind)
    /\ UNCHANGED <<given, phase, late, tried, implVars, error, nodeState,
                   nodeLz4>>

NodeAcceptsStartup ==
    /\ requests # <<>>
    /\ Head(requests).kind = "STARTUP"
    /\ requests' = Tail(requests)
    /\ answers' = Append(answers, IF node.auth THEN "AUTHENTICATE" ELSE "READY")
    /\ nodeState' = IF node.auth THEN "challenged" ELSE "ready"
    /\ nodeLz4' = Head(requests).lz4
    /\ UNCHANGED <<given, phase, late, tried, implVars, error>>

NodeRefusesStartup ==
    /\ requests # <<>>
    /\ Head(requests).kind = "STARTUP"
    /\ requests' = Tail(requests)
    /\ \E kind \in {"ERROR", "UNKNOWN_ERROR"} : answers' = Append(answers, kind)
    /\ UNCHANGED <<given, phase, late, tried, implVars, error, nodeState,
                   nodeLz4>>

-----------------------------------------------------------------------------
ConnectStep ==
    \/ Resolve
    \/ ResolveFails
    \/ ConnectAddress
    \/ ConnectRefused
    \/ SocketNotReady
    \/ SendMessage
    \/ SendCutShort
    \/ SendFails
    \/ ReadSupported
    \/ ReadNotSupported
    \/ ReadError
    \/ ReadReady
    \/ ReadNotReady
    \/ ReadFails

NodeStep == NodeAnswersOptions \/ NodeAcceptsStartup \/ NodeRefusesStartup

Next == DeadlinePasses \/ ConnectStep \/ NodeStep

Spec == Init /\ [][Next]_vars

(* The connecting task runs; the node may stay silent. *)
Fairness == WF_vars(ConnectStep)

FairSpec == Spec /\ Fairness

-----------------------------------------------------------------------------
(* Properties.                                                              *)

(* Every variable has its type, and an exception has a reason. *)
TypeOK ==
    /\ description \in Descriptions
    /\ node \in Nodes
    /\ phase \in {"resolve", "tcp", "options", "awaitSupported", "startup",
                  "awaitReady", "established", "failed", "crashed"}
    /\ late \in BOOLEAN
    /\ tried \in 0 .. NumAddresses
    /\ lz4 \in BOOLEAN
    /\ compressor \in BOOLEAN
    /\ broken \in BOOLEAN
    /\ error \in {"none", "resolve", "socket", "handshake", "authenticate"}
    /\ phase = "failed" <=> error # "none"
    /\ requests \in Seq([kind : {"OPTIONS", "STARTUP"}, lz4 : BOOLEAN])
    /\ answers \in Seq(AnswerKinds)
    /\ nodeState \in {"new", "challenged", "ready"}
    /\ nodeLz4 \in BOOLEAN

(* Driver and node agree on compression from the first frame after the      *)
(* handshake: ParseBody and Serialize go by _compressor_ptr alone, so one   *)
(* side that is wrong about it makes every frame unreadable.                *)
CompressionAgreed == phase = "established" => compressor = nodeLz4

(* A connection that goes to the pool is one the node takes queries on. *)
EstablishedMeansReady == phase = "established" => nodeState = "ready"

(* The handshake leaves nothing on the socket.  Its requests are on stream  *)
(* 0, so an answer left behind would be given to the first caller of that   *)
(* stream; this is the initial state module Connection starts from.         *)
HandshakeLeavesNothing ==
    phase = "established" => requests = <<>> /\ answers = <<>>

(* One address that refuses does not hide another that would not: without   *)
(* a socket the task has tried them all, or the deadline was over.          *)
EveryAddressIsTried == error = "socket" => late \/ node.reachable = {}

(* Connect ends even if the node never says a word: it returns, throws, or  *)
(* dereferences the failed cast of an answer that is not SUPPORTED, which   *)
(* ends the process ("crashed").                                            *)
ConnectEnds == <>(phase \in {"established", "failed", "crashed"})
=============================================================================
