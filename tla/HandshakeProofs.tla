-------------------------- MODULE HandshakeProofs ---------------------------
(***************************************************************************)
(* Proofs about Handshake, for any number of addresses.                    *)
(***************************************************************************)
EXTENDS Handshake, SequenceTheorems, TLAPS

LEMMA InitType == Init => TypeOK
<1> SUFFICES ASSUME Init
             PROVE  TypeOK
    OBVIOUS
<1>1. description \in Descriptions /\ node \in Nodes
      BY DEF Init
<1>2. /\ late \in BOOLEAN /\ lz4 \in BOOLEAN /\ compressor \in BOOLEAN
      /\ broken \in BOOLEAN /\ nodeLz4 \in BOOLEAN
      BY DEF Init
<1>3. /\ tried \in 0 .. NumAddresses
      /\ requests \in Seq([kind : {"OPTIONS", "STARTUP"}, lz4 : BOOLEAN])
      /\ answers \in Seq(AnswerKinds)
      BY AddressesAssumption DEF Init
<1>4. /\ phase = "resolve" /\ error = "none" /\ nodeState = "new"
      BY DEF Init
<1> QED  BY <1>1, <1>2, <1>3, <1>4 DEF TypeOK

LEMMA TypeStep == TypeOK /\ [Next]_vars => TypeOK'
<1> SUFFICES ASSUME TypeOK, [Next]_vars
             PROVE  TypeOK'
    OBVIOUS
<1> USE AddressesAssumption
        DEF TypeOK, given, implVars, nodeVars, Throw, Awaiting, AwaitAfterSend
<1>1. CASE DeadlinePasses
      BY <1>1 DEF DeadlinePasses
<1>2. CASE Resolve \/ ResolveFails
      BY <1>2 DEF Resolve, ResolveFails
<1>3. CASE ConnectAddress \/ ConnectRefused \/ SocketNotReady
      BY <1>3 DEF ConnectAddress, ConnectRefused, SocketNotReady
<1>4. CASE SendMessage
      BY <1>4 DEF SendMessage
<1>5. CASE SendCutShort \/ SendFails
      BY <1>5 DEF SendCutShort, SendFails
<1>6. CASE ReadSupported
  <2>1. lz4' \in BOOLEAN
        BY <1>6 DEF ReadSupported, Descriptions
  <2> QED  BY <1>6, <2>1 DEF ReadSupported
<1>7. CASE ReadNotSupported \/ ReadError
      BY <1>7, SMTT(60) DEF ReadNotSupported, ReadError
<1>8. CASE ReadReady
      BY <1>8 DEF ReadReady
<1>9. CASE ReadNotReady
      BY <1>9 DEF ReadNotReady
<1>10. CASE ReadFails
      BY <1>10 DEF ReadFails
<1>11. CASE NodeStep
  <2>1. /\ requests' \in Seq([kind : {"OPTIONS", "STARTUP"}, lz4 : BOOLEAN])
        /\ answers' \in Seq(AnswerKinds)
    <3>1. /\ requests # <<>> /\ requests' = Tail(requests)
          /\ \E kind \in AnswerKinds : answers' = Append(answers, kind)
          BY <1>11 DEF NodeStep, NodeAnswersOptions, NodeAcceptsStartup,
                       NodeRefusesStartup, AnswerKinds
    <3> QED  BY <3>1
  <2>2. nodeState' \in {"new", "challenged", "ready"}
        BY <1>11 DEF NodeStep, NodeAnswersOptions, NodeAcceptsStartup,
                     NodeRefusesStartup
  <2>3. nodeLz4' \in BOOLEAN
    <3> DEFINE Request == [kind : {"OPTIONS", "STARTUP"}, lz4 : BOOLEAN]
    <3>1. ASSUME requests # <<>> PROVE Head(requests).lz4 \in BOOLEAN
      <4>1. Head(requests) \in Request
            BY <3>1, HeadTailProperties
      <4> QED  BY <4>1, Zenon
    <3> QED  BY <1>11, <3>1 DEF NodeStep, NodeAnswersOptions,
                                NodeAcceptsStartup, NodeRefusesStartup
  <2>4. UNCHANGED <<given, phase, late, tried, implVars, error>>
        BY <1>11 DEF NodeStep, NodeAnswersOptions, NodeAcceptsStartup,
                     NodeRefusesStartup
  <2> QED  BY <2>1, <2>2, <2>3, <2>4
<1>12. CASE UNCHANGED vars
      BY <1>12 DEF vars
<1> QED
  BY <1>1, <1>2, <1>3, <1>4, <1>5, <1>6, <1>7, <1>8, <1>9, <1>10, <1>11, <1>12
     DEF Next, ConnectStep, NodeStep

(* Every variable keeps its type and Connect throws with a reason. *)
THEOREM TypeCorrect == Spec => []TypeOK
  BY InitType, TypeStep, PTL DEF Spec

-----------------------------------------------------------------------------
(* The inductive invariant: who has said what in each phase.                *)

Silent == requests = <<>> /\ answers = <<>>

(* At most one message is under way, in one direction. *)
OneMessage ==
    /\ Len(requests) <= 1 /\ Len(answers) <= 1
    /\ requests = <<>> \/ answers = <<>>

(* Request and answer alternate although nothing matches them: each is      *)
(* sent when the other side has nothing more to say.                        *)
TalkInv ==
    /\ phase \in {"resolve", "tcp", "options", "startup"} =>
          Silent /\ nodeState = "new"
    /\ phase = "awaitSupported" =>
          /\ OneMessage /\ nodeState = "new"
          /\ requests # <<>> => Head(requests).kind = "OPTIONS"
    /\ phase = "awaitReady" =>
          /\ OneMessage
          /\ requests # <<>> => Head(requests).lz4 = lz4
          /\ answers # <<>> /\ Head(answers) = "READY" =>
                nodeState = "ready" /\ nodeLz4 = lz4
    /\ phase = "established" =>
          Silent /\ nodeState = "ready" /\ compressor = nodeLz4

(* The addresses tried so far do not lead to the node, or it was too late. *)
AddressInv ==
    /\ phase = "resolve" => tried = 0
    /\ phase = "tcp" => late \/ \A i \in 1 .. tried : i \notin node.reachable
    /\ error = "socket" => late \/ node.reachable = {}

HandshakeInv == TypeOK /\ TalkInv /\ AddressInv

(* A message taken from a queue with one leaves none. *)
LEMMA TailOfOne ==
  ASSUME NEW S, NEW s \in Seq(S), s # <<>>, Len(s) <= 1
  PROVE  Tail(s) = <<>>
  OBVIOUS

LEMMA AppendToNone ==
  ASSUME NEW S, NEW x \in S
  PROVE  /\ Append(<<>>, x) # <<>>
         /\ Len(Append(<<>>, x)) = 1
         /\ Head(Append(<<>>, x)) = x
  OBVIOUS

LEMMA TalkStep == TypeOK /\ TalkInv /\ [Next]_vars => TalkInv'
<1> SUFFICES ASSUME TypeOK, TalkInv, [Next]_vars
             PROVE  TalkInv'
    OBVIOUS
<1> USE DEF given, implVars, nodeVars, Throw, Awaiting, Silent
<1>1. CASE SendMessage
  <2>1. requests = <<>> /\ answers = <<>> /\ nodeState = "new"
        BY <1>1 DEF SendMessage, TalkInv
  <2> DEFINE r == [kind |-> IF phase = "options" THEN "OPTIONS" ELSE "STARTUP",
                   lz4  |-> phase = "startup" /\ lz4]
  <2>2. requests' = Append(<<>>, r)
        BY <1>1, <2>1 DEF SendMessage
  <2>3. /\ phase = "options" => r.kind = "OPTIONS"
        /\ phase = "startup" => r.lz4 = lz4
        BY DEF TypeOK
  <2> HIDE DEF r
  <2>4. requests' # <<>> /\ Len(requests') = 1 /\ Head(requests') = r
        BY <2>2, AppendToNone
  <2>5. /\ phase \in {"options", "startup"}
        /\ phase' = IF phase = "options" THEN "awaitSupported" ELSE "awaitReady"
        /\ UNCHANGED <<answers, nodeState, lz4>>
        BY <1>1 DEF SendMessage, AwaitAfterSend
  <2> QED  BY <2>1, <2>3, <2>4, <2>5 DEF TalkInv, OneMessage
<1>2. CASE SendCutShort
      BY <1>2 DEF SendCutShort, AwaitAfterSend, TalkInv, OneMessage
<1>3. CASE ReadSupported
  <2>1. requests = <<>> /\ Len(answers) <= 1 /\ nodeState = "new"
        BY <1>3 DEF ReadSupported, TalkInv, OneMessage
  <2>2. answers' = <<>> /\ requests' = <<>> /\ nodeState' = "new"
        BY <1>3, <2>1 DEF ReadSupported, TypeOK
  <2>3. phase' \in {"startup", "failed"}
        BY <1>3 DEF ReadSupported
  <2> QED  BY <2>2, <2>3 DEF TalkInv
<1>4. CASE ReadReady
  <2>1. /\ requests = <<>> /\ Len(answers) <= 1
        /\ nodeState = "ready" /\ nodeLz4 = lz4
        BY <1>4 DEF ReadReady, TalkInv, OneMessage
  <2>2. answers' = <<>> /\ requests' = <<>>
        BY <1>4, <2>1 DEF ReadReady, TypeOK
  <2> QED  BY <1>4, <2>1, <2>2 DEF ReadReady, TalkInv
<1>5. CASE ReadNotSupported \/ ReadError \/ ReadNotReady \/ ReadFails
  <2>1. phase' \in {"failed", "crashed"}
        BY <1>5 DEF ReadNotSupported, ReadError, ReadNotReady, ReadFails
  <2> QED  BY <2>1 DEF TalkInv
<1>6. CASE NodeAnswersOptions \/ NodeRefusesStartup
  <2>1. /\ requests # <<>> /\ requests' = Tail(requests)
        /\ \E kind \in AnswerKinds \ {"READY"} : answers' = Append(answers, kind)
        /\ UNCHANGED <<phase, lz4, compressor, nodeState, nodeLz4>>
        BY <1>6 DEF NodeAnswersOptions, NodeRefusesStartup, AnswerKinds
  <2>2. CASE phase \in {"awaitSupported", "awaitReady"}
    <3>1. answers = <<>> /\ Len(requests) <= 1
          BY <2>1, <2>2 DEF TalkInv, OneMessage
    <3>2. requests' = <<>>
          BY <2>1, <3>1, TailOfOne DEF TypeOK
    <3>3. /\ answers' # <<>> /\ Len(answers') = 1 /\ Head(answers') # "READY"
          BY <2>1, <3>1, AppendToNone
    <3> QED  BY <2>1, <2>2, <3>2, <3>3 DEF TalkInv, OneMessage
  <2>3. CASE phase \in {"failed", "crashed"}
        BY <2>1, <2>3 DEF TalkInv
  <2> QED  BY <2>1, <2>2, <2>3 DEF TalkInv, TypeOK
<1>7. CASE NodeAcceptsStartup
  <2>1. /\ requests # <<>> /\ requests' = Tail(requests)
        /\ Head(requests).kind = "STARTUP"
        /\ answers' = Append(answers, IF node.auth THEN "AUTHENTICATE" ELSE "READY")
        /\ nodeState' = IF node.auth THEN "challenged" ELSE "ready"
        /\ nodeLz4' = Head(requests).lz4
        /\ UNCHANGED <<phase, lz4, compressor>>
        BY <1>7 DEF NodeAcceptsStartup
  <2>2. CASE phase = "awaitReady"
    <3>1. answers = <<>> /\ Len(requests) <= 1 /\ Head(requests).lz4 = lz4
          BY <2>1, <2>2 DEF TalkInv, OneMessage
    <3>2. requests' = <<>>
          BY <2>1, <3>1, TailOfOne DEF TypeOK
    <3>3. /\ answers' # <<>> /\ Len(answers') = 1
          /\ Head(answers') = IF node.auth THEN "AUTHENTICATE" ELSE "READY"
          BY <2>1, <3>1, AppendToNone
    <3> QED  BY <2>1, <2>2, <3>1, <3>2, <3>3 DEF TalkInv, OneMessage
  <2>3. CASE phase \in {"failed", "crashed"}
        BY <2>1, <2>3 DEF TalkInv
  <2> QED  BY <2>1, <2>2, <2>3 DEF TalkInv, TypeOK
<1>8. CASE \/ DeadlinePasses \/ Resolve \/ ResolveFails \/ ConnectAddress
           \/ ConnectRefused \/ SocketNotReady \/ SendFails
  <2>1. /\ UNCHANGED nodeVars
        /\ phase \in {"resolve", "tcp", "options", "startup"}
        /\ phase' \in {"resolve", "tcp", "options", "failed", "startup"}
        BY <1>8 DEF DeadlinePasses, Resolve, ResolveFails, ConnectAddress,
                    ConnectRefused, SocketNotReady, SendFails
  <2> QED  BY <2>1 DEF TalkInv
<1>9. CASE UNCHANGED vars
      BY <1>9 DEF vars, TalkInv, OneMessage
<1> QED
  BY <1>1, <1>2, <1>3, <1>4, <1>5, <1>6, <1>7, <1>8, <1>9
     DEF Next, ConnectStep, NodeStep

LEMMA AddressStep == TypeOK /\ AddressInv /\ [Next]_vars => AddressInv'
<1> SUFFICES ASSUME TypeOK, AddressInv, [Next]_vars
             PROVE  AddressInv'
    OBVIOUS
<1> USE AddressesAssumption DEF given, implVars, nodeVars, Throw, Awaiting
<1>1. CASE DeadlinePasses
      BY <1>1 DEF DeadlinePasses, AddressInv, TypeOK
<1>2. CASE Resolve \/ ResolveFails
      BY <1>2 DEF Resolve, ResolveFails, AddressInv, TypeOK
<1>3. CASE ConnectAddress
      BY <1>3 DEF ConnectAddress, AddressInv, TypeOK
<1>4. CASE ConnectRefused
      BY <1>4 DEF ConnectRefused, AddressInv, TypeOK
<1>5. CASE SocketNotReady
  <2>1. node.reachable \subseteq 1 .. NumAddresses
        BY DEF TypeOK, Nodes, Addresses
  <2> QED  BY <1>5, <2>1 DEF SocketNotReady, AddressInv, TypeOK
<1>6. CASE /\ UNCHANGED <<node, late, tried>>
           /\ phase' = phase \/ phase' \notin {"resolve", "tcp"}
           /\ error' = error \/ error' # "socket"
      BY <1>6 DEF AddressInv
<1>7. CASE SendMessage \/ SendCutShort \/ SendFails
      BY <1>6, <1>7 DEF SendMessage, SendCutShort, SendFails, AwaitAfterSend
<1>8. CASE \/ ReadSupported \/ ReadNotSupported \/ ReadError \/ ReadReady
           \/ ReadNotReady \/ ReadFails
      BY <1>6, <1>8 DEF ReadSupported, ReadNotSupported, ReadError, ReadReady,
                        ReadNotReady, ReadFails
<1>9. CASE NodeStep \/ UNCHANGED vars
      BY <1>6, <1>9 DEF NodeStep, NodeAnswersOptions, NodeAcceptsStartup,
                        NodeRefusesStartup, vars
<1> QED
  BY <1>1, <1>2, <1>3, <1>4, <1>5, <1>7, <1>8, <1>9 DEF Next, ConnectStep

LEMMA InvariantHolds == Spec => []HandshakeInv
<1>1. Init => HandshakeInv
  <2>1. Init => TalkInv /\ AddressInv
        BY DEF Init, TalkInv, AddressInv, Silent
  <2> QED  BY <2>1, InitType DEF HandshakeInv
<1>2. HandshakeInv /\ [Next]_vars => HandshakeInv'
      BY TypeStep, TalkStep, AddressStep DEF HandshakeInv
<1> QED  BY <1>1, <1>2, PTL DEF Spec

-----------------------------------------------------------------------------
(* What follows from it.                                                    *)

(* Driver and node agree on compression once Connect has returned: the      *)
(* choice made on SUPPORTED is the one in the STARTUP the node has seen,    *)
(* whatever was lost, refused or late on the way.                           *)
THEOREM CompressionIsAgreed == Spec => []CompressionAgreed
  BY InvariantHolds, PTL DEF HandshakeInv, TalkInv, CompressionAgreed

(* Connect never returns a connection the node has not declared ready. *)
THEOREM EstablishedIsReady == Spec => []EstablishedMeansReady
  BY InvariantHolds, PTL DEF HandshakeInv, TalkInv, EstablishedMeansReady

(* No answer of the handshake is left on stream 0 for the first caller that *)
(* is given that stream.                                                    *)
THEOREM NothingIsLeft == Spec => []HandshakeLeavesNothing
  BY InvariantHolds, PTL DEF HandshakeInv, TalkInv, Silent, HandshakeLeavesNothing

(* However many addresses the contact point has, Connect gives up without a *)
(* socket only after all of them, or after its deadline.                    *)
THEOREM AllAddressesAreTried == Spec => []EveryAddressIsTried
  BY InvariantHolds, PTL DEF HandshakeInv, AddressInv, EveryAddressIsTried
=============================================================================
