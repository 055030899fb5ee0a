---------------------------- MODULE SessionProofs ----------------------------
(***************************************************************************)
(* Proofs about Session, for any documents, configurations, controls,      *)
(* statements and bounds.                                                  *)
(***************************************************************************)
EXTENDS Session, SequenceTheorems, TLAPS

-----------------------------------------------------------------------------
(* The inductive invariant.                                                 *)

OptionalControl == ControlType \cup {NoControl}
CallType ==
  [stage : {"resolve", "prepare", "send", "wait"}, ctl : OptionalControl,
   conn : {"fresh", "stale", "broken"}, left : Seq(Statements)]
OutcomeType ==
  [result : {"rows", "error", "timeout", "cancelled"}, ctl : OptionalControl]

MinSize == PoolSettings.min_size

(* A call is in progress. *)
Busy == call.stage # "idle"

(* The connection a call has out of pool p. *)
Borrowed(p) == IF p = FindPool /\ Busy THEN 1 ELSE 0

(* What the constructor was given. *)
Deployed == \E d \in Deployments : doc = d.doc /\ config = d.config

VarsInv ==
  /\ step \in {"schema", "secdist", "cluster", "topology", "up", "failed",
               "crashed", "stopped"}
  /\ Deployed
  /\ cluster \in Seq(NodeDescription) /\ pools \in Seq(Pool)
  /\ up \subseteq Nodes /\ refusing \subseteq Nodes /\ up \cup faults = Nodes
  /\ call = NoCall \/ call \in CallType
  /\ last = NoOutcome \/ last \in OutcomeType
  /\ calls \in Nat /\ misses \in Nat

(* What the constructor has established at each of its steps. *)
StartInv ==
  /\ step \in {"cluster", "topology", "up", "crashed"} => ValidDocument
  /\ step \in {"topology", "up", "crashed"} =>
       Keyspace \in DOMAIN doc.keyspaces /\ cluster = doc.keyspaces[Keyspace].nodes
  /\ step \notin {"topology", "up", "crashed"} => pools = <<>>
  /\ step \notin {"up", "crashed", "stopped"} =>
       call = NoCall /\ last = NoOutcome /\ calls = 0 /\ misses = 0
  /\ step \in {"up", "crashed"} => Len(pools) = Len(cluster) /\ pools # <<>>
  /\ Len(pools) <= Len(cluster)
  /\ pools # <<>> => MinSize <= PoolSettings.max_size
  /\ Busy => step = "up"

(* A pool belongs to its node, what it has, what it failed to make and what *)
(* a call has of it is no more than was asked for, and what is stale has a  *)
(* cause.                                                                   *)
PoolsInv ==
  \A p \in DOMAIN pools :
    /\ pools[p].node = cluster[p].point
    /\ pools[p].due + pools[p].failed + pools[p].fresh + pools[p].stale + Pinged(p)
         + Borrowed(p) <= MinSize
    /\ pools[p].stale > 0 \/ pools[p].pinged = "stale" => pools[p].node \in faults

(* The books of the pools whose node has never been away. *)
DrainInv ==
  \A p \in DOMAIN pools : pools[p].node \notin faults =>
    pools[p].due + pools[p].failed + pools[p].fresh + Pinged(p) + Borrowed(p)
      + (IF p = FindPool THEN misses ELSE 0) = MinSize

(* A call knows of no loss that did not happen, and prepares something. *)
CallInv ==
  Busy =>
    /\ call.conn # "fresh" => pools[FindPool].node \in faults
    /\ call.stage = "prepare" => call.left # <<>>

CountInv == misses + (IF Busy THEN 1 ELSE 0) <= calls

SessionInv ==
  /\ VarsInv /\ StartInv /\ PoolsInv /\ DrainInv /\ CallInv /\ CountInv
  /\ TimeoutHasACause

-----------------------------------------------------------------------------
(* Settings and controls.                                                   *)

LEMMA SettingsType == Deployed => PoolSettings \in PoolSettingsType
<1> SUFFICES ASSUME Deployed
             PROVE  PoolSettings \in PoolSettingsType
    OBVIOUS
<1>0. /\ \A key \in NumericKeys \cap DOMAIN config : config[key] \in Nat
      /\ "persistentprepared-statement" \in DOMAIN config =>
           config["persistentprepared-statement"] \in BOOLEAN
  <2>1. PICK d \in Deployments : config = d.config
        BY DEF Deployed
  <2> QED  BY <2>1, ConfigsAssumption, Zenon
<1>1. \A key \in NumericKeys, n \in Nat : Setting(key, n) \in Nat
      BY <1>0 DEF Setting
<1>2. Setting("persistentprepared-statement", TRUE) \in BOOLEAN
      BY <1>0, Zenon DEF Setting
<1>3. /\ Setting("min-pool-size", 4) \in Nat /\ Setting("max-pool-size", 15) \in Nat
      /\ Setting("max-queue-size", 200) \in Nat
      /\ Setting("prepared-statement-cache-ways", 16) \in Nat
      /\ Setting("prepared-statement-cache-way-size", 200) \in Nat
      BY <1>1 DEF NumericKeys, CacheKeys
<1> QED
  BY <1>2, <1>3, ZenonT(60) DEF PoolSettings, PoolSettingsType, kDefaultConnectingLimit

LEMMA MinSizeType == Deployed => MinSize \in Nat
  BY SettingsType DEF MinSize, PoolSettingsType

(* The builders make controls of controls. *)
LEMMA ControlsAreTyped == Passed \subseteq OptionalControl
<1>1. ASSUME NEW given \in Controls, NEW ctl \in Built(given)
      PROVE  ctl \in OptionalControl
  <2>1. given \in ControlType
        BY ControlsAssumption
  <2>2. given.network + 2 \in Nat /\ given.statement + 2 \in Nat
        BY <2>1 DEF ControlType
  <2> QED
    BY <1>1, <2>1, <2>2 DEF Built, WithExecuteTimeout, WithStatementTimeout,
                            CommandControl, ControlType, OptionalControl
<1> QED  BY <1>1 DEF Passed, OptionalControl

LEMMA NoControlIsNone ==
  \A ctl \in ControlType : ctl # NoControl /\ ctl.network \in Nat
<1> TAKE ctl \in ControlType
<1>1. ctl.override # "nullopt" /\ NoControl.override = "nullopt" /\ ctl.network \in Nat
      BY DEF ControlType, NoControl
<1> QED  BY <1>1

(* What the constructor was given does not change. *)
LEMMA InputsStay ==
  ASSUME UNCHANGED <<doc, config>>
  PROVE  /\ UNCHANGED <<PoolSettings, MinSize, Nodes, Pool>>
         /\ (ValidDocument' <=> ValidDocument) /\ (Deployed' <=> Deployed)
<1>1. UNCHANGED <<PoolSettings, MinSize, Nodes, Pool>>
      BY DEF PoolSettings, Setting, MinSize, Nodes, Pool
<1>2. ValidDocument' <=> ValidDocument
      BY DEF ValidDocument
<1>3. Deployed' <=> Deployed
      BY DEF Deployed
<1> QED  BY <1>1, <1>2, <1>3

-----------------------------------------------------------------------------
(* The initial state and the constructor.                                   *)

LEMMA InitInv == Init => SessionInv
<1> SUFFICES ASSUME Init
             PROVE  SessionInv
    OBVIOUS
<1>1. VarsInv
      BY DEF Init, VarsInv, NoCall, NoOutcome, Deployed
<1>2. StartInv
      BY DEF Init, StartInv, NoCall, NoOutcome, Busy
<1>3. PoolsInv /\ DrainInv
      BY DEF Init, PoolsInv, DrainInv
<1>4. CallInv /\ CountInv /\ TimeoutHasACause
      BY DEF Init, CallInv, CountInv, Busy, NoCall, NoOutcome, TimeoutHasACause
<1> QED  BY <1>1, <1>2, <1>3, <1>4 DEF SessionInv

(* A step of the constructor that changes no pool, or that throws. *)
LEMMA ConstructorInv ==
  ASSUME SessionInv, step \in {"schema", "secdist", "cluster", "topology"},
         UNCHANGED <<doc, config, up, refusing, faults, calling>>,
         VarsInv', StartInv', UNCHANGED <<pools, cluster>> \/ pools' = <<>>
  PROVE  SessionInv'
<1>1. call = NoCall /\ last = NoOutcome /\ calls = 0 /\ misses = 0
      BY DEF SessionInv, StartInv
<1>2. CallInv' /\ CountInv' /\ TimeoutHasACause'
      BY <1>1 DEF calling, CallInv, CountInv, Busy, NoCall, NoOutcome, TimeoutHasACause
<1>3. PoolsInv' /\ DrainInv'
  <2>1. CASE pools' = <<>>
        BY <2>1 DEF PoolsInv, DrainInv
  <2>2. CASE UNCHANGED <<pools, cluster>>
    <3>1. UNCHANGED MinSize
          BY InputsStay
    <3> QED
      BY <2>2, <3>1 DEF PoolsInv, DrainInv, Pinged, Borrowed, Busy, SessionInv, calling
  <2> QED  BY <2>1, <2>2
<1> QED  BY <1>2, <1>3 DEF SessionInv

LEMMA ConstructStep == SessionInv /\ Construct => SessionInv'
<1> SUFFICES ASSUME SessionInv, Construct
             PROVE  SessionInv'
    OBVIOUS
<1>t. VarsInv /\ StartInv
      BY DEF SessionInv
<1>0. /\ step \in {"schema", "secdist", "cluster", "topology"}
      /\ UNCHANGED <<doc, config, up, refusing, faults, calling>>
      BY DEF Construct, CheckSchema, ReadSecdist, GetShardedClusterDescription,
             CreatePool, ComponentReady, ConstructorThrows, starting, world
<1>1. /\ UNCHANGED <<PoolSettings, MinSize, Nodes, Pool>>
      /\ (ValidDocument' <=> ValidDocument) /\ (Deployed' <=> Deployed)
      BY <1>0, InputsStay
<1>2. call = NoCall /\ last = NoOutcome /\ calls = 0 /\ misses = 0 /\ ~Busy'
      BY <1>t, <1>0 DEF StartInv, Busy, calling, NoCall
<1>v. VarsInv' <=> /\ step' \in {"schema", "secdist", "cluster", "topology", "up",
                                 "failed", "crashed", "stopped"}
                   /\ cluster' \in Seq(NodeDescription) /\ pools' \in Seq(Pool)
      BY <1>t, <1>0, <1>1 DEF VarsInv, calling
<1>3. CASE ConstructorThrows
  <2>1. VarsInv'
        BY <1>t, <1>v, <1>3 DEF ConstructorThrows, VarsInv
  <2>2. Len(pools') <= Len(cluster')
        BY <1>t, <1>3 DEF ConstructorThrows, VarsInv
  <2>3. StartInv'
        BY <1>0, <1>2, <1>3, <2>2 DEF ConstructorThrows, StartInv, calling
  <2> QED  BY <1>0, <1>3, <2>1, <2>3, ConstructorInv DEF ConstructorThrows
<1>4. CASE /\ UNCHANGED <<cluster, pools>>
           /\ \/ step = "schema" /\ step' = "secdist"
              \/ step = "secdist" /\ ValidDocument /\ step' = "cluster"
  <2>1. VarsInv'
        BY <1>t, <1>v, <1>4 DEF VarsInv
  <2>2. StartInv'
        BY <1>t, <1>0, <1>1, <1>2, <1>4 DEF StartInv, calling
  <2> QED  BY <1>0, <1>4, <2>1, <2>2, ConstructorInv
<1>5. CASE /\ step = "cluster" /\ Keyspace \in DOMAIN doc.keyspaces
           /\ step' = "topology" /\ cluster' = doc.keyspaces[Keyspace].nodes
           /\ UNCHANGED pools
  <2>1. pools = <<>> /\ cluster' \in Seq(NodeDescription)
        BY <1>t, <1>5, DocsAssumption DEF StartInv, VarsInv, Deployed, ClusterDescription
  <2>2. VarsInv'
        BY <1>t, <1>v, <1>5, <2>1 DEF VarsInv
  <2>3. Len(pools') <= Len(cluster')
        BY <1>5, <2>1
  <2>4. StartInv'
        BY <1>t, <1>0, <1>1, <1>2, <1>5, <2>1, <2>3 DEF StartInv, calling
  <2> QED  BY <1>0, <1>5, <2>1, <2>2, <2>4, ConstructorInv
<1>6. CASE ComponentReady
  <2>1. VarsInv'
        BY <1>t, <1>v, <1>6 DEF VarsInv, ComponentReady
  <2>2. StartInv'
        BY <1>t, <1>0, <1>1, <1>2, <1>6 DEF StartInv, VarsInv, ComponentReady, calling
  <2> QED  BY <1>0, <1>6, <2>1, <2>2, ConstructorInv DEF ComponentReady
<1>7. CASE CreatePool /\ ~ConstructorThrows
  <2> DEFINE q == [node |-> cluster[Len(pools) + 1].point,
                   due |-> PoolSettings.min_size, failed |-> 0, fresh |-> 0, stale |-> 0,
                   pinged |-> "none", cache |-> {}]
  <2>1. /\ step = "topology" /\ cluster # <<>> /\ Len(pools) < Len(cluster)
        /\ PoolSettings.min_size <= PoolSettings.max_size
        /\ pools' = Append(pools, q) /\ UNCHANGED <<step, cluster>>
        BY <1>7 DEF CreatePool, starting
  <2>2. /\ Len(pools) \in Nat /\ Len(cluster) \in Nat /\ DOMAIN pools = 1 .. Len(pools)
        /\ Len(pools) + 1 \in DOMAIN cluster
        BY <1>t, <2>1 DEF VarsInv
  <2>3. cluster = doc.keyspaces[Keyspace].nodes /\ Keyspace \in DOMAIN doc.keyspaces
        BY <1>t, <2>1 DEF StartInv
  <2>4. cluster[Len(pools) + 1].point \in Nodes
        BY <2>2, <2>3 DEF Nodes
  <2>5. q \in Pool
        BY <1>t, <2>4, MinSizeType DEF Pool, VarsInv, MinSize
  <2>6. /\ q.node = cluster[Len(pools) + 1].point /\ q.due = MinSize /\ q.failed = 0 /\ q.fresh = 0
        /\ q.stale = 0 /\ q.pinged = "none" /\ MinSize \in Nat
        BY <1>t, MinSizeType DEF MinSize, VarsInv
  <2> HIDE DEF q
  <2>7. /\ pools' \in Seq(Pool) /\ Len(pools') = Len(pools) + 1
        /\ DOMAIN pools' = 1 .. Len(pools) + 1
        /\ \A p \in 1 .. Len(pools) : pools'[p] = pools[p]
        /\ pools'[Len(pools) + 1] = q
        BY <1>t, <2>1, <2>5 DEF VarsInv
  <2>8. VarsInv'
        BY <1>t, <1>v, <2>1, <2>7 DEF VarsInv
  <2>9. StartInv'
        BY <1>t, <1>0, <1>1, <1>2, <2>1, <2>2, <2>7 DEF StartInv, calling, MinSize
  <2>n. PICK n \in Nat : n = Len(pools) + 1
        BY <2>2
  <2>10. (\A p \in DOMAIN pools' : p \in DOMAIN pools \/ p = n) /\ pools'[n] = q
        BY <2>2, <2>7, <2>n
  <2>11. PoolsInv'
    <3>1. ASSUME NEW p \in DOMAIN pools
          PROVE  /\ pools'[p].node = cluster'[p].point
                 /\ pools'[p].due + pools'[p].failed + pools'[p].fresh + pools'[p].stale
                       + Pinged(p)' + Borrowed(p)' <= MinSize'
                 /\ pools'[p].stale > 0 \/ pools'[p].pinged = "stale" =>
                       pools'[p].node \in faults'
          BY <1>0, <1>1, <2>1, <2>2, <2>7
             DEF SessionInv, PoolsInv, Pinged, Borrowed, Busy, calling
    <3>2. /\ q.node = cluster'[n].point
          /\ Pinged(n)' = 0 /\ Borrowed(n)' = 0
          BY <1>2, <2>1, <2>6, <2>n, <2>10 DEF Pinged, Borrowed
    <3>3. MinSize + 0 + 0 + 0 + 0 + 0 <= MinSize
          BY <2>6
    <3> QED  BY <1>1, <2>6, <2>10, <3>1, <3>2, <3>3 DEF PoolsInv
  <2>12. DrainInv'
    <3>1. ASSUME NEW p \in DOMAIN pools, pools'[p].node \notin faults'
          PROVE  pools'[p].due + pools'[p].failed + pools'[p].fresh + Pinged(p)' + Borrowed(p)'
                    + (IF p = FindPool THEN misses' ELSE 0) = MinSize'
          BY <1>0, <1>1, <2>1, <2>2, <2>7, <3>1
             DEF SessionInv, DrainInv, Pinged, Borrowed, Busy, calling
    <3>2. Pinged(n)' = 0 /\ Borrowed(n)' = 0 /\ misses' = 0
          BY <1>0, <1>2, <2>1, <2>6, <2>10 DEF Pinged, Borrowed, calling
    <3>3. MinSize + 0 + 0 + 0 + 0 + 0 = MinSize
          BY <2>6
    <3> QED  BY <1>1, <2>6, <2>10, <3>1, <3>2, <3>3 DEF DrainInv
  <2>13. CallInv' /\ CountInv' /\ TimeoutHasACause'
        BY <1>0, <1>2 DEF calling, CallInv, CountInv, Busy, NoCall, NoOutcome, TimeoutHasACause
  <2> QED  BY <2>8, <2>9, <2>11, <2>12, <2>13 DEF SessionInv
<1> QED
  BY <1>3, <1>4, <1>5, <1>6, <1>7
     DEF Construct, CheckSchema, ReadSecdist, GetShardedClusterDescription, CreatePool

-----------------------------------------------------------------------------
(* The pools.                                                               *)

(* The connections of a pool that work, will or might have, and all of them. *)
InPing(q) == IF q.pinged = "none" THEN 0 ELSE 1
Working(q) == q.due + q.failed + q.fresh + InPing(q)
AllOf(q) == q.due + q.failed + q.fresh + q.stale + InPing(q)
Stale(q) == q.stale > 0 \/ q.pinged = "stale"
Cacheable == Statements \cup {kPing}

(* What a pool holds is of its kinds. *)
LEMMA PoolFields ==
  ASSUME VarsInv, NEW p \in DOMAIN pools
  PROVE  /\ pools[p] \in Pool /\ pools[p].node \in Nodes
         /\ pools[p].due \in Nat /\ pools[p].failed \in Nat
         /\ pools[p].fresh \in Nat /\ pools[p].stale \in Nat
         /\ pools[p].pinged \in {"none", "fresh", "stale"}
         /\ pools[p].cache \in SUBSET Cacheable
<1>1. pools[p] \in Pool
      BY DEF VarsInv
<1> QED  BY <1>1 DEF Pool, Cacheable

(* What a cache can become is a cache. *)
LEMMA PutIsCache ==
  ASSUME NEW c \in SUBSET Cacheable, NEW s \in Cacheable
  PROVE  PutInto(c, s) \subseteq SUBSET Cacheable
<1>1. c \cup {s} \in SUBSET Cacheable
      OBVIOUS
<1>2. \A v \in c : (c \ {v}) \cup {s} \in SUBSET Cacheable
      OBVIOUS
<1>3. PutInto(c, s) \subseteq {c \cup {s}} \cup {(c \ {v}) \cup {s} : v \in c}
      BY DEF PutInto
<1> QED  BY <1>1, <1>2, <1>3

LEMMA PingIsCache ==
  ASSUME NEW c \in SUBSET Cacheable
  PROVE  AfterPing(c) \subseteq SUBSET Cacheable
<1>1. kPing \in Cacheable
      BY DEF Cacheable
<1>2. PutInto(c, kPing) \subseteq SUBSET Cacheable
      BY <1>1, PutIsCache
<1> QED  BY <1>2 DEF AfterPing

(* What a step that concerns one pool and no call does to it: it never      *)
(* gains, and loses what works only if its node has been at fault.          *)
Turn(p, q) ==
  /\ pools' = [pools EXCEPT ![p] = q]
  /\ q.node = pools[p].node
  /\ AllOf(q) <= AllOf(pools[p])
  /\ pools[p].node \notin faults' => Working(q) = Working(pools[p])
  /\ Stale(q) => pools[p].node \in faults'

LEMMA PoolTurn ==
  ASSUME SessionInv, NEW p \in DOMAIN pools,
         \/ ConnectTask(p) \/ ReceiverNotices(p) \/ MaintainReturns(p)
         \/ \E conn \in {"fresh", "stale"} : MaintainTakes(p, conn)
  PROVE  \E q \in Pool : Turn(p, q)
<1> DEFINE o == pools[p]
<1>t. VarsInv /\ PoolsInv
      BY DEF SessionInv
<1>o. /\ o \in Pool /\ o.node \in Nodes
      /\ o.due \in Nat /\ o.failed \in Nat /\ o.fresh \in Nat /\ o.stale \in Nat
      /\ o.pinged \in {"none", "fresh", "stale"} /\ o.cache \in SUBSET Cacheable
      BY <1>t, PoolFields
<1>s. /\ pools \in Seq(Pool)
      /\ Stale(o) => o.node \in faults
      /\ faults' = faults
      BY <1>t, <1>o DEF VarsInv, PoolsInv, Stale, ConnectTask, Connect, ConnectFails,
                        ReceiverNotices, MaintainReturns, MaintainTakes, world
<1>1. CASE Connect(p)
  <2> DEFINE q == [o EXCEPT !.due = @ - 1, !.fresh = @ + 1]
  <2>1. pools' = [pools EXCEPT ![p] = q] /\ o.due > 0
        BY <1>s, <1>1 DEF Connect
  <2>0. o.due - 1 \in Nat /\ o.fresh + 1 \in Nat
        BY <1>o, <2>1
  <2>2. /\ q \in Pool /\ q.node = o.node /\ q.failed = o.failed
        /\ q.due = o.due - 1 /\ q.fresh = o.fresh + 1
        /\ q.stale = o.stale /\ q.pinged = o.pinged
        BY <1>o, <2>0 DEF Pool
  <2> HIDE DEF q, o
  <2>3. AllOf(q) <= AllOf(o) /\ Working(q) = Working(o) /\ (Stale(q) => Stale(o))
        BY <1>o, <2>2 DEF AllOf, Working, Stale, InPing
  <2> QED  BY <1>s, <2>1, <2>2, <2>3 DEF Turn, o
<1>2. CASE ConnectFails(p)
  <2> DEFINE q == [o EXCEPT !.due = @ - 1, !.failed = @ + 1]
  <2>1. pools' = [pools EXCEPT ![p] = q] /\ o.due > 0
        BY <1>s, <1>2 DEF ConnectFails
  <2>0. o.due - 1 \in Nat /\ o.failed + 1 \in Nat
        BY <1>o, <2>1
  <2>2. /\ q \in Pool /\ q.node = o.node /\ q.failed = o.failed + 1
        /\ q.due = o.due - 1 /\ q.fresh = o.fresh
        /\ q.stale = o.stale /\ q.pinged = o.pinged
        BY <1>o, <2>0 DEF Pool
  <2> HIDE DEF q, o
  <2>3. AllOf(q) <= AllOf(o) /\ Working(q) = Working(o) /\ (Stale(q) => Stale(o))
        BY <1>o, <2>2 DEF AllOf, Working, Stale, InPing
  <2> QED  BY <1>s, <2>1, <2>2, <2>3 DEF Turn, o
<1>3. CASE ReceiverNotices(p)
  <2> DEFINE q == [o EXCEPT !.stale = @ - 1]
  <2>1. pools' = [pools EXCEPT ![p] = q] /\ o.stale > 0
        BY <1>s, <1>3 DEF ReceiverNotices
  <2>2. /\ q \in Pool /\ q.node = o.node /\ q.failed = o.failed
        /\ q.due = o.due /\ q.fresh = o.fresh
        /\ q.stale = o.stale - 1 /\ q.pinged = o.pinged
        BY <1>o, <2>1 DEF Pool
  <2> HIDE DEF q, o
  <2>3. AllOf(q) <= AllOf(o) /\ Working(q) = Working(o) /\ (Stale(q) => Stale(o))
        BY <1>o, <2>1, <2>2 DEF AllOf, Working, Stale, InPing
  <2> QED  BY <1>s, <2>1, <2>2, <2>3 DEF Turn, o
<1>4. CASE MaintainReturns(p) /\ o.pinged = "fresh"
  <2>c. PICK cache \in AfterPing(o.cache) :
           pools' = [pools EXCEPT ![p].fresh = @ + 1, ![p].pinged = "none",
                                  ![p].cache = cache]
        BY <1>4 DEF MaintainReturns
  <2> DEFINE q == [o EXCEPT !.fresh = @ + 1, !.pinged = "none", !.cache = cache]
  <2>1. pools' = [pools EXCEPT ![p] = q]
        BY <1>s, <2>c
  <2>0. o.fresh + 1 \in Nat /\ cache \in SUBSET Cacheable
        BY <1>o, PingIsCache
  <2>2. /\ q \in Pool /\ q.node = o.node /\ q.failed = o.failed
        /\ q.due = o.due /\ q.stale = o.stale /\ q.pinged = "none"
        /\ q.fresh = o.fresh + 1
        BY <1>o, <2>0 DEF Pool, Cacheable
  <2> HIDE DEF q, o
  <2>3. AllOf(q) <= AllOf(o) /\ Working(q) = Working(o) /\ (Stale(q) => Stale(o))
        BY <1>o, <1>4, <2>2 DEF AllOf, Working, Stale, InPing
  <2> QED  BY <1>s, <2>1, <2>2, <2>3 DEF Turn, o
<1>7. CASE MaintainReturns(p) /\ o.pinged = "stale"
  <2> DEFINE q == [o EXCEPT !.pinged = "none"]
  <2>1. pools' = [pools EXCEPT ![p] = q] /\ o.node \in faults
        BY <1>s, <1>7 DEF MaintainReturns, Stale
  <2>2. /\ q \in Pool /\ q.node = o.node /\ q.failed = o.failed
        /\ q.due = o.due /\ q.stale = o.stale /\ q.pinged = "none"
        /\ q.fresh = o.fresh
        BY <1>o DEF Pool
  <2> HIDE DEF q, o
  <2>3. AllOf(q) <= AllOf(o)
        BY <1>o, <1>7, <2>2 DEF AllOf, InPing
  <2> QED  BY <1>s, <2>1, <2>2, <2>3 DEF Turn, o
<1>5. CASE MaintainTakes(p, "fresh")
  <2> DEFINE q == [o EXCEPT !.fresh = @ - 1, !.pinged = "fresh"]
  <2>1. pools' = [pools EXCEPT ![p] = q] /\ o.fresh > 0 /\ o.pinged = "none"
        BY <1>s, <1>5 DEF MaintainTakes
  <2>0. o.fresh - 1 \in Nat
        BY <1>o, <2>1
  <2>2. /\ q \in Pool /\ q.node = o.node /\ q.failed = o.failed
        /\ q.due = o.due /\ q.fresh = o.fresh - 1
        /\ q.stale = o.stale /\ q.pinged = "fresh"
        BY <1>o, <2>0 DEF Pool
  <2> HIDE DEF q, o
  <2>3. AllOf(q) <= AllOf(o) /\ Working(q) = Working(o) /\ (Stale(q) => Stale(o))
        BY <1>o, <2>1, <2>2 DEF AllOf, Working, Stale, InPing
  <2> QED  BY <1>s, <2>1, <2>2, <2>3 DEF Turn, o
<1>6. CASE MaintainTakes(p, "stale")
  <2> DEFINE q == [o EXCEPT !.stale = @ - 1, !.pinged = "stale"]
  <2>1. pools' = [pools EXCEPT ![p] = q] /\ o.stale > 0 /\ o.pinged = "none"
        BY <1>s, <1>6 DEF MaintainTakes
  <2>0. o.stale - 1 \in Nat
        BY <1>o, <2>1
  <2>2. /\ q \in Pool /\ q.node = o.node /\ q.failed = o.failed
        /\ q.due = o.due /\ q.fresh = o.fresh
        /\ q.stale = o.stale - 1 /\ q.pinged = "stale"
        BY <1>o, <2>0 DEF Pool
  <2>5. o.node \in faults
        BY <1>s, <2>1 DEF Stale
  <2> HIDE DEF q, o
  <2>3. AllOf(q) <= AllOf(o) /\ Stale(o)
        BY <1>o, <2>1, <2>2 DEF AllOf, Stale, InPing
  <2> QED  BY <1>s, <2>1, <2>2, <2>3, <2>5 DEF Turn, o
<1>8. MaintainReturns(p) => o.pinged \in {"fresh", "stale"}
      BY DEF MaintainReturns
<1> QED  BY <1>1, <1>2, <1>3, <1>4, <1>5, <1>6, <1>7, <1>8 DEF ConnectTask

(* An idle connection that dies, or one that Maintain has, is stale. *)
LEMMA DiesTurn ==
  ASSUME SessionInv, NEW p \in DOMAIN pools, faults' = faults \cup {pools[p].node},
         \/ /\ pools[p].fresh > 0
            /\ pools' = [pools EXCEPT ![p].fresh = @ - 1, ![p].stale = @ + 1]
         \/ /\ pools[p].pinged = "fresh"
            /\ pools' = [pools EXCEPT ![p].pinged = "stale"]
  PROVE  \E q \in Pool : Turn(p, q)
<1> DEFINE o == pools[p]
<1>t. VarsInv
      BY DEF SessionInv
<1>o. /\ o \in Pool /\ o.node \in Nodes
      /\ o.due \in Nat /\ o.failed \in Nat /\ o.fresh \in Nat /\ o.stale \in Nat
      /\ o.pinged \in {"none", "fresh", "stale"}
      BY <1>t, PoolFields
<1>s. pools \in Seq(Pool) /\ o.node \in faults'
      BY <1>t DEF VarsInv
<1>1. CASE /\ o.fresh > 0
           /\ pools' = [pools EXCEPT ![p].fresh = @ - 1, ![p].stale = @ + 1]
  <2> DEFINE q == [o EXCEPT !.fresh = @ - 1, !.stale = @ + 1]
  <2>1. pools' = [pools EXCEPT ![p] = q]
        BY <1>s, <1>1
  <2>0. o.fresh - 1 \in Nat /\ o.stale + 1 \in Nat
        BY <1>o, <1>1
  <2>2. /\ q \in Pool /\ q.node = o.node /\ q.failed = o.failed
        /\ q.due = o.due /\ q.fresh = o.fresh - 1
        /\ q.stale = o.stale + 1 /\ q.pinged = o.pinged
        BY <1>o, <2>0 DEF Pool
  <2> HIDE DEF q, o
  <2>3. AllOf(q) <= AllOf(o)
        BY <1>o, <2>2 DEF AllOf, InPing
  <2> QED  BY <1>s, <2>1, <2>2, <2>3 DEF Turn, o
<1>2. CASE /\ o.pinged = "fresh"
           /\ pools' = [pools EXCEPT ![p].pinged = "stale"]
  <2> DEFINE q == [o EXCEPT !.pinged = "stale"]
  <2>1. pools' = [pools EXCEPT ![p] = q]
        BY <1>s, <1>2
  <2>2. /\ q \in Pool /\ q.node = o.node /\ q.failed = o.failed
        /\ q.due = o.due /\ q.fresh = o.fresh
        /\ q.stale = o.stale /\ q.pinged = "stale"
        BY <1>o DEF Pool
  <2> HIDE DEF q, o
  <2>3. AllOf(q) <= AllOf(o)
        BY <1>o, <1>2, <2>2 DEF AllOf, InPing
  <2> QED  BY <1>s, <2>1, <2>2, <2>3 DEF Turn, o
<1> QED  BY <1>1, <1>2

(* What an outcome says does not depend on the pools. *)
LEMMA LastStays ==
  ASSUME TimeoutHasACause, UNCHANGED last, faults \subseteq faults',
         UNCHANGED cluster \/ last = NoOutcome
  PROVE  TimeoutHasACause'
  BY DEF TimeoutHasACause, NoOutcome

(* A call sees of its pool the node and the cached statements. *)
LEMMA CallStays ==
  ASSUME CallInv, UNCHANGED call, faults \subseteq faults',
         pools'[FindPool].node = pools[FindPool].node
  PROVE  CallInv'
  BY DEF CallInv, Busy, FindPool

LEMMA TurnInv ==
  ASSUME SessionInv, NEW p \in DOMAIN pools, NEW q \in Pool, Turn(p, q),
         UNCHANGED <<starting, up, refusing, calling>>,
         faults \subseteq faults', faults' \subseteq Nodes
  PROVE  SessionInv'
<1>t. VarsInv /\ StartInv /\ PoolsInv /\ DrainInv /\ CallInv /\ CountInv /\ TimeoutHasACause
      BY DEF SessionInv
<1>0. UNCHANGED <<step, doc, config, cluster, up, refusing, call, calls, misses, last>>
      BY DEF starting, calling
<1>1. /\ UNCHANGED <<PoolSettings, MinSize, Nodes, Pool>>
      /\ (ValidDocument' <=> ValidDocument) /\ (Deployed' <=> Deployed)
      BY <1>0, InputsStay
<1>2. /\ pools \in Seq(Pool) /\ pools' \in Seq(Pool) /\ Len(pools') = Len(pools)
      /\ DOMAIN pools' = DOMAIN pools
      /\ \A r \in DOMAIN pools : pools'[r] = IF r = p THEN q ELSE pools[r]
      BY <1>t DEF VarsInv, Turn
<1>3. VarsInv'
      BY <1>t, <1>0, <1>1, <1>2 DEF VarsInv
<1>4. pools # <<>> <=> pools' # <<>>
      BY <1>2
<1>5. StartInv'
      BY <1>t, <1>0, <1>1, <1>2, <1>4 DEF StartInv, Busy
<1>6. /\ q.due \in Nat /\ q.failed \in Nat /\ q.fresh \in Nat /\ q.stale \in Nat
      /\ pools[p].due \in Nat /\ pools[p].failed \in Nat /\ pools[p].fresh \in Nat
      /\ pools[p].stale \in Nat
      /\ MinSize \in Nat /\ Borrowed(p) \in {0, 1} /\ misses \in Nat
      BY <1>t, PoolFields, MinSizeType DEF Pool, VarsInv, Borrowed
<1>7. \A r : Borrowed(r)' = Borrowed(r)
      BY <1>0 DEF Borrowed, Busy
<1>8. PoolsInv'
  <2> SUFFICES ASSUME NEW r \in DOMAIN pools
               PROVE  /\ pools'[r].node = cluster[r].point
                      /\ pools'[r].due + pools'[r].failed + pools'[r].fresh + pools'[r].stale
                            + Pinged(r)' + Borrowed(r) <= MinSize
                      /\ pools'[r].stale > 0 \/ pools'[r].pinged = "stale" =>
                            pools'[r].node \in faults'
      BY <1>0, <1>1, <1>2, <1>7 DEF PoolsInv
  <2>1. CASE r # p
        BY <1>t, <1>2, <2>1 DEF PoolsInv, Pinged
  <2>2. CASE r = p
    <3>1. pools'[r] = q /\ Pinged(r)' = InPing(q) /\ Pinged(p) = InPing(pools[p])
          BY <1>2, <2>2 DEF Pinged, InPing
    <3>2. q.due + q.failed + q.fresh + q.stale + InPing(q) + Borrowed(p) <= MinSize
      <4>1. /\ AllOf(pools[p]) + Borrowed(p) <= MinSize
            /\ AllOf(pools[p]) \in Nat /\ AllOf(q) \in Nat /\ AllOf(q) <= AllOf(pools[p])
            BY <1>t, <1>6, <3>1 DEF PoolsInv, AllOf, InPing, Turn
      <4>2. AllOf(q) + Borrowed(p) <= MinSize
            BY <1>6, <4>1
      <4> QED  BY <4>2 DEF AllOf
    <3>3. q.node = cluster[p].point /\ (Stale(q) => q.node \in faults')
          BY <1>t DEF PoolsInv, Turn, Stale
    <3> QED  BY <2>2, <3>1, <3>2, <3>3 DEF Stale
  <2> QED  BY <2>1, <2>2
<1>9. DrainInv'
  <2> SUFFICES ASSUME NEW r \in DOMAIN pools, pools'[r].node \notin faults'
               PROVE  pools'[r].due + pools'[r].failed + pools'[r].fresh + Pinged(r)' + Borrowed(r)
                         + (IF r = FindPool THEN misses ELSE 0) = MinSize
      BY <1>0, <1>1, <1>2, <1>7 DEF DrainInv
  <2>1. CASE r # p
        BY <1>t, <1>2, <2>1 DEF DrainInv, Pinged
  <2>2. CASE r = p
    <3>1. pools'[r] = q /\ Pinged(r)' = InPing(q) /\ Pinged(p) = InPing(pools[p])
          BY <1>2, <2>2 DEF Pinged, InPing
    <3>2. pools[p].node \notin faults' /\ Working(q) = Working(pools[p])
          BY <1>2, <2>2 DEF Turn
    <3>3. Working(pools[p]) + Borrowed(p) + (IF p = FindPool THEN misses ELSE 0) = MinSize
          BY <1>t, <3>1, <3>2 DEF DrainInv, Working
    <3> QED  BY <2>2, <3>1, <3>2, <3>3 DEF Working
  <2> QED  BY <2>1, <2>2
<1>10. CallInv'
  <2>1. CASE ~Busy
        BY <1>0, <2>1 DEF CallInv, Busy
  <2>2. CASE Busy
    <3>1. FindPool \in DOMAIN pools
          BY <1>t, <1>2, <2>2 DEF StartInv, FindPool
    <3>2. pools'[FindPool].node = pools[FindPool].node
          BY <1>2, <3>1 DEF Turn
    <3> QED  BY <1>t, <1>0, <3>2, CallStays
  <2> QED  BY <2>1, <2>2
<1>11. CountInv' /\ TimeoutHasACause'
      BY <1>t, <1>0, LastStays DEF CountInv, Busy
<1> QED  BY <1>3, <1>5, <1>8, <1>9, <1>10, <1>11 DEF SessionInv

LEMMA CallFields ==
  ASSUME VarsInv, Busy
  PROVE  /\ call \in CallType
         /\ call.stage \in {"resolve", "prepare", "send", "wait"}
         /\ call.ctl \in OptionalControl
         /\ call.conn \in {"fresh", "stale", "broken"} /\ call.left \in Seq(Statements)
<1>1. call \in CallType
      BY DEF VarsInv, Busy, NoCall
<1> QED  BY <1>1 DEF CallType

(* The connection under a call is lost or marked, and the call goes on. *)
LEMMA ConnectionChanges ==
  ASSUME VarsInv, CallInv, Busy,
         NEW c \in {"fresh", "stale", "broken"}, call' = [call EXCEPT !.conn = c],
         c # "fresh" => pools'[FindPool].node \in faults'
  PROVE  call' \in CallType /\ Busy' /\ CallInv'
<1>1. /\ call \in CallType /\ call.stage # "idle"
      BY CallFields DEF Busy
<1>2. /\ call' \in CallType /\ call'.conn = c /\ call'.stage = call.stage
      /\ call'.left = call.left
      BY <1>1 DEF CallType
<1> QED  BY <1>1, <1>2 DEF CallInv, Busy

(* A node that goes away makes the connections to it stale and loses none. *)
LEMMA NodeFailsInv ==
  ASSUME SessionInv, NEW n \in Nodes, NodeFails(n)
  PROVE  SessionInv'
<1>t. VarsInv /\ StartInv /\ PoolsInv /\ DrainInv /\ CallInv /\ CountInv /\ TimeoutHasACause
      BY DEF SessionInv
<1>0. UNCHANGED <<step, doc, config, cluster, refusing, calls, misses, last>>
      BY DEF NodeFails, starting
<1>1. /\ UNCHANGED <<PoolSettings, MinSize, Nodes, Pool>>
      /\ (ValidDocument' <=> ValidDocument) /\ (Deployed' <=> Deployed)
      BY <1>0, InputsStay
<1> DEFINE Lost(q) == [q EXCEPT !.stale = @ + q.fresh, !.fresh = 0,
                                !.pinged = AfterLoss(@)]
<1>2. /\ up' = up \ {n} /\ faults' = faults \cup {n}
      /\ pools' = [p \in DOMAIN pools |-> IF pools[p].node # n THEN pools[p]
                                          ELSE Lost(pools[p])]
      /\ call' = IF Busy /\ pools[FindPool].node = n
                 THEN [call EXCEPT !.conn = AfterLoss(@)] ELSE call
      BY DEF NodeFails, Busy
<1>3. ASSUME NEW p \in DOMAIN pools, pools[p].node = n
      PROVE  /\ pools'[p] \in Pool /\ pools'[p].node = n
             /\ pools'[p].due = pools[p].due /\ pools'[p].failed = pools[p].failed
             /\ pools'[p].fresh = 0
             /\ pools'[p].stale = pools[p].stale + pools[p].fresh
             /\ Pinged(p)' = Pinged(p)
  <2> DEFINE o == pools[p]
  <2>1. /\ o \in Pool /\ o.stale + o.fresh \in Nat /\ AfterLoss(o.pinged) \in {"none", "stale"}
        /\ AfterLoss(o.pinged) = "none" <=> o.pinged = "none"
        BY <1>t, PoolFields DEF AfterLoss
  <2>2. pools'[p] = Lost(o)
        BY <1>2, <1>3
  <2>3. /\ Lost(o) \in Pool /\ Lost(o).node = o.node /\ Lost(o).due = o.due
        /\ Lost(o).failed = o.failed
        /\ Lost(o).fresh = 0 /\ Lost(o).stale = o.stale + o.fresh
        /\ Lost(o).pinged = AfterLoss(o.pinged)
        BY <2>1 DEF Pool
  <2> HIDE DEF o, Lost
  <2> QED  BY <1>3, <2>1, <2>2, <2>3 DEF Pinged, o
<1>4. \A p \in DOMAIN pools : pools[p].node # n => pools'[p] = pools[p]
      BY <1>2
<1>5. pools' \in Seq(Pool) /\ Len(pools') = Len(pools) /\ DOMAIN pools' = DOMAIN pools
  <2>1. \A p \in DOMAIN pools : pools'[p] \in Pool
        BY <1>t, <1>3, <1>4, PoolFields
  <2>2. DOMAIN pools' = 1 .. Len(pools) /\ DOMAIN pools = 1 .. Len(pools) /\ Len(pools) \in Nat
    <3>1. DOMAIN pools' = DOMAIN pools
          BY <1>2
    <3>2. DOMAIN pools = 1 .. Len(pools) /\ Len(pools) \in Nat
          BY <1>t DEF VarsInv
    <3> QED  BY <3>1, <3>2
  <2>3. pools' = [p \in 1 .. Len(pools) |-> pools'[p]]
        BY <1>2, <2>2
  <2> QED  BY <2>1, <2>2, <2>3
<1> HIDE DEF Lost
<1>6. /\ call' = NoCall \/ call' \in CallType
      /\ Busy' <=> Busy
      /\ CallInv'
  <2>1. CASE ~Busy
        BY <1>t, <1>2, <2>1 DEF VarsInv, Busy, CallInv
  <2>2. CASE Busy
    <3>1. FindPool \in DOMAIN pools
          BY <1>t, <2>2 DEF StartInv, FindPool, VarsInv
    <3>2. pools'[FindPool].node = pools[FindPool].node
          BY <1>3, <1>4, <3>1
    <3>3. CASE pools[FindPool].node = n
      <4>1. /\ AfterLoss(call.conn) \in {"fresh", "stale", "broken"}
            /\ call' = [call EXCEPT !.conn = AfterLoss(call.conn)]
            BY <1>t, <1>2, <2>2, <3>3, CallFields DEF AfterLoss
      <4>2. pools'[FindPool].node \in faults'
            BY <1>2, <3>2, <3>3
      <4> QED  BY <1>t, <1>0, <2>2, <3>2, <4>1, <4>2, ConnectionChanges
    <3>4. CASE pools[FindPool].node # n
      <4>1. UNCHANGED call /\ faults \subseteq faults'
            BY <1>2, <3>4
      <4>2. CallInv'
            BY <1>t, <1>0, <3>2, <4>1, CallStays
      <4> QED  BY <1>t, <4>1, <4>2 DEF VarsInv, Busy
    <3> QED  BY <3>3, <3>4
  <2> QED  BY <2>1, <2>2
<1>7. VarsInv'
      BY <1>t, <1>0, <1>1, <1>2, <1>5, <1>6 DEF VarsInv
<1>8. StartInv'
  <2>1. pools # <<>> <=> pools' # <<>>
        BY <1>t, <1>5 DEF VarsInv
  <2>2. call = NoCall => call' = NoCall
        BY <1>2 DEF Busy, NoCall
  <2> QED  BY <1>t, <1>0, <1>1, <1>5, <1>6, <2>1, <2>2 DEF StartInv
<1>9. \A p : Borrowed(p)' = Borrowed(p)
      BY <1>6 DEF Borrowed
<1>10. ASSUME NEW p \in DOMAIN pools
       PROVE  /\ pools[p].due \in Nat /\ pools[p].failed \in Nat
              /\ pools[p].fresh \in Nat /\ pools[p].stale \in Nat
              /\ Pinged(p) \in {0, 1} /\ Borrowed(p) \in {0, 1} /\ MinSize \in Nat
       BY <1>t, PoolFields, MinSizeType DEF VarsInv, Pinged, Borrowed
<1>11. PoolsInv'
  <2> SUFFICES ASSUME NEW p \in DOMAIN pools
               PROVE  /\ pools'[p].node = cluster[p].point
                      /\ pools'[p].due + pools'[p].failed + pools'[p].fresh + pools'[p].stale
                            + Pinged(p)' + Borrowed(p) <= MinSize
                      /\ pools'[p].stale > 0 \/ pools'[p].pinged = "stale" =>
                            pools'[p].node \in faults'
      BY <1>0, <1>1, <1>5, <1>9 DEF PoolsInv
  <2>1. CASE pools[p].node # n
        BY <1>t, <1>2, <1>4, <2>1 DEF PoolsInv, Pinged
  <2>2. CASE pools[p].node = n
        BY <1>t, <1>2, <1>3, <1>10, <2>2 DEF PoolsInv
  <2> QED  BY <2>1, <2>2
<1>12. DrainInv'
  <2> SUFFICES ASSUME NEW p \in DOMAIN pools, pools'[p].node \notin faults'
               PROVE  pools'[p].due + pools'[p].failed + pools'[p].fresh + Pinged(p)' + Borrowed(p)
                         + (IF p = FindPool THEN misses ELSE 0) = MinSize
      BY <1>0, <1>1, <1>5, <1>9 DEF DrainInv
  <2>1. pools[p].node # n /\ pools'[p] = pools[p]
        BY <1>2, <1>3, <1>4
  <2> QED  BY <1>t, <1>2, <2>1 DEF DrainInv, Pinged
<1>13. CountInv' /\ TimeoutHasACause'
      BY <1>t, <1>0, <1>2, <1>6, LastStays DEF CountInv
<1> QED  BY <1>6, <1>7, <1>8, <1>11, <1>12, <1>13 DEF SessionInv

(* A node that is back changes nothing the driver has. *)
LEMMA NodeRecoversInv ==
  ASSUME SessionInv, NEW n \in Nodes, NodeRecovers(n)
  PROVE  SessionInv'
<1>t. VarsInv /\ StartInv /\ PoolsInv /\ DrainInv /\ CallInv /\ CountInv /\ TimeoutHasACause
      BY DEF SessionInv
<1>0. /\ UNCHANGED <<step, doc, config, cluster, pools, refusing, faults>>
      /\ UNCHANGED <<call, calls, misses, last>>
      /\ up' = up \cup {n}
      BY DEF NodeRecovers, starting, calling
<1>1. /\ UNCHANGED <<PoolSettings, MinSize, Nodes, Pool>>
      /\ (ValidDocument' <=> ValidDocument) /\ (Deployed' <=> Deployed)
      BY <1>0, InputsStay
<1>2. VarsInv'
      BY <1>t, <1>0, <1>1 DEF VarsInv
<1>3. StartInv'
      BY <1>t, <1>0, <1>1 DEF StartInv, Busy
<1>4. PoolsInv' /\ DrainInv'
      BY <1>t, <1>0, <1>1 DEF PoolsInv, DrainInv, Pinged, Borrowed, Busy
<1>5. CallInv' /\ CountInv' /\ TimeoutHasACause'
      BY <1>t, <1>0, CallStays, LastStays DEF CountInv, Busy
<1> QED  BY <1>2, <1>3, <1>4, <1>5 DEF SessionInv

-----------------------------------------------------------------------------
(* Calls.                                                                   *)

(* A step of a call, seen from its pool: what the pool loses the call has,  *)
(* or has lost to a node that was away or to its own short deadline.        *)
LEMMA CallBooks ==
  ASSUME VarsInv, PoolsInv, DrainInv, FindPool \in DOMAIN pools, NEW q \in Pool,
         pools' = [pools EXCEPT ![FindPool] = q],
         UNCHANGED <<doc, config, cluster, faults>>,
         q.node = pools[FindPool].node, Stale(q) => Stale(pools[FindPool]) \/ q.node \in faults,
         AllOf(q) + Borrowed(FindPool)'
           <= AllOf(pools[FindPool]) + Borrowed(FindPool),
         misses' \in Nat,
         q.node \notin faults =>
           Working(q) + Borrowed(FindPool)' + misses'
             = Working(pools[FindPool]) + Borrowed(FindPool) + misses
  PROVE  /\ pools' \in Seq(Pool) /\ Len(pools') = Len(pools)
         /\ PoolsInv' /\ DrainInv'
<1>1. UNCHANGED <<MinSize, Pool>>
      BY InputsStay
<1>2. /\ pools \in Seq(Pool) /\ pools' \in Seq(Pool) /\ Len(pools') = Len(pools)
      /\ DOMAIN pools' = DOMAIN pools
      /\ \A r \in DOMAIN pools : pools'[r] = IF r = FindPool THEN q ELSE pools[r]
      BY DEF VarsInv
<1>3. \A r : r # FindPool => Borrowed(r)' = 0 /\ Borrowed(r) = 0
      BY DEF Borrowed
<1>4. /\ q.due \in Nat /\ q.failed \in Nat /\ q.fresh \in Nat /\ q.stale \in Nat
      /\ InPing(q) \in Nat
      /\ MinSize \in Nat /\ Borrowed(FindPool)' \in Nat /\ Borrowed(FindPool) \in Nat
      /\ misses \in Nat
      BY MinSizeType DEF Pool, VarsInv, Borrowed, InPing
<1>5. LET o == pools[FindPool]
      IN  /\ o.due \in Nat /\ o.failed \in Nat /\ o.fresh \in Nat /\ o.stale \in Nat
          /\ InPing(o) \in Nat
      BY PoolFields DEF InPing
<1>6. /\ pools'[FindPool] = q /\ Pinged(FindPool)' = InPing(q)
      /\ Pinged(FindPool) = InPing(pools[FindPool])
      BY <1>2 DEF Pinged, InPing, FindPool
<1>7. PoolsInv'
  <2> SUFFICES ASSUME NEW r \in DOMAIN pools
               PROVE  /\ pools'[r].node = cluster[r].point
                      /\ pools'[r].due + pools'[r].failed + pools'[r].fresh + pools'[r].stale
                            + Pinged(r)' + Borrowed(r)' <= MinSize
                      /\ pools'[r].stale > 0 \/ pools'[r].pinged = "stale" =>
                            pools'[r].node \in faults
      BY <1>1, <1>2 DEF PoolsInv
  <2>1. CASE r # FindPool
        BY <1>2, <1>3, <2>1 DEF PoolsInv, Pinged
  <2>2. CASE r = FindPool
    <3>1. AllOf(pools[FindPool]) + Borrowed(FindPool) <= MinSize
          BY <1>6 DEF PoolsInv, AllOf
    <3>2. AllOf(q) \in Nat /\ AllOf(pools[FindPool]) \in Nat
          BY <1>4, <1>5 DEF AllOf
    <3>3. AllOf(q) + Borrowed(FindPool)' <= MinSize
          BY <1>4, <3>1, <3>2
    <3>4. q.node = cluster[FindPool].point /\ (Stale(q) => q.node \in faults)
          BY DEF PoolsInv, Stale
    <3>5. Pinged(r)' = InPing(q) /\ Borrowed(r)' = Borrowed(FindPool)'
          BY <1>6, <2>2 DEF FindPool
    <3> QED  BY <1>6, <2>2, <3>3, <3>4, <3>5 DEF AllOf, Stale
  <2> QED  BY <2>1, <2>2
<1>8. DrainInv'
  <2> SUFFICES ASSUME NEW r \in DOMAIN pools, pools'[r].node \notin faults
               PROVE  pools'[r].due + pools'[r].failed + pools'[r].fresh + Pinged(r)' + Borrowed(r)'
                         + (IF r = FindPool THEN misses' ELSE 0) = MinSize
      BY <1>1, <1>2 DEF DrainInv, FindPool
  <2>1. CASE r # FindPool
        BY <1>2, <1>3, <2>1 DEF DrainInv, Pinged
  <2>2. CASE r = FindPool
    <3>1. q.node \notin faults
          BY <1>6, <2>2
    <3>2. Working(pools[FindPool]) + Borrowed(FindPool) + misses = MinSize
          BY <1>6, <3>1 DEF DrainInv, Working
    <3>3. Working(q) + Borrowed(FindPool)' + misses' = MinSize
          BY <3>1, <3>2
    <3>5. Pinged(r)' = InPing(q) /\ Borrowed(r)' = Borrowed(FindPool)'
          BY <1>6, <2>2 DEF FindPool
    <3> QED  BY <1>6, <2>2, <3>3, <3>5 DEF Working
  <2> QED  BY <2>1, <2>2
<1> QED  BY <1>2, <1>7, <1>8

LEMMA StoresAreSequences == Stores \subseteq Seq(Statements)
<1> DEFINE Add(batches) == {AddQuery(b, s) : b \in batches, s \in Statements}
<1>1. ASSUME NEW B \in SUBSET Seq(Statements) PROVE Add(B) \in SUBSET Seq(Statements)
      BY DEF AddQuery
<1>2. {<<>>} \in SUBSET Seq(Statements)
      OBVIOUS
<1>3. Stores = {<<>>} \cup Add({<<>>}) \cup Add(Add({<<>>}))
      BY DEF Stores
<1> HIDE DEF Add
<1> QED  BY <1>1, <1>2, <1>3

LEMMA BeginInv ==
  ASSUME SessionInv, NEW statements \in Seq(Statements), NEW ctl \in OptionalControl,
         Begin(statements, ctl)
  PROVE  SessionInv'
<1>t. VarsInv /\ StartInv /\ PoolsInv /\ DrainInv /\ CallInv /\ CountInv /\ TimeoutHasACause
      BY DEF SessionInv
<1>0. /\ step = "up" /\ ~Busy /\ calls' = calls + 1 /\ last' = NoOutcome
      /\ UNCHANGED <<doc, config, cluster, up, refusing, faults, misses>>
      BY DEF Begin, Busy, world
<1>1. /\ UNCHANGED <<PoolSettings, MinSize, Nodes, Pool>>
      /\ (ValidDocument' <=> ValidDocument) /\ (Deployed' <=> Deployed)
      BY <1>0, InputsStay
<1>l. TimeoutHasACause'
      BY <1>0 DEF TimeoutHasACause, NoOutcome
<1>2. CASE step' = "crashed" /\ UNCHANGED <<pools, call>>
  <2>1. VarsInv'
        BY <1>t, <1>0, <1>1, <1>2 DEF VarsInv
  <2>2. StartInv'
        BY <1>t, <1>0, <1>1, <1>2 DEF StartInv, Busy
  <2>3. PoolsInv' /\ DrainInv'
        BY <1>t, <1>0, <1>1, <1>2 DEF PoolsInv, DrainInv, Pinged, Borrowed, Busy
  <2>4. CallInv'
        BY <1>0, <1>2 DEF CallInv, Busy
  <2>5. CountInv'
        BY <1>t, <1>0, <1>2 DEF CountInv, Busy, VarsInv
  <2> QED  BY <1>l, <2>1, <2>2, <2>3, <2>4, <2>5 DEF SessionInv
<1>3. ASSUME NEW conn \in {"fresh", "stale"}, pools[FindPool][conn] > 0,
             pools' = [pools EXCEPT ![FindPool][conn] = @ - 1],
             call' = [stage |-> IF CanPrepareStatement(ctl) THEN "resolve" ELSE "send",
                      ctl |-> ctl, conn |-> conn, left |-> statements],
             UNCHANGED step
      PROVE  SessionInv'
  <2> DEFINE o == pools[FindPool]
             q == [o EXCEPT ![conn] = @ - 1]
  <2>1. FindPool \in DOMAIN pools
        BY <1>t, <1>0 DEF StartInv, VarsInv, FindPool
  <2>2. /\ o \in Pool /\ o.due \in Nat /\ o.failed \in Nat /\ o.fresh \in Nat /\ o.stale \in Nat
        /\ o.pinged \in {"none", "fresh", "stale"}
        BY <1>t, <2>1, PoolFields
  <2>3. pools' = [pools EXCEPT ![FindPool] = q]
        BY <1>t, <1>3, <2>1 DEF VarsInv
  <2>4. /\ q \in Pool /\ q.node = o.node /\ q.due = o.due /\ q.pinged = o.pinged
        /\ q.failed = o.failed
        /\ \/ conn = "fresh" /\ q.fresh = o.fresh - 1 /\ q.stale = o.stale
           \/ conn = "stale" /\ q.stale = o.stale - 1 /\ q.fresh = o.fresh /\ o.stale > 0
    <3>1. CASE conn = "fresh"
      <4>1. o.fresh - 1 \in Nat
            BY <1>3, <2>2, <3>1
      <4> QED  BY <2>2, <3>1, <4>1 DEF Pool
    <3>2. CASE conn = "stale"
      <4>1. o.stale - 1 \in Nat /\ o.stale > 0
            BY <1>3, <2>2, <3>2
      <4> QED  BY <2>2, <3>2, <4>1 DEF Pool
    <3> QED  BY <3>1, <3>2
  <2>5. conn = "stale" => o.node \in faults
        BY <1>t, <2>1, <2>4 DEF PoolsInv
  <2>7. /\ call' \in CallType /\ Busy' /\ call'.conn = conn
        /\ call'.stage \in {"resolve", "send"}
        BY <1>3 DEF CallType, Busy
  <2> HIDE DEF o, q
  <2>8. Borrowed(FindPool)' = 1 /\ Borrowed(FindPool) = 0
        BY <1>0, <2>7 DEF Borrowed, FindPool
  <2>9. /\ AllOf(q) + 1 <= AllOf(o) + 0 /\ (Stale(q) => Stale(o))
        /\ conn = "fresh" => Working(q) + 1 + misses = Working(o) + 0 + misses
    <3>1. InPing(q) = InPing(o) /\ InPing(o) \in Nat /\ misses \in Nat
          BY <1>t, <2>2, <2>4 DEF InPing, VarsInv
    <3>2. CASE conn = "fresh"
      <4>1. AllOf(q) + 1 <= AllOf(o) + 0
            BY <2>2, <2>4, <3>1, <3>2 DEF AllOf
      <4>2. Stale(q) => Stale(o)
            BY <2>2, <2>4, <3>2 DEF Stale
      <4>3. q.fresh = o.fresh - 1
            BY <2>4, <3>2
      <4>4. Working(q) + 1 + misses = Working(o) + 0 + misses
        <5> DEFINE d == o.due
                   f == o.failed
                   n == o.fresh
                   i == InPing(o)
                   w == Working(o)
                   v == Working(q)
        <5>1. w = d + f + n + i /\ v = d + f + (n - 1) + i
              BY <2>4, <3>1, <4>3, Zenon DEF Working
        <5>2. d \in Nat /\ f \in Nat /\ n \in Nat /\ i \in Nat
              BY <2>2, <3>1
        <5> HIDE DEF d, f, n, i, w, v
        <5>3. w \in Int /\ v = w - 1
              BY <5>1, <5>2
        <5>4. v + 1 + misses = w + 0 + misses
              BY <3>1, <5>3
        <5> QED  BY <5>4 DEF w, v
      <4> QED  BY <4>1, <4>2, <4>4
    <3>3. CASE conn = "stale"
          BY <2>2, <2>4, <3>1, <3>3 DEF AllOf, Stale
    <3> QED  BY <3>2, <3>3
  <2>10. /\ pools' \in Seq(Pool) /\ Len(pools') = Len(pools)
         /\ PoolsInv' /\ DrainInv'
    <3>1. /\ q.node = pools[FindPool].node /\ (Stale(q) => Stale(pools[FindPool]) \/ q.node \in faults)
          /\ AllOf(q) + Borrowed(FindPool)' <= AllOf(pools[FindPool]) + Borrowed(FindPool)
          /\ misses' \in Nat
          /\ q.node \notin faults =>
                Working(q) + Borrowed(FindPool)' + misses'
                  = Working(pools[FindPool]) + Borrowed(FindPool) + misses
          BY <1>t, <1>0, <2>4, <2>5, <2>8, <2>9 DEF o, VarsInv
    <3> QED  BY <1>t, <1>0, <2>1, <2>3, <2>4, <3>1, CallBooks
  <2>11. VarsInv'
        BY <1>t, <1>0, <1>1, <1>3, <2>7, <2>10 DEF VarsInv
  <2>12. StartInv'
    <3>1. pools # <<>> <=> pools' # <<>>
          BY <1>t, <2>10 DEF VarsInv
    <3> QED  BY <1>t, <1>0, <1>1, <1>3, <2>10, <3>1 DEF StartInv
  <2>13. CallInv'
    <3>1. pools'[FindPool].node = o.node
          BY <1>t, <2>1, <2>3, <2>4 DEF VarsInv
    <3> QED  BY <1>0, <2>5, <2>7, <3>1 DEF CallInv
  <2>14. CountInv'
        BY <1>t, <1>0, <2>7 DEF CountInv, VarsInv
  <2> QED  BY <1>l, <2>10, <2>11, <2>12, <2>13, <2>14 DEF SessionInv
<1> QED  BY <1>2, <1>3 DEF Begin

(* A step of a call that leaves the pools alone. *)
LEMMA CallGoesOn ==
  ASSUME SessionInv, Busy,
         UNCHANGED <<starting, pools, up, refusing, calls, misses, last>>,
         faults \subseteq faults', faults' \subseteq Nodes,
         call' \in CallType, CallInv'
  PROVE  SessionInv'
<1>t. VarsInv /\ StartInv /\ PoolsInv /\ DrainInv /\ CountInv /\ TimeoutHasACause
      BY DEF SessionInv
<1>0. UNCHANGED <<step, doc, config, cluster, pools, up, refusing, calls, misses, last>>
      BY DEF starting
<1>1. /\ UNCHANGED <<PoolSettings, MinSize, Nodes, Pool>>
      /\ (ValidDocument' <=> ValidDocument) /\ (Deployed' <=> Deployed)
      BY <1>0, InputsStay
<1>2. Busy' /\ call # NoCall
      BY DEF Busy, CallType, NoCall
<1>3. VarsInv'
      BY <1>t, <1>0, <1>1 DEF VarsInv
<1>4. StartInv'
      BY <1>t, <1>0, <1>1, <1>2 DEF StartInv
<1>5. PoolsInv' /\ DrainInv'
      BY <1>t, <1>0, <1>1, <1>2 DEF PoolsInv, DrainInv, Pinged, Borrowed
<1>6. CountInv' /\ TimeoutHasACause'
      BY <1>t, <1>0, <1>2, LastStays DEF CountInv
<1> QED  BY <1>3, <1>4, <1>5, <1>6 DEF SessionInv

(* The same, when nothing happens around it. *)
LEMMA CallGoesOnAlone ==
  ASSUME SessionInv, Busy, UNCHANGED <<starting, pools, world, calls, misses, last>>,
         call' \in CallType, CallInv'
  PROVE  SessionInv'
<1>1. /\ UNCHANGED <<starting, pools, up, refusing, calls, misses, last>>
      /\ faults' = faults
      BY DEF world
<1>2. faults \subseteq Nodes
      BY DEF SessionInv, VarsInv
<1> QED  BY <1>1, <1>2, CallGoesOn

LEMMA LosesInv == SessionInv /\ CallLosesConnection => SessionInv'
<1> SUFFICES ASSUME SessionInv, CallLosesConnection
             PROVE  SessionInv'
    OBVIOUS
<1>1. /\ VarsInv /\ CallInv /\ Busy /\ call.conn = "stale"
      /\ call' = [call EXCEPT !.conn = "broken"]
      /\ UNCHANGED <<starting, pools, world, calls, misses, last>>
      BY DEF SessionInv, CallLosesConnection, Busy
<1>2. pools'[FindPool].node \in faults'
      BY <1>1 DEF CallInv, world, FindPool
<1>3. call' \in CallType /\ CallInv'
      BY <1>1, <1>2, ConnectionChanges
<1> QED  BY <1>1, <1>3, CallGoesOnAlone

(* A connection dies: an idle one, one that is pinged, or the call's. *)
LEMMA DiesInv ==
  ASSUME SessionInv, NEW p \in DOMAIN pools, ConnectionDies(p)
  PROVE  SessionInv'
<1>1. /\ VarsInv /\ CallInv /\ StartInv /\ pools[p].node \in Nodes /\ faults \subseteq Nodes
      BY PoolFields DEF SessionInv, VarsInv
<1>2. /\ faults' = faults \cup {pools[p].node} /\ faults \subseteq faults'
      /\ faults' \subseteq Nodes
      /\ UNCHANGED <<starting, up, refusing, calls, misses, last>>
      BY <1>1 DEF ConnectionDies
<1>3. CASE /\ UNCHANGED call
           /\ \/ /\ pools[p].fresh > 0
                 /\ pools' = [pools EXCEPT ![p].fresh = @ - 1, ![p].stale = @ + 1]
              \/ /\ pools[p].pinged = "fresh"
                 /\ pools' = [pools EXCEPT ![p].pinged = "stale"]
  <2>1. PICK q \in Pool : Turn(p, q)
        BY <1>2, <1>3, DiesTurn
  <2>2. UNCHANGED <<starting, up, refusing, calling>>
        BY <1>2, <1>3 DEF calling
  <2> QED  BY <1>2, <2>1, <2>2, TurnInv
<1>4. CASE /\ p = FindPool /\ Busy /\ UNCHANGED pools
           /\ call' = [call EXCEPT !.conn = "stale"]
  <2>1. pools'[FindPool].node \in faults'
        BY <1>2, <1>4 DEF FindPool
  <2>2. call' \in CallType /\ CallInv'
        BY <1>1, <1>4, <2>1, ConnectionChanges
  <2> QED  BY <1>2, <1>4, <2>2, CallGoesOn
<1> QED  BY <1>3, <1>4 DEF ConnectionDies, Busy

(* A statement with an id is passed over, one without is asked for. *)
LEMMA ResolveInv == SessionInv /\ Resolve => SessionInv'
<1> SUFFICES ASSUME SessionInv, Resolve
             PROVE  SessionInv'
    OBVIOUS
<1>1. /\ VarsInv /\ CallInv /\ Busy /\ call.left # <<>>
      /\ UNCHANGED <<starting, pools, world, calls, misses, last>>
      BY DEF SessionInv, Resolve, Busy
<1>2. /\ call \in CallType /\ call.left \in Seq(Statements)
      /\ call.stage = "resolve"
      BY <1>1, CallFields DEF Resolve
<1>3. /\ call' \in CallType /\ call'.conn = call.conn
      /\ call'.stage = "prepare" => call'.left # <<>>
  <2>1. CASE Head(call.left) \in pools[FindPool].cache
    <3>1. call' = [call EXCEPT !.left = Tail(call.left)]
          BY <2>1 DEF Resolve
    <3>2. Tail(call.left) \in Seq(Statements)
          BY <1>1, <1>2
    <3> QED  BY <1>2, <3>1, <3>2 DEF CallType
  <2>2. CASE Head(call.left) \notin pools[FindPool].cache
    <3>1. call' = [call EXCEPT !.stage = "prepare"]
          BY <2>2 DEF Resolve
    <3> QED  BY <1>1, <1>2, <3>1 DEF CallType
  <2> QED  BY <2>1, <2>2
<1>4. CallInv'
      BY <1>1, <1>3 DEF CallInv, world, FindPool
<1> QED  BY <1>1, <1>3, <1>4, CallGoesOnAlone

LEMMA SendInv == SessionInv /\ Send => SessionInv'
<1> SUFFICES ASSUME SessionInv, Send
             PROVE  SessionInv'
    OBVIOUS
<1>1. /\ VarsInv /\ CallInv /\ Busy
      /\ UNCHANGED <<starting, pools, world, calls, misses, last>>
      BY DEF SessionInv, Send, Busy
<1>2. call \in CallType
      BY <1>1, CallFields
<1>4. call' = [call EXCEPT !.stage = "wait"]
      BY DEF Send
<1>5. call' \in CallType /\ call'.conn = call.conn /\ call'.stage = "wait"
      BY <1>2, <1>4 DEF CallType
<1>6. CallInv'
      BY <1>1, <1>5 DEF CallInv, world, FindPool
<1> QED  BY <1>1, <1>5, <1>6, CallGoesOnAlone

(* The id that has come goes into the cache, for another one perhaps. *)
LEMMA PrepareInv ==
  ASSUME SessionInv, PrepareAnswered
  PROVE  SessionInv'
<1> DEFINE o == pools[FindPool]
<1>t. VarsInv /\ StartInv /\ PoolsInv /\ DrainInv /\ CallInv /\ CountInv /\ TimeoutHasACause
      BY DEF SessionInv
<1>0. /\ UNCHANGED <<step, doc, config, cluster, up, refusing, faults, calls, misses, last>>
      /\ Busy /\ call.stage = "prepare" /\ call.conn = "fresh"
      BY DEF PrepareAnswered, InTime, starting, world, Busy
<1>1. /\ UNCHANGED <<PoolSettings, MinSize, Nodes, Pool>>
      /\ (ValidDocument' <=> ValidDocument) /\ (Deployed' <=> Deployed)
      BY <1>0, InputsStay
<1>2. /\ call \in CallType /\ call.left \in Seq(Statements)
      /\ call.left # <<>>
      BY <1>t, <1>0, CallFields DEF CallInv
<1>5. FindPool \in DOMAIN pools
      BY <1>t, <1>0 DEF StartInv, VarsInv, FindPool
<1>6. /\ o \in Pool /\ o.cache \in SUBSET Cacheable /\ o.due \in Nat /\ o.failed \in Nat
      /\ o.fresh \in Nat /\ o.stale \in Nat /\ o.pinged \in {"none", "fresh", "stale"}
      BY <1>t, <1>5, PoolFields
<1>7. Head(call.left) \in Cacheable /\ Tail(call.left) \in Seq(Statements)
      BY <1>2 DEF Cacheable
<1>c. PICK cache \in PutInto(o.cache, Head(call.left)) :
         pools' = [pools EXCEPT ![FindPool].cache = cache]
      BY DEF PrepareAnswered
<1> DEFINE q == [o EXCEPT !.cache = cache]
<1>8. pools' = [pools EXCEPT ![FindPool] = q]
      BY <1>t, <1>5, <1>c DEF VarsInv
<1>d. cache \in SUBSET Cacheable
      BY <1>6, <1>7, <1>c, PutIsCache
<1>9. /\ q \in Pool /\ q.node = o.node /\ q.due = o.due /\ q.failed = o.failed
      /\ q.fresh = o.fresh /\ q.stale = o.stale /\ q.pinged = o.pinged
      BY <1>6, <1>d DEF Pool, Cacheable
<1>10. /\ call' \in CallType /\ call'.stage = "resolve" /\ call'.conn = call.conn
  <2>1. call' = [call EXCEPT !.stage = "resolve", !.left = Tail(call.left)]
        BY DEF PrepareAnswered
  <2> QED  BY <1>2, <1>7, <2>1 DEF CallType
<1> HIDE DEF o, q
<1>11. Busy' /\ Borrowed(FindPool)' = 1 /\ Borrowed(FindPool) = 1
      BY <1>0, <1>10 DEF Borrowed, Busy, FindPool
<1>12. pools' \in Seq(Pool) /\ Len(pools') = Len(pools) /\ PoolsInv' /\ DrainInv'
  <2>1. AllOf(q) = AllOf(o) /\ Working(q) = Working(o) /\ (Stale(q) => Stale(o))
        BY <1>9 DEF AllOf, Working, Stale, InPing
  <2>2. AllOf(o) \in Nat /\ misses' \in Nat /\ misses' = misses
    <3>1. InPing(o) \in Nat
          BY DEF InPing
    <3> QED  BY <1>t, <1>0, <1>6, <3>1, SMTT(60) DEF AllOf, VarsInv
  <2>3. /\ q.node = pools[FindPool].node
        /\ Stale(q) => Stale(pools[FindPool]) \/ q.node \in faults
        /\ AllOf(q) + Borrowed(FindPool)' <= AllOf(pools[FindPool]) + Borrowed(FindPool)
        /\ misses' \in Nat
        /\ q.node \notin faults =>
              Working(q) + Borrowed(FindPool)' + misses'
                = Working(pools[FindPool]) + Borrowed(FindPool) + misses
        BY <1>9, <1>11, <2>1, <2>2 DEF o
  <2> QED  BY <1>t, <1>0, <1>5, <1>8, <1>9, <2>3, CallBooks
<1>13. VarsInv'
      BY <1>t, <1>0, <1>1, <1>10, <1>12 DEF VarsInv
<1>14. StartInv'
  <2>1. (pools # <<>> <=> pools' # <<>>) /\ call # NoCall
        BY <1>t, <1>0, <1>12 DEF VarsInv, Busy, NoCall
  <2> QED  BY <1>t, <1>0, <1>1, <1>11, <1>12, <2>1 DEF StartInv
<1>15. CallInv'
      BY <1>0, <1>10 DEF CallInv
<1>16. CountInv' /\ TimeoutHasACause'
      BY <1>t, <1>0, <1>11, LastStays DEF CountInv
<1> QED  BY <1>12, <1>13, <1>14, <1>15, <1>16 DEF SessionInv

(* The end of a call: its connection goes back to the pool, or is lost to a *)
(* node that was away, to a deadline that was too short or to a caller that *)
(* was cancelled.                                                           *)
LEMMA FinishInv ==
  ASSUME SessionInv, NEW result \in {"rows", "error", "timeout", "cancelled"},
         NEW conn \in {"fresh", "stale", "broken"},
         Finish(result, conn),
         call.stage \in {"prepare", "wait"}, conn = "broken" \/ conn = call.conn,
         misses' = IF conn = "broken" /\ call.conn = "fresh" THEN misses + 1 ELSE misses,
         result = "timeout" => \/ call.conn # "fresh"
                               \/ call.ctl # NoControl /\ call.ctl.network <= NodeDelay
  PROVE  SessionInv'
<1> DEFINE o == pools[FindPool]
           q == IF conn = "broken" THEN o ELSE [o EXCEPT ![conn] = @ + 1]
<1>t. VarsInv /\ StartInv /\ PoolsInv /\ DrainInv /\ CallInv /\ CountInv /\ TimeoutHasACause
      BY DEF SessionInv
<1>0. /\ UNCHANGED <<step, doc, config, cluster, up, refusing, faults, calls>>
      /\ Busy /\ ~Busy' /\ call' = NoCall
      BY DEF Finish, starting, world, Busy, NoCall
<1>1. /\ UNCHANGED <<PoolSettings, MinSize, Nodes, Pool>>
      /\ (ValidDocument' <=> ValidDocument) /\ (Deployed' <=> Deployed)
      BY <1>0, InputsStay
<1>2. call.ctl \in OptionalControl
      BY <1>t, <1>0, CallFields
<1>3. last' \in OutcomeType /\ last'.result = result /\ last'.ctl = call.ctl
      BY <1>2 DEF Finish, OutcomeType
<1>4. FindPool \in DOMAIN pools /\ step = "up"
      BY <1>t, <1>0 DEF StartInv, VarsInv, FindPool
<1>5. /\ o \in Pool /\ o.due \in Nat /\ o.failed \in Nat /\ o.fresh \in Nat
      /\ o.stale \in Nat /\ o.pinged \in {"none", "fresh", "stale"}
      BY <1>t, <1>4, PoolFields
<1>6. pools' = [pools EXCEPT ![FindPool] = q]
  <2>1. CASE conn # "broken"
        BY <1>t, <1>4, <2>1 DEF Finish, VarsInv
  <2>2. CASE conn = "broken"
    <3>1. pools' = pools /\ q = pools[FindPool]
          BY <2>2 DEF Finish
    <3>2. pools = [pools EXCEPT ![FindPool] = pools[FindPool]]
          BY <1>t, <1>4 DEF VarsInv
    <3> QED  BY <3>1, <3>2
  <2> QED  BY <2>1, <2>2
<1>7. /\ q \in Pool /\ q.node = o.node /\ q.due = o.due /\ q.failed = o.failed
      /\ q.pinged = o.pinged
      /\ q.fresh = IF conn = "fresh" THEN o.fresh + 1 ELSE o.fresh
      /\ q.stale = IF conn = "stale" THEN o.stale + 1 ELSE o.stale
  <2>1. o.fresh + 1 \in Nat /\ o.stale + 1 \in Nat
        BY <1>5
  <2>2. CASE conn = "broken"
        BY <1>5, <2>2
  <2>3. CASE conn = "fresh"
        BY <1>5, <2>1, <2>3 DEF Pool
  <2>4. CASE conn = "stale"
        BY <1>5, <2>1, <2>4 DEF Pool
  <2> QED  BY <2>2, <2>3, <2>4
<1> HIDE DEF o, q
<1>8. Borrowed(FindPool)' = 0 /\ Borrowed(FindPool) = 1
      BY <1>0 DEF Borrowed, FindPool
<1>9. call.conn # "fresh" => o.node \in faults
      BY <1>t, <1>0 DEF CallInv, o
<1>10. pools' \in Seq(Pool) /\ Len(pools') = Len(pools) /\ PoolsInv' /\ DrainInv'
  <2>1. InPing(q) = InPing(o) /\ InPing(o) \in Nat /\ misses \in Nat
        BY <1>t, <1>7 DEF InPing, VarsInv
  <2>2. AllOf(q) + 0 <= AllOf(o) + 1
    <3>1. CASE conn = "broken"
          BY <1>5, <1>7, <2>1, <3>1 DEF AllOf
    <3>2. CASE conn = "fresh"
          BY <1>5, <1>7, <2>1, <3>2 DEF AllOf
    <3>3. CASE conn = "stale"
          BY <1>5, <1>7, <2>1, <3>3 DEF AllOf
    <3> QED  BY <3>1, <3>2, <3>3
  <2>6. Stale(q) => Stale(o) \/ q.node \in faults
    <3>1. CASE conn = "stale"
          BY <1>7, <1>9, <3>1
    <3>2. CASE conn # "stale"
          BY <1>7, <3>2 DEF Stale
    <3> QED  BY <3>1, <3>2
  <2>3. misses' \in Nat
        BY <2>1
  <2>4. q.node \notin faults => Working(q) + 0 + misses' = Working(o) + 1 + misses
    <3>1. CASE conn = "fresh"
          BY <1>5, <1>7, <2>1, <3>1 DEF Working
    <3>2. CASE conn = "broken" /\ call.conn = "fresh"
          BY <1>5, <1>7, <2>1, <3>2 DEF Working
    <3>3. CASE call.conn # "fresh"
          BY <1>7, <1>9, <3>3
    <3> QED  BY <3>1, <3>2, <3>3
  <2>5. /\ q.node = pools[FindPool].node
        /\ Stale(q) => Stale(pools[FindPool]) \/ q.node \in faults
        /\ AllOf(q) + Borrowed(FindPool)' <= AllOf(pools[FindPool]) + Borrowed(FindPool)
        /\ q.node \notin faults =>
              Working(q) + Borrowed(FindPool)' + misses'
                = Working(pools[FindPool]) + Borrowed(FindPool) + misses
        BY <1>7, <1>8, <2>2, <2>4, <2>6 DEF o
  <2> QED  BY <1>t, <1>0, <1>4, <1>6, <1>7, <2>3, <2>5, CallBooks
<1>11. VarsInv'
  <2>1. misses' \in Nat
        BY <1>t DEF VarsInv
  <2> QED  BY <1>t, <1>0, <1>1, <1>3, <1>10, <2>1 DEF VarsInv
<1>12. StartInv'
  <2>1. pools # <<>> <=> pools' # <<>>
        BY <1>t, <1>10 DEF VarsInv
  <2> QED  BY <1>t, <1>0, <1>1, <1>4, <1>10, <2>1 DEF StartInv
<1>13. CallInv' /\ CountInv'
  <2>1. misses + 1 <= calls /\ misses \in Nat /\ calls \in Nat
        BY <1>t, <1>0 DEF CountInv, VarsInv
  <2> QED  BY <1>0, <2>1 DEF CallInv, CountInv
<1>14. TimeoutHasACause'
  <2>1. o.node = cluster[1].point
        BY <1>t, <1>4 DEF PoolsInv, FindPool, o
  <2>2. call.ctl # NoControl => call.ctl.network \in Nat
        BY <1>2, NoControlIsNone DEF OptionalControl
  <2>3. NodeDelay \in Nat
        BY BoundsAssumption
  <2> QED  BY <1>0, <1>3, <1>9, <2>1, <2>2, <2>3 DEF TimeoutHasACause
<1> QED
  BY <1>10, <1>11, <1>12, <1>13, <1>14 DEF SessionInv

LEMMA AnsweredInv ==
  ASSUME SessionInv, Answered \/ AnsweredError
  PROVE  SessionInv'
<1>1. /\ VarsInv /\ Busy /\ call.stage \in {"prepare", "wait"} /\ call.conn = "fresh"
      /\ Finish("rows", "fresh") \/ Finish("error", "fresh")
      /\ misses' = misses
      BY DEF SessionInv, Answered, AnsweredError, InTime, Busy
<1> QED  BY <1>1, FinishInv

(* Prepare's own deadline is longer than any node that is up needs, so a    *)
(* call on a connection that works times out only on its caller's account.  *)
LEMMA TimesOutInv == SessionInv /\ TimesOut => SessionInv'
<1> SUFFICES ASSUME SessionInv, TimesOut
             PROVE  SessionInv'
    OBVIOUS
<1>1. /\ VarsInv /\ Busy /\ call.stage \in {"prepare", "wait"}
      /\ call.conn # "fresh" \/ Waits <= NodeDelay
      /\ Finish("timeout", "broken")
      /\ misses' = IF call.conn = "fresh" THEN misses + 1 ELSE misses
      BY DEF SessionInv, TimesOut, MarkBroken, Busy
<1>2. Waits <= NodeDelay => call.ctl # NoControl /\ call.ctl.network <= NodeDelay
      BY BoundsAssumption DEF Waits, kPrepareDeadline, Deadline
<1> QED  BY <1>1, <1>2, FinishInv

LEMMA CancelledInv == SessionInv /\ CallCancelled => SessionInv'
<1> SUFFICES ASSUME SessionInv, CallCancelled
             PROVE  SessionInv'
    OBVIOUS
<1>1. /\ VarsInv /\ Busy /\ call.stage \in {"prepare", "wait"}
      BY DEF SessionInv, CallCancelled, Busy
<1>2. call.conn \in {"fresh", "stale", "broken"}
      BY <1>1, CallFields
<1>3. CASE Finish("cancelled", "broken") /\ MarkBroken
      BY <1>1, <1>2, <1>3, FinishInv DEF MarkBroken
<1>4. CASE Finish("cancelled", call.conn) /\ UNCHANGED misses
  <2>1. misses' = IF call.conn = "broken" /\ call.conn = "fresh" THEN misses + 1 ELSE misses
        BY <1>4
  <2> QED  BY <1>1, <1>2, <1>4, <2>1, FinishInv
<1> QED  BY <1>3, <1>4 DEF CallCancelled

LEMMA DestroyInv == SessionInv /\ Destroy => SessionInv'
<1> SUFFICES ASSUME SessionInv, Destroy
             PROVE  SessionInv'
    OBVIOUS
<1>t. VarsInv /\ StartInv /\ CallInv /\ CountInv /\ TimeoutHasACause
      BY DEF SessionInv
<1>0. /\ step' = "stopped" /\ pools' = <<>> /\ ~Busy
      /\ UNCHANGED <<doc, config, cluster, up, refusing, faults, call, calls, misses, last>>
      BY DEF Destroy, calling, world, Busy
<1>1. UNCHANGED <<Nodes, Pool>> /\ (Deployed' <=> Deployed)
      BY <1>0, InputsStay
<1>2. VarsInv'
      BY <1>t, <1>0, <1>1 DEF VarsInv
<1>3. Len(pools') <= Len(cluster')
      BY <1>t, <1>0 DEF VarsInv
<1>4. StartInv'
      BY <1>0, <1>3 DEF StartInv, Busy
<1>5. PoolsInv' /\ DrainInv'
      BY <1>0 DEF PoolsInv, DrainInv
<1>6. CallInv' /\ CountInv' /\ TimeoutHasACause'
      BY <1>t, <1>0, LastStays DEF CallInv, CountInv, Busy
<1> QED  BY <1>2, <1>4, <1>5, <1>6 DEF SessionInv

LEMMA SessionInvariant == Spec => []SessionInv
<1>1. SessionInv /\ [Next]_vars => SessionInv'
  <2> SUFFICES ASSUME SessionInv, [Next]_vars
               PROVE  SessionInv'
      OBVIOUS
  <2>1. CASE Construct
        BY <2>1, ConstructStep
  <2>2. ASSUME NEW p \in DOMAIN pools,
               \/ ConnectTask(p) \/ ReceiverNotices(p) \/ MaintainReturns(p)
               \/ \E conn \in {"fresh", "stale"} : MaintainTakes(p, conn)
        PROVE  SessionInv'
    <3>1. PICK q \in Pool : Turn(p, q)
          BY <2>2, PoolTurn
    <3>2. UNCHANGED <<starting, up, refusing, calling>> /\ faults' = faults
          BY <2>2 DEF ConnectTask, Connect, ConnectFails, ReceiverNotices,
                      MaintainReturns, MaintainTakes, world
    <3>3. faults \subseteq faults' /\ faults' \subseteq Nodes
          BY <3>2 DEF SessionInv, VarsInv
    <3> QED  BY <3>1, <3>2, <3>3, TurnInv
  <2>3. ASSUME NEW n \in {pools[p].node : p \in DOMAIN pools},
               NodeFails(n) \/ NodeRecovers(n)
        PROVE  SessionInv'
    <3>1. n \in Nodes
          BY PoolFields DEF SessionInv
    <3> QED  BY <2>3, <3>1, NodeFailsInv, NodeRecoversInv
  <2>4. CASE CallLosesConnection \/ CallCancelled \/ Destroy
        BY <2>4, LosesInv, CancelledInv, DestroyInv
  <2>5. CASE CallStep
        BY <2>5, ResolveInv, SendInv, TimesOutInv, PrepareInv, AnsweredInv DEF CallStep
  <2>6. ASSUME NEW ctl \in Passed, NEW s \in Statements, Execute(s, ctl)
        PROVE  SessionInv'
    <3>1. <<s>> \in Seq(Statements)
          OBVIOUS
    <3>2. ctl \in OptionalControl
          BY ControlsAreTyped
    <3> QED  BY <2>6, <3>1, <3>2, BeginInv DEF Execute
  <2>7. ASSUME NEW ctl \in Passed, NEW batch \in Stores, BatchExecute(batch, ctl)
        PROVE  SessionInv'
    <3>1. batch \in Seq(Statements)
          BY StoresAreSequences
    <3>2. ctl \in OptionalControl
          BY ControlsAreTyped
    <3> QED  BY <2>7, <3>1, <3>2, BeginInv DEF BatchExecute
  <2>9. ASSUME NEW p \in DOMAIN pools, ConnectionDies(p)
        PROVE  SessionInv'
        BY <2>9, DiesInv
  <2>8. CASE UNCHANGED vars
    <3>1. /\ UNCHANGED <<step, doc, config, cluster, pools, up, refusing, faults>>
          /\ UNCHANGED <<call, calls, misses, last>>
          BY <2>8 DEF vars, starting, world, calling
    <3>2. /\ (Nodes' = Nodes) /\ (PoolSettings' = PoolSettings)
          /\ (ValidDocument' <=> ValidDocument) /\ (Deployed' <=> Deployed)
          BY <3>1 DEF Nodes, PoolSettings, Setting, ValidDocument, Deployed
    <3>3. (Pool' = Pool) /\ (MinSize' = MinSize) /\ (Busy' <=> Busy)
          BY <3>1, <3>2 DEF Pool, MinSize, Busy
    <3>4. VarsInv'
          BY <3>1, <3>2, <3>3 DEF SessionInv, VarsInv
    <3>5. StartInv'
          BY <3>1, <3>2, <3>3 DEF SessionInv, StartInv
    <3>6. PoolsInv' /\ DrainInv'
          BY <3>1, <3>3 DEF SessionInv, PoolsInv, DrainInv, Borrowed, Pinged
    <3>7. CallInv' /\ CountInv'
          BY <3>1, <3>3 DEF SessionInv, CallInv, CountInv, FindPool
    <3>8. TimeoutHasACause'
          BY <3>1, LastStays DEF SessionInv
    <3> QED  BY <3>4, <3>5, <3>6, <3>7, <3>8 DEF SessionInv
  <2> QED
    BY <2>1, <2>2, <2>3, <2>4, <2>5, <2>6, <2>7, <2>8, <2>9 DEF Next
<1> QED  BY InitInv, <1>1, PTL DEF Spec

-----------------------------------------------------------------------------
(* The theorems.                                                            *)

(* The variables of the session keep their types, no pool ever holds,       *)
(* awaits and has failed to make more connections than Init asked for, and  *)
(* a call runs only while the session does.                                 *)
THEOREM TypeCorrect == Spec => []TypeOK
<1>1. SessionInv => TypeOK
  <2> SUFFICES ASSUME SessionInv
               PROVE  TypeOK
      OBVIOUS
  <2>t. VarsInv /\ StartInv /\ PoolsInv /\ CountInv
        BY DEF SessionInv
  <2>1. misses <= calls
        BY <2>t DEF CountInv, VarsInv
  <2>2. PoolSettings \in PoolSettingsType /\ MinSize \in Nat
        BY <2>t, SettingsType, MinSizeType DEF VarsInv
  <2>3. /\ call.stage \in {"idle", "resolve", "prepare", "send", "wait"}
        /\ call.stage # "idle" => step = "up" /\ call.conn \in {"fresh", "stale", "broken"}
        BY <2>t, CallFields DEF StartInv, Busy
  <2>4. ASSUME NEW p \in DOMAIN pools
        PROVE  pools[p].due + pools[p].failed + pools[p].fresh + pools[p].stale + Pinged(p)
                  <= PoolSettings.min_size
    <3>1. /\ pools[p].due \in Nat /\ pools[p].failed \in Nat /\ pools[p].fresh \in Nat /\ pools[p].stale \in Nat
          /\ Pinged(p) \in Nat /\ Borrowed(p) \in Nat
          BY <2>t, PoolFields DEF Pinged, Borrowed
    <3>2. pools[p].due + pools[p].failed + pools[p].fresh + pools[p].stale + Pinged(p) + Borrowed(p)
             <= MinSize
          BY <2>t DEF PoolsInv
    <3>3. pools[p].due + pools[p].failed + pools[p].fresh + pools[p].stale + Pinged(p) <= MinSize
          BY <2>2, <3>1, <3>2
    <3> QED  BY <3>3 DEF MinSize
  <2> QED  BY <2>t, <2>1, <2>2, <2>3, <2>4 DEF TypeOK, VarsInv, StartInv
<1> QED  BY <1>1, SessionInvariant, PTL

(* A component that has started has one pool for each node of its keyspace, *)
(* in the order of the document, and no keyspace of the document            *)
(* contradicts itself about allow-all and auth.                             *)
THEOREM EveryNodeHasItsPool == Spec => []PoolPerNode
<1>1. SessionInv => PoolPerNode
  <2> SUFFICES ASSUME SessionInv, step = "up"
               PROVE  PoolPerNode
      BY DEF PoolPerNode
  <2>t. VarsInv /\ StartInv /\ PoolsInv
        BY DEF SessionInv
  <2> DEFINE nodes == doc.keyspaces[Keyspace].nodes
  <2>1. /\ cluster = nodes /\ Len(pools) = Len(cluster) /\ pools # <<>> /\ ValidDocument
        /\ MinSize <= PoolSettings.max_size
        BY <2>t DEF StartInv
  <2>2. DOMAIN pools = DOMAIN nodes /\ \A p \in DOMAIN pools : pools[p].node = nodes[p].point
        BY <2>t, <2>1 DEF VarsInv, PoolsInv
  <2>3. [p \in DOMAIN pools |-> pools[p].node] = [i \in DOMAIN nodes |-> nodes[i].point]
        BY <2>2
  <2>4. ASSUME NEW k \in DOMAIN doc.keyspaces, NEW i \in DOMAIN doc.keyspaces[k].nodes
        PROVE  doc.keyspaces[k].nodes[i].allow_all <=> ~doc.keyspaces[k].nodes[i].auth
    <3> DEFINE node == doc.keyspaces[k].nodes[i]
    <3>1. doc.keyspaces[k].nodes \in Seq(NodeDescription)
          BY <2>t, DocsAssumption DEF VarsInv, Deployed, ClusterDescription
    <3>2. node \in NodeDescription
          BY <3>1
    <3>3. node.allow_all \in BOOLEAN /\ node.auth \in BOOLEAN
          BY <3>2, Zenon DEF NodeDescription
    <3>4. node.allow_all # node.auth
          BY <2>1 DEF ValidDocument, ValidNode
    <3>5. \A a, b \in BOOLEAN : a # b => (a <=> ~b)
          OBVIOUS
    <3> QED  BY <3>3, <3>4, <3>5, Zenon
  <2> QED  BY <2>1, <2>3, <2>4 DEF PoolPerNode, MinSize
<1> QED  BY <1>1, SessionInvariant, PTL

(* As long as a node has not been away and none of its connections has      *)
(* died, each of the connections Init asked for is still to be made, idle,  *)
(* pinged, used, or lost to an attempt that failed or a call that marked a  *)
(* connection that worked.                                                  *)
THEOREM LossesAreAccountedFor == Spec => []EveryLossHasACause
<1>1. SessionInv => EveryLossHasACause
  <2> SUFFICES ASSUME SessionInv, NEW p \in DOMAIN pools, pools[p].node \notin faults
               PROVE  pools[p].due + pools[p].failed + pools[p].fresh + Pinged(p)
                        + (IF p = 1 THEN misses + (IF call.stage = "idle" THEN 0 ELSE 1)
                           ELSE 0) = PoolSettings.min_size
      BY DEF EveryLossHasACause
  <2>1. /\ pools[p].due \in Nat /\ pools[p].failed \in Nat /\ pools[p].fresh \in Nat
        /\ Pinged(p) \in Nat /\ misses \in Nat
        BY PoolFields DEF SessionInv, VarsInv, Pinged
  <2>2. pools[p].due + pools[p].failed + pools[p].fresh + Pinged(p) + Borrowed(p)
           + (IF p = FindPool THEN misses ELSE 0) = MinSize
        BY DEF SessionInv, DrainInv
  <2>3. Borrowed(p) = IF p = 1 THEN (IF call.stage = "idle" THEN 0 ELSE 1) ELSE 0
        BY DEF Borrowed, Busy, FindPool
  <2> QED  BY <2>1, <2>2, <2>3 DEF MinSize, FindPool
<1> QED  BY <1>1, SessionInvariant, PTL

(* A call whose deadline gives a node time to answer times out only if the  *)
(* node of the first pool has been away or a connection to it has died,     *)
(* whatever happens to other nodes, other calls, the cache and the pings.   *)
THEOREM TimeoutsHaveACause == Spec => []TimeoutHasACause
  BY SessionInvariant, PTL DEF SessionInv
=============================================================================
