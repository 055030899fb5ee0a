------------------------------- MODULE Session -------------------------------
(***************************************************************************)
(* The way from a component's configuration to the answer of a call.  The  *)
(* constructor of components::Cassandra reads the secdist document and the *)
(* static configuration and builds one ConnectionPool per node             *)
(* (component.cpp, secdist.cpp, cassandra_configs.cpp, session_impl.cpp);  *)
(* calls with their CommandControl then go to the first pool               *)
(* (session.cpp, connection_pool.cpp, connection_impl.cpp).                *)
(*                                                                         *)
(* A pool is what the session can tell of it: connect tasks that are due,  *)
(* idle connections that work (fresh) or whose node has gone away without  *)
(* the driver knowing (stale), the one Maintain is pinging, and the cached *)
(* statements.  How requests share a connection is in Connection, how      *)
(* clients share the pool is in ConnectionPool; here one client runs, so   *)
(* that a call, its time-outs and the pool it drains can be followed to    *)
(* the end.  Connections do not expire: max-ttl-sec is read, and nothing   *)
(* assigns ConnectionImpl::_expires_at.  Time is in seconds.               *)
(***************************************************************************)
EXTENDS Integers, Sequences, FiniteSets

CONSTANTS Keyspace,    \* the keyspace of the component
          Deployments, \* secdist documents, each with a static configuration (a
                       \* function from keys to values)
          Controls,    \* what callers pass to the constructor of CommandControl
          Statements,  \* texts of queries
          kPing,       \* text of Maintain's own query
          NodeDelay,   \* a node that is up answers within this time
          MaxCalls,    \* bound: calls made
          MaxFaults    \* bound: times a node goes away or a connection dies

ASSUME BoundsAssumption ==
  NodeDelay \in 1 .. 2 /\ MaxCalls \in Nat /\ MaxFaults \in Nat

\* What formats::json and yaml_config can hand to the driver, right or wrong.
NodeDescription ==
  [object : BOOLEAN, allow_all : BOOLEAN, auth : BOOLEAN, point : STRING]
ClusterDescription == [array : BOOLEAN, nodes : Seq(NodeDescription)]
CacheKeys == {"prepared-statement-cache-ways", "prepared-statement-cache-way-size"}
NumericKeys == {"min-pool-size", "max-pool-size", "max-queue-size"} \cup CacheKeys
ControlType ==
  [network : Nat, statement : Nat, override : {"kNoOverride", "kEnabled", "kDisabled"}]

ASSUME DocsAssumption ==
  \A d \in Deployments :
    \A k \in DOMAIN d.doc.keyspaces : d.doc.keyspaces[k] \in ClusterDescription
ASSUME ConfigsAssumption ==
  \A d \in Deployments :
    /\ \A key \in NumericKeys \cap DOMAIN d.config : d.config[key] \in Nat
    /\ \A key \in CacheKeys \cap DOMAIN d.config : d.config[key] > 0
    /\ "persistentprepared-statement" \in DOMAIN d.config =>
         d.config["persistentprepared-statement"] \in BOOLEAN
ASSUME ControlsAssumption == Controls \subseteq ControlType

VARIABLES step,   \* how far the constructor is: "schema", "secdist", "cluster",
                  \* "topology", then "up"; "failed", "crashed", "stopped"
          doc, config, \* its inputs
          cluster,     \* result of GetShardedClusterDescription
          pools,       \* SessionImpl::_pools
          up,          \* contact points with a node that answers
          refusing,    \* those the handshake never gets past: they want
                       \* credentials, or offer no COMPRESSION
          faults,      \* history: contact points that were ever down or lost a
                       \* connection
          losses,      \* bound: times either has happened
          call,        \* the call in progress
          calls,       \* bound: calls made
          misses,      \* history: calls that marked a connection that works
          last         \* outcome of the call that has just ended
starting == <<step, doc, config, cluster>>
world == <<up, refusing, faults, losses>>
calling == <<call, calls, misses, last>>
vars == <<starting, pools, world, calling>>

-----------------------------------------------------------------------------
(* Configuration.                                                          *)

SchemaKeys == {"keyspace", "blocking_task_processor", "min-pool-size",
               "max-pool-size", "sync-start", "dns_resolver",
               "persistent-prepared-statements", "max-ttl-sec",
               "prepared-statement-cache-ways",
               "prepared-statement-cache-way-size", "max-queue-size"}

\* config[key].As<T>(default)
Setting(key, default) == IF key \in DOMAIN config THEN config[key] ELSE default

\* struct PoolSettings
PoolSettingsType ==
  [min_size : Nat, max_size : Nat, max_queue_size : Nat, connecting_limit : Nat,
   cache_ways : Nat, cache_way_size : Nat, cache_enabled : BOOLEAN]

\* No limit: the key that would set another is not read.
kDefaultConnectingLimit == 0

\* The flag of the cache is read under a key the schema does not have.
PoolSettings ==
  [min_size       |-> Setting("min-pool-size", 4),
   max_size       |-> Setting("max-pool-size", 15),
   max_queue_size |-> Setting("max-queue-size", 200),
   connecting_limit |-> kDefaultConnectingLimit,
   cache_ways     |-> Setting("prepared-statement-cache-ways", 16),
   cache_way_size |-> Setting("prepared-statement-cache-way-size", 200),
   cache_enabled  |-> Setting("persistentprepared-statement", TRUE)]

\* Parse(NodeDescription) accepts a node's part of the document.
ValidNode(node) == node.object /\ (node.allow_all # node.auth)

\* Deviation: credentials beside allow-all are ignored instead of refused.
ParseLenient == \A k \in DOMAIN doc.keyspaces : doc.keyspaces[k].array

\* The constructor of CassandraSecdist reads the whole document: a mistake in
\* any keyspace stops this one.
ValidDocument ==
  /\ doc.object
  /\ \A k \in DOMAIN doc.keyspaces :
       /\ doc.keyspaces[k].array
       /\ \A i \in DOMAIN doc.keyspaces[k].nodes :
            ValidNode(doc.keyspaces[k].nodes[i])

-----------------------------------------------------------------------------
(* CommandControl.                                                         *)

NoControl == [override |-> "nullopt"]
CommandControl(network, statement, override) ==
  [network |-> network, statement |-> statement, override |-> override]
\* The builders pass two arguments to the constructor: the override is gone.
WithExecuteTimeout(ctl, n) == CommandControl(n, ctl.statement, "kNoOverride")
WithStatementTimeout(ctl, n) == CommandControl(ctl.network, n, "kNoOverride")
\* What a caller can make of its control before it passes it on.
Built(ctl) == {ctl, WithExecuteTimeout(ctl, ctl.network + 2),
               WithStatementTimeout(ctl, ctl.statement + 2)}
\* OptionalCommandControl: what callers pass, or nothing.
Passed == {NoControl} \cup UNION {Built(ctl) : ctl \in Controls}

CanPrepareStatement(ctl) ==
  IF ctl = NoControl \/ ctl.override = "kNoOverride"
  THEN PoolSettings.cache_enabled
  ELSE ctl.override = "kEnabled"

\* value_or(CommandControl{3s, 1s, kNoOverride}); a zero is a zero.
Deadline(ctl) == IF ctl = NoControl THEN 3 ELSE ctl.network
kPrepareDeadline == 3

-----------------------------------------------------------------------------
(* The constructor.                                                        *)

Nodes == UNION {{doc.keyspaces[k].nodes[i].point :
                   i \in DOMAIN doc.keyspaces[k].nodes} : k \in DOMAIN doc.keyspaces}
NoCall == [stage |-> "idle"]
NoOutcome == [result |-> "none"]

Init ==
  /\ step = "schema"
  /\ \E d \in Deployments : doc = d.doc /\ config = d.config
  /\ cluster = <<>> /\ pools = <<>>
  /\ up \in SUBSET Nodes /\ refusing \in SUBSET Nodes
  /\ faults = Nodes \ up /\ losses = 0
  /\ call = NoCall /\ calls = 0 /\ misses = 0
  /\ last = NoOutcome

\* An exception leaves the constructor; the pools made so far are destroyed.
ConstructorThrows ==
  /\ step' = "failed" /\ pools' = <<>>
  /\ UNCHANGED <<doc, config, cluster>>

CheckSchema ==
  /\ step = "schema"
  /\ IF DOMAIN config \subseteq SchemaKeys
     THEN step' = "secdist" /\ UNCHANGED <<doc, config, cluster, pools>>
     ELSE ConstructorThrows
  /\ UNCHANGED <<world, calling>>

ReadSecdist ==
  /\ step = "secdist"
  /\ IF ValidDocument
     THEN step' = "cluster" /\ UNCHANGED <<doc, config, cluster, pools>>
     ELSE ConstructorThrows
  /\ UNCHANGED <<world, calling>>

GetShardedClusterDescription ==
  /\ step = "cluster"
  /\ IF Keyspace \in DOMAIN doc.keyspaces
     THEN /\ step' = "topology" /\ cluster' = doc.keyspaces[Keyspace].nodes
          /\ UNCHANGED <<doc, config, pools>>
     ELSE ConstructorThrows
  /\ UNCHANGED <<world, calling>>

\* CreateTopology: ConnectionPool::Create for the next node, in InitMode::kAsync
\* whatever sync-start says: its connect tasks run while the next pool is made.
CreatePool ==
  /\ step = "topology" /\ (cluster = <<>> \/ Len(pools) < Len(cluster))
  /\ IF cluster # <<>> /\ PoolSettings.min_size <= PoolSettings.max_size
     THEN /\ pools' = Append(pools,
               [node |-> cluster[Len(pools) + 1].point, due |-> PoolSettings.min_size,
                failed |-> 0, fresh |-> 0, stale |-> 0, pinged |-> "none", cache |-> {}])
          /\ UNCHANGED starting
     ELSE ConstructorThrows
  /\ UNCHANGED <<world, calling>>

ComponentReady ==
  /\ step = "topology" /\ cluster # <<>> /\ Len(pools) = Len(cluster)
  /\ step' = "up"
  /\ UNCHANGED <<doc, config, cluster, pools, world, calling>>

-----------------------------------------------------------------------------
(* The pools and their nodes.                                              *)

Running == step \in {"topology", "up"}

\* Deviation: the newest pool is used.
FindLastPool == Len(pools)

\* SessionImpl::FindPool
FindPool == 1

\* The connection of a call or of a ping works ("fresh"), has lost its node
\* ("stale"), or is marked and dropped by the next Acquire ("broken").
AfterLoss(conn) == IF conn = "fresh" THEN "stale" ELSE conn

\* Deviation: a connect task that has succeeded runs again.
ConnectAgain(p) ==
  /\ Running /\ pools[p].due > 0 /\ pools[p].node \in up \ refusing
  /\ pools' = [pools EXCEPT ![p].fresh = @ + 1]
  /\ UNCHANGED <<starting, world, calling>>

Connect(p) ==
  /\ Running /\ pools[p].due > 0 /\ pools[p].node \in up \ refusing
  /\ pools' = [pools EXCEPT ![p].due = @ - 1, ![p].fresh = @ + 1]
  /\ UNCHANGED <<starting, world, calling>>

\* Deviation: an attempt that fails is repeated until the node is back.
ConnectRetries(p) ==
  /\ Running /\ pools[p].due > 0 /\ pools[p].node \notin up
  /\ UNCHANGED vars

\* DoConnect catches whatever ends the attempt: the node is away or refuses, or
\* one that does neither answers OPTIONS later than a second or with an ERROR.
\* The attempt is not repeated.
ConnectFails(p) ==
  /\ Running /\ pools[p].due > 0
  /\ pools' = [pools EXCEPT ![p].due = @ - 1, ![p].failed = @ + 1]
  /\ UNCHANGED <<starting, world, calling>>

\* A node stops answering; its connections do not know yet.
NodeFails(n) ==
  /\ Running /\ n \in up /\ losses < MaxFaults
  /\ up' = up \ {n} /\ faults' = faults \cup {n} /\ losses' = losses + 1
  /\ pools' = [p \in DOMAIN pools |->
       IF pools[p].node # n THEN pools[p]
       ELSE [pools[p] EXCEPT !.stale = @ + pools[p].fresh, !.fresh = 0,
                             !.pinged = AfterLoss(@)]]
  /\ call' = IF call.stage # "idle" /\ pools[FindPool].node = n
             THEN [call EXCEPT !.conn = AfterLoss(@)] ELSE call
  /\ UNCHANGED <<starting, refusing, calls, misses, last>>

\* One connection dies while its node answers on others: it is reset, or its
\* receiver ends on an answer that it cannot read (modules Exchange and
\* Connection).  The driver does not know yet.
ConnectionDies(p) ==
  /\ Running /\ losses < MaxFaults
  /\ faults' = faults \cup {pools[p].node} /\ losses' = losses + 1
  /\ \/ /\ pools[p].fresh > 0
        /\ pools' = [pools EXCEPT ![p].fresh = @ - 1, ![p].stale = @ + 1]
        /\ UNCHANGED call
     \/ /\ pools[p].pinged = "fresh"
        /\ pools' = [pools EXCEPT ![p].pinged = "stale"]
        /\ UNCHANGED call
     \/ /\ p = FindPool /\ call.stage # "idle" /\ call.conn = "fresh"
        /\ call' = [call EXCEPT !.conn = "stale"]
        /\ UNCHANGED pools
  /\ UNCHANGED <<starting, up, refusing, calls, misses, last>>

\* Nothing in the driver reacts to a node that is back.
NodeRecovers(n) ==
  /\ Running /\ n \in Nodes \ up
  /\ up' = up \cup {n}
  /\ UNCHANGED <<starting, pools, refusing, faults, losses, calling>>

\* The receiver of an idle connection reads the end of the stream and marks it.
ReceiverNotices(p) ==
  /\ Running /\ pools[p].stale > 0
  /\ pools' = [pools EXCEPT ![p].stale = @ - 1]
  /\ UNCHANGED <<starting, world, calling>>

\* The receiver of the call's connection does, and the call goes on waiting.
CallLosesConnection ==
  /\ call.stage # "idle" /\ call.conn = "stale"
  /\ call' = [call EXCEPT !.conn = "broken"]
  /\ UNCHANGED <<starting, pools, world, calls, misses, last>>

\* What NWayLRU::Put (external) may make of a cache: the way of s may be full
\* once way_size statements are cached, and is once all ways are.
PutInto(cache, s) ==
  LET capacity == PoolSettings.cache_ways * PoolSettings.cache_way_size
      evicting == {(cache \ {v}) \cup {s} : v \in cache}
  IN  IF s \in cache \/ Cardinality(cache) < PoolSettings.cache_way_size
      THEN {cache \cup {s}}
      ELSE IF Cardinality(cache) < capacity THEN {cache \cup {s}} \cup evicting
      ELSE evicting

\* Maintain has a connection outside the vector for the time of its ping: a
\* call that comes meanwhile does not find it.  There are never more than
\* min_size, so none is dropped for being idle.
MaintainTakes(p, conn) ==
  /\ Running /\ pools[p].pinged = "none" /\ pools[p][conn] > 0
  /\ pools' = [pools EXCEPT ![p][conn] = @ - 1, ![p].pinged = conn]
  /\ UNCHANGED <<starting, world, calling>>

\* Deviation: a connection that was pinged is not put back.
MaintainKeeps(p) ==
  /\ Running /\ pools[p].pinged # "none"
  /\ pools' = [pools EXCEPT ![p].pinged = "none"]
  /\ UNCHANGED <<starting, world, calling>>

\* A ping of a connection that works: the node says that it has forgotten the
\* cached id and Invalidate empties the cache, or prepares the statement first,
\* or nothing of this, an ERROR included.
AfterPing(cache) ==
  {cache} \cup (IF kPing \in cache THEN {{}} ELSE PutInto(cache, kPing))

\* The ping is answered and Release puts the connection back, or it times out
\* and Release drops the connection.
MaintainReturns(p) ==
  /\ Running
  /\ \/ /\ pools[p].pinged = "fresh"
        /\ \E cache \in AfterPing(pools[p].cache) :
             pools' = [pools EXCEPT ![p].fresh = @ + 1, ![p].pinged = "none",
                                    ![p].cache = cache]
     \/ /\ pools[p].pinged = "stale"
        /\ pools' = [pools EXCEPT ![p].pinged = "none"]
  /\ UNCHANGED <<starting, world, calling>>

-----------------------------------------------------------------------------
(* Calls.                                                                  *)

\* BatchQueryStore::AddQuery, and the stores a client can build with it
\* (bound: two statements).
AddQuery(batch, s) == Append(batch, s)
Stores == LET AddTo(batches) == {AddQuery(b, s) : b \in batches, s \in Statements}
          IN  {<<>>} \cup AddTo({<<>>}) \cup AddTo(AddTo({<<>>}))

\* Acquire and CanPrepareStatement at the head of ConnectionPool::Execute and
\* BatchExecute.  An empty pool gives nullptr, which the call dereferences.
Begin(statements, ctl) ==
  /\ step = "up" /\ call.stage = "idle" /\ calls < MaxCalls
  /\ calls' = calls + 1 /\ last' = NoOutcome
  /\ \/ \E conn \in {"fresh", "stale"} :
          /\ pools[FindPool][conn] > 0
          /\ pools' = [pools EXCEPT ![FindPool][conn] = @ - 1]
          /\ call' = [stage |-> IF CanPrepareStatement(ctl) THEN "resolve" ELSE "send",
                      ctl |-> ctl, conn |-> conn, left |-> statements]
          /\ UNCHANGED step
     \/ /\ pools[FindPool].fresh = 0 /\ pools[FindPool].stale = 0
        /\ step' = "crashed"
        /\ UNCHANGED <<pools, call>>
  /\ UNCHANGED <<doc, config, cluster, world, misses>>

Execute(s, ctl) == Begin(<<s>>, ctl)
\* An empty batch is sent like any other.
BatchExecute(batch, ctl) == Begin(batch, ctl)

\* The id of the next statement is in _prepared_statements_map, or is asked for.
Resolve ==
  /\ call.stage = "resolve" /\ call.left # <<>>
  /\ call' = IF Head(call.left) \in pools[FindPool].cache
             THEN [call EXCEPT !.left = Tail(@)]
             ELSE [call EXCEPT !.stage = "prepare"]
  /\ UNCHANGED <<starting, pools, world, calls, misses, last>>

\* ConnectionImpl::Execute, ExecutePrepared and BatchExecute send the statements,
\* as texts or, once all have one, as ids.
Send ==
  /\ call.stage = "send" \/ (call.stage = "resolve" /\ call.left = <<>>)
  /\ call' = [call EXCEPT !.stage = "wait"]
  /\ UNCHANGED <<starting, pools, world, calls, misses, last>>

\* The call is over; its connection is idle again unless Acquire will drop it.
Finish(result, conn) ==
  /\ last' = [result |-> result, ctl |-> call.ctl]
  /\ pools' = IF conn = "broken" THEN pools
              ELSE [pools EXCEPT ![FindPool][conn] = @ + 1]
  /\ call' = NoCall
  /\ UNCHANGED <<starting, world, calls>>

\* The time a call waits for an answer: what its control says, or Prepare's own.
Waits == IF call.stage = "prepare" THEN kPrepareDeadline ELSE Deadline(call.ctl)

\* A node that is up answers at once or up to NodeDelay later: in time, unless
\* the deadline has passed when the call starts to wait.
InTime == call.conn = "fresh" /\ Waits > 0

\* Prepare returns an id, which goes into the cache, empty or not.
PrepareAnswered ==
  /\ call.stage = "prepare" /\ InTime
  /\ \E cache \in PutInto(pools[FindPool].cache, Head(call.left)) :
       pools' = [pools EXCEPT ![FindPool].cache = cache]
  /\ call' = [call EXCEPT !.stage = "resolve", !.left = Tail(@)]
  /\ UNCHANGED <<starting, world, calls, misses, last>>

\* A RESULT: rows, or none where the statement has none.
Answered ==
  /\ call.stage = "wait" /\ InTime
  /\ Finish("rows", call.conn)
  /\ UNCHANGED misses

\* An ERROR (CheckError), or an answer of another type than RESULT: the call
\* throws, and its connection is as good as before.
AnsweredError ==
  /\ call.stage \in {"prepare", "wait"} /\ InTime
  /\ Finish("error", call.conn)
  /\ UNCHANGED misses

\* Deviation: a call waits until the receiver has marked its connection.
TimesOutWhenBroken ==
  /\ call.stage \in {"prepare", "wait"} /\ call.conn = "broken"
  /\ Finish("timeout", "broken")
  /\ UNCHANGED misses

\* The call marks its connection, one that works perhaps.
MarkBroken == misses' = IF call.conn = "fresh" THEN misses + 1 ELSE misses

\* The deadline passes: no node answers, or not in time.  The call marks its
\* connection and throws.
TimesOut ==
  /\ call.stage \in {"prepare", "wait"}
  /\ call.conn # "fresh" \/ Waits <= NodeDelay
  /\ Finish("timeout", "broken")
  /\ MarkBroken

\* The task of the caller is cancelled: Pop gives up.  The call marks its
\* connection if the request has been sent; if not, task.Wait() throws first.
CallCancelled ==
  /\ call.stage \in {"prepare", "wait"}
  /\ \/ Finish("cancelled", "broken") /\ MarkBroken
     \/ Finish("cancelled", call.conn) /\ UNCHANGED misses

Destroy ==
  /\ step = "up" /\ call.stage = "idle"
  /\ step' = "stopped" /\ pools' = <<>>
  /\ UNCHANGED <<doc, config, cluster, world, calling>>

Construct == CheckSchema \/ ReadSecdist \/ GetShardedClusterDescription
             \/ CreatePool \/ ComponentReady
ConnectTask(p) == Connect(p) \/ ConnectFails(p)
CallStep == Resolve \/ Send \/ PrepareAnswered \/ Answered \/ AnsweredError \/ TimesOut

Next ==
  \/ Construct
  \/ \E p \in DOMAIN pools :
       \/ ConnectTask(p) \/ ReceiverNotices(p) \/ ConnectionDies(p) \/ MaintainReturns(p)
       \/ \E conn \in {"fresh", "stale"} : MaintainTakes(p, conn)
  \/ \E n \in {pools[p].node : p \in DOMAIN pools} : NodeFails(n) \/ NodeRecovers(n)
  \/ CallLosesConnection \/ CallStep \/ CallCancelled \/ Destroy
  \/ \E ctl \in Passed :
       \/ \E s \in Statements : Execute(s, ctl)
       \/ \E batch \in Stores : BatchExecute(batch, ctl)

Spec == Init /\ [][Next]_vars

\* The constructor runs, connect tasks are scheduled and end within their
\* time-outs, and a call runs to its next wait, which has a deadline.  Nothing
\* is assumed of nodes, of receivers or of the client.
FairSpec ==
  /\ Spec /\ WF_vars(Construct) /\ WF_vars(CallStep)
  /\ WF_vars(\E p \in DOMAIN pools : ConnectTask(p))

-----------------------------------------------------------------------------
(* Properties.                                                             *)

Pool == [node : Nodes, due : Nat, failed : Nat, fresh : Nat, stale : Nat,
         pinged : {"none", "fresh", "stale"}, cache : SUBSET (Statements \cup {kPing})]
\* Whether Maintain has a connection of the pool in its hands.
Pinged(p) == IF pools[p].pinged = "none" THEN 0 ELSE 1

\* The types; beyond them, a pool never holds, awaits and has failed to make
\* more connections than Init asked for, and a call runs only while the session does.
TypeOK ==
  /\ step \in {"schema", "secdist", "cluster", "topology", "up", "failed", "crashed", "stopped"}
  /\ pools \in Seq(Pool) /\ Len(pools) <= Len(cluster)
  /\ up \subseteq Nodes /\ refusing \subseteq Nodes /\ up \cup faults = Nodes
  /\ misses <= calls /\ (step = "up" => PoolSettings \in PoolSettingsType)
  /\ call.stage \in {"idle", "resolve", "prepare", "send", "wait"}
  /\ call.stage # "idle" => step = "up" /\ call.conn \in {"fresh", "stale", "broken"}
  /\ \A p \in DOMAIN pools :
       pools[p].due + pools[p].failed + pools[p].fresh + pools[p].stale + Pinged(p)
         <= PoolSettings.min_size

\* A component that has started has one pool for each node of its keyspace, in
\* the order of the document that FindPool relies on, from a document without
\* a contradiction between allow-all and auth in any keyspace
\* (secdist.cpp, node_description.hpp, CreateTopology).
PoolPerNode ==
  step = "up" =>
    /\ [p \in DOMAIN pools |-> pools[p].node] =
         [i \in DOMAIN doc.keyspaces[Keyspace].nodes |-> doc.keyspaces[Keyspace].nodes[i].point]
    /\ pools # <<>> /\ PoolSettings.min_size <= PoolSettings.max_size
    /\ \A k \in DOMAIN doc.keyspaces : \A i \in DOMAIN doc.keyspaces[k].nodes :
         doc.keyspaces[k].nodes[i].allow_all <=> ~doc.keyspaces[k].nodes[i].auth

\* Every connection a pool has lost is accounted for: as long as a node has not
\* been away and none of its connections has died, those Init asked for
\* (connection_pool.cpp:120) are still to be made, idle, with Maintain, used by
\* the call, or lost to an attempt that failed or, in the first pool, to a call
\* that marked a connection that worked: its caller was cancelled, or its own
\* deadline was too short.  None of those is ever replaced.
EveryLossHasACause ==
  step \in {"topology", "up", "crashed"} =>
    \A p \in DOMAIN pools : pools[p].node \notin faults =>
      pools[p].due + pools[p].failed + pools[p].fresh + Pinged(p)
        + (IF p = 1 THEN misses + (IF call.stage = "idle" THEN 0 ELSE 1) ELSE 0)
      = PoolSettings.min_size

\* A call whose deadline gives the node time to answer, its PREPAREs included,
\* does not time out unless the node of the first pool has been away or a
\* connection to it has died: the state of other nodes, the pings, refused
\* connections, cancelled callers before it, ERROR answers and evictions never
\* cost a caller its answer (SessionImpl::FindPool, ExecuteMessageAsync).
\* A control whose network timeout is zero is not such a call: options.hpp:197
\* says that zero means the default of the session, but the code takes it for a
\* deadline that has passed, so the call times out whatever its node does.
TimeoutHasACause ==
  last.result = "timeout" /\ (last.ctl = NoControl \/ last.ctl.network > NodeDelay)
    => cluster[1].point \in faults

\* Every call comes back, whatever its node does: each of its waits has a
\* deadline (connection_impl.cpp:441, 471, 489, 515).
CallReturns == [](call.stage # "idle" => <>(call.stage = "idle"))

\* The component comes up or fails, and the connect tasks of its pools end,
\* with nodes that are away for good too (ConnectionPool::DoConnect).
StartSettles ==
  <>[](\/ step \in {"failed", "crashed", "stopped"}
       \/ step = "up" /\ \A p \in DOMAIN pools : pools[p].due = 0)
=============================================================================
