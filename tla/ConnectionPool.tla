--------------------------- MODULE ConnectionPool ---------------------------
(***************************************************************************)
(* The pool of connections to one node: ConnectionPool and the life of the *)
(* Connection objects it owns (src/src/detail/connection_pool.cpp, with    *)
(* Connection::Connect, ~ConnectionImpl and ConnectionImpl::Close).        *)
(*                                                                         *)
(* The pool owns raw pointers: a vector under a mutex, the connection a    *)
(* connect task is about to push, and the one Maintain has taken out to    *)
(* ping.  Clients borrow a pointer from Acquire and keep it for one or two *)
(* calls without owning it.  What happens inside a call is the subject of  *)
(* Connection; here a call takes a stream, and ends with an answer, an     *)
(* exception, or a timeout that marks the connection broken.               *)
(*                                                                         *)
(* Init starts min_size connect tasks and nothing else ever starts one     *)
(* (TryCreateConnectionAsync has no caller), so a connection is identified *)
(* by the number of the task that makes it.  When min_size is above        *)
(* max_size, Init throws before its first task and there is no pool;       *)
(* nothing else looks at max_size.                                         *)
(***************************************************************************)
EXTENDS Naturals, Sequences, FiniteSets, FiniteSetsExt

CONSTANTS
    Clients,          \* tasks that call Execute or BatchExecute
    MinSize,          \* PoolSettings::min_size
    ConnectingLimit,  \* PoolSettings::connecting_limit, 0 for no limit
    InitMode,         \* "kAsync" or "kSync"
    nullptr

ASSUME ClientsFinite     == IsFiniteSet(Clients)
ASSUME MinSizeAssumption == MinSize \in Nat
ASSUME LimitAssumption   == ConnectingLimit \in Nat
ASSUME ModeAssumption    == InitMode \in {"kAsync", "kSync"}

Conns == 1 .. MinSize

ASSUME NullAssumption == nullptr \notin Conns

VARIABLES
    pool,         \* life of the ConnectionPool object
    connections,  \* _connections
    permits,      \* connections whose _size_semaphore lock is held
    task,         \* the Connect task of each connection
    object,       \* the Connection object itself
    broken,       \* ConnectionImpl::_broken
    reader,       \* ConnectionImpl::_receiver_task
    client,       \* where each client is in Execute or BatchExecute
    ptr,          \* the client's `conn`
    maintain,     \* where Maintain is
    poolSize,     \* Maintain's pool_size
    dropLeft,     \* Maintain's drop_left
    captured,     \* Maintain's `conn`, then `capture`
    crash         \* how the process died, if it did

clientVars   == <<client, ptr>>
maintainVars == <<maintain, poolSize, dropLeft, captured>>
connVars     == <<permits, task, object, broken, reader>>
vars == <<pool, connections, connVars, clientVars, maintainVars, crash>>

kIdleDropLimit == 1

Init ==
    /\ pool = "init"
    /\ connections = <<>>
    /\ permits = {}
    /\ task = [c \in Conns |-> "none"]
    /\ object = [c \in Conns |-> "absent"]
    /\ broken = [c \in Conns |-> FALSE]
    /\ reader = [c \in Conns |-> "none"]
    /\ client = [k \in Clients |-> "idle"]
    /\ ptr = [k \in Clients |-> nullptr]
    /\ maintain = "off"
    /\ poolSize = 0
    /\ dropLeft = 0
    /\ captured = nullptr
    /\ crash = "none"

(* The process runs. *)
Alive == crash = "none"

(* try_to_lock on _size_semaphore succeeds.  The semaphore counts           *)
(* connections, not connections being established, and its size is          *)
(* connecting_limit.                                                        *)
PermitAvailable == ConnectingLimit = 0 \/ Cardinality(permits) < ConnectingLimit

(* StreamPool::GetUsedStreams: the calls inside connection c. *)
GetUsedStreams(c) ==
    Cardinality({k \in Clients : client[k] = "inflight" /\ ptr[k] = c})
        + (IF maintain = "ping" /\ captured = c THEN 1 ELSE 0)

IsIdle(c) == GetUsedStreams(c) = 0

(* Deviation: the flag is never seen. *)
NeverBroken(c) == FALSE

IsBroken(c) == broken[c]

(* _expires_at is never given a value. *)
IsExpired(c) == FALSE

(* Deviation: busy connections are thrown out, idle ones kept. *)
UnusableWhenBusy(c) == IsBroken(c) \/ ~IsIdle(c)

(* Broken, or expired and idle: what every look at the vector throws out. *)
Unusable(c) == IsBroken(c) \/ (IsExpired(c) /\ IsIdle(c))

(* DeleteConnection: ~ConnectionImpl hands socket, receiver and permit to a *)
(* background task and the memory is freed.                                 *)
Deleted(S) == [c \in Conns |-> IF c \in S THEN "deleted" ELSE object[c]]

-----------------------------------------------------------------------------
(* Init, the connect tasks and Push.                                        *)

(* One turn of the loop in Init: Connect(try_to_lock). *)
LaunchConnect(c) ==
    /\ Alive
    /\ pool = "init"
    /\ task[c] = "none"
    /\ \A d \in Conns : d < c => task[d] # "none"
    /\ IF PermitAvailable
       THEN /\ permits' = permits \cup {c}
            /\ task' = [task EXCEPT ![c] = "connect"]
       ELSE /\ task' = [task EXCEPT ![c] = "permit"]
            /\ UNCHANGED permits
    /\ UNCHANGED <<pool, connections, object, broken, reader, clientVars,
                   maintainVars, crash>>

(* The end of Init: in the synchronous mode after every task has finished. *)
StartMaintainTask ==
    /\ Alive
    /\ pool = "init"
    /\ \A c \in Conns : task[c] # "none"
    /\ InitMode = "kSync" => \A c \in Conns : task[c] = "done"
    /\ pool' = "running"
    /\ maintain' = "sleep"
    /\ UNCHANGED <<connections, connVars, clientVars, poolSize, dropLeft,
                   captured, crash>>

(* A task without a permit waits two seconds for one. *)
GetPermit(c) ==
    /\ Alive
    /\ task[c] = "permit"
    /\ PermitAvailable
    /\ permits' = permits \cup {c}
    /\ task' = [task EXCEPT ![c] = "connect"]
    /\ UNCHANGED <<pool, connections, object, broken, reader, clientVars,
                   maintainVars, crash>>

(* It gives up, or the destructor has cancelled it. *)
PermitTimeout(c) ==
    /\ Alive
    /\ task[c] = "permit"
    /\ ~PermitAvailable \/ pool = "stopping"
    /\ task' = [task EXCEPT ![c] = "done"]
    /\ UNCHANGED <<pool, connections, permits, object, broken, reader,
                   clientVars, maintainVars, crash>>

(* Connection::Connect returns: address resolved, socket connected,         *)
(* handshake done, receiver started.                                        *)
Connected(c) ==
    /\ Alive
    /\ task[c] = "connect"
    /\ object' = [object EXCEPT ![c] = "alive"]
    /\ reader' = [reader EXCEPT ![c] = "running"]
    /\ task' = [task EXCEPT ![c] = "push"]
    /\ UNCHANGED <<pool, connections, permits, broken, clientVars,
                   maintainVars, crash>>

(* Connection::Connect throws: the half-built ConnectionImpl is destroyed   *)
(* with the permit, DoConnect swallows the exception.                       *)
ConnectFails(c) ==
    /\ Alive
    /\ task[c] = "connect"
    /\ object' = Deleted({c})
    /\ task' = [task EXCEPT ![c] = "done"]
    /\ UNCHANGED <<pool, connections, permits, broken, reader, clientVars,
                   maintainVars, crash>>

(* Push, as the last act of DoConnect and of Release. *)
Push(c) ==
    IF Unusable(c)
    THEN /\ object' = Deleted({c})
         /\ UNCHANGED connections
    ELSE /\ connections' = Append(connections, c)
         /\ UNCHANGED object

PushConnected(c) ==
    /\ Alive
    /\ task[c] = "push"
    /\ Push(c)
    /\ task' = [task EXCEPT ![c] = "done"]
    /\ UNCHANGED <<pool, permits, broken, reader, clientVars, maintainVars,
                   crash>>

-----------------------------------------------------------------------------
(* The connection between calls, and its end.                               *)

(* ReceiverLoop ends on a read error and marks the connection. *)
ReaderBreaks(c) ==
    /\ Alive
    /\ object[c] = "alive"
    /\ reader[c] = "running"
    /\ reader' = [reader EXCEPT ![c] = "exited"]
    /\ broken' = [broken EXCEPT ![c] = TRUE]
    /\ UNCHANGED <<pool, connections, permits, task, object, clientVars,
                   maintainVars, crash>>

(* ReceiverLoop ends on a stream id out of range or a push timeout. *)
ReaderEndsSilently(c) ==
    /\ Alive
    /\ object[c] = "alive"
    /\ reader[c] = "running"
    /\ reader' = [reader EXCEPT ![c] = "exited"]
    /\ UNCHANGED <<pool, connections, permits, task, object, broken,
                   clientVars, maintainVars, crash>>

(* Deviation: the close task waits for the receiver without cancelling it. *)
CloseWithoutCancel(c) ==
    /\ Alive
    /\ object[c] = "deleted"
    /\ reader[c] = "running"
    /\ broken[c]
    /\ reader' = [reader EXCEPT ![c] = "exited"]
    /\ UNCHANGED <<pool, connections, permits, task, object, broken,
                   clientVars, maintainVars, crash>>

(* The close task cancels the receiver, which ends. *)
CloseReader(c) ==
    /\ Alive
    /\ object[c] = "deleted"
    /\ reader[c] = "running"
    /\ reader' = [reader EXCEPT ![c] = "exited"]
    /\ UNCHANGED <<pool, connections, permits, task, object, broken,
                   clientVars, maintainVars, crash>>

(* Deviation: the permit is not given back. *)
FinishCloseKeepsPermit(c) ==
    /\ Alive
    /\ object[c] = "deleted"
    /\ reader[c] # "running"
    /\ object' = [object EXCEPT ![c] = "closed"]
    /\ UNCHANGED <<pool, connections, permits, task, broken, reader,
                   clientVars, maintainVars, crash>>

(* The receiver has ended: the close task lets go of the socket and, with   *)
(* its own end, of the permit.                                              *)
FinishClose(c) ==
    /\ Alive
    /\ object[c] = "deleted"
    /\ reader[c] # "running"
    /\ object' = [object EXCEPT ![c] = "closed"]
    /\ permits' = permits \ {c}
    /\ UNCHANGED <<pool, connections, task, broken, reader, clientVars,
                   maintainVars, crash>>

-----------------------------------------------------------------------------
(* A client: Execute and BatchExecute.                                      *)

(* The first of the least loaded connections of the sequence s. *)
LeastLoaded(s) ==
    LET eligible == {i \in DOMAIN s : ~IsExpired(s[i])}
        best == {i \in eligible :
                   \A j \in eligible :
                      GetUsedStreams(s[i]) <= GetUsedStreams(s[j])}
    IN  s[Min(best)]

(* erase: the sequence s without the members of S, in its order. *)
Without(s, S) ==
    LET left == {i \in DOMAIN s : s[i] \notin S}
        Place(i) == Cardinality({j \in left : j <= i})
    IN  [n \in 1 .. Cardinality(left) |-> s[CHOOSE i \in left : Place(i) = n]]

(* Deviation: unusable connections are deleted and not erased. *)
AllConnections == connections

(* What the first loop of Acquire leaves in the vector. *)
UsableConnections == Without(connections, {c \in Conns : Unusable(c)})

(* Acquire, under the mutex of the vector: broken connections are deleted   *)
(* whoever is using them.  An empty vector yields nullptr, which Execute    *)
(* and BatchExecute dereference.                                            *)
Acquire(k) ==
    LET kept == UsableConnections
    IN  /\ Alive
        /\ pool = "running"
        /\ client[k] = "idle"
        /\ connections' = kept
        /\ object' = Deleted({c \in Range(connections) : Unusable(c)})
        /\ IF kept = <<>>
           THEN /\ crash' = "null"
                /\ UNCHANGED clientVars
           ELSE /\ ptr' = [ptr EXCEPT ![k] = LeastLoaded(kept)]
                /\ client' = [client EXCEPT ![k] = "chosen"]
                /\ UNCHANGED crash
        /\ UNCHANGED <<pool, permits, task, broken, reader, maintainVars>>

(* conn->Prepare, ExecutePrepared, Execute or BatchExecute takes a stream. *)
BeginCall(k) ==
    /\ Alive
    /\ client[k] = "chosen"
    /\ client' = [client EXCEPT ![k] = "inflight"]
    /\ UNCHANGED <<pool, connections, connVars, ptr, maintainVars, crash>>

(* Prepare has answered and the statement follows on the same connection. *)
NextCall(k) ==
    /\ Alive
    /\ client[k] = "inflight"
    /\ client' = [client EXCEPT ![k] = "chosen"]
    /\ UNCHANGED <<pool, connections, connVars, ptr, maintainVars, crash>>

(* The result, or an exception, is the client's. *)
Return(k) ==
    /\ Alive
    /\ client[k] = "inflight"
    /\ client' = [client EXCEPT ![k] = "idle"]
    /\ ptr' = [ptr EXCEPT ![k] = nullptr]
    /\ UNCHANGED <<pool, connections, connVars, maintainVars, crash>>

(* The call times out and marks the connection. *)
TimeOut(k) ==
    /\ Alive
    /\ client[k] = "inflight"
    /\ broken' = [broken EXCEPT ![ptr[k]] = TRUE]
    /\ client' = [client EXCEPT ![k] = "idle"]
    /\ ptr' = [ptr EXCEPT ![k] = nullptr]
    /\ UNCHANGED <<pool, connections, permits, task, object, reader,
                   maintainVars, crash>>

(* The client holds a pointer to a connection that has been deleted. *)
Dangling(k) == client[k] # "idle" /\ object[ptr[k]] # "alive"

(* Use after free: the call may go on as if nothing happened (the actions   *)
(* above), or end the process.                                              *)
UseAfterFree(k) ==
    /\ Alive
    /\ Dangling(k)
    /\ crash' = "dangling"
    /\ UNCHANGED <<pool, connections, connVars, clientVars, maintainVars>>

-----------------------------------------------------------------------------
(* Maintain, every kMaintainInterval.  _wait_count is always 0.             *)

MaintainStart ==
    /\ Alive
    /\ pool = "running"
    /\ maintain = "sleep"
    /\ maintain' = "loop"
    /\ poolSize' = Len(connections)
    /\ dropLeft' = kIdleDropLimit
    /\ UNCHANGED <<pool, connections, connVars, clientVars, captured, crash>>

MaintainEnd ==
    /\ Alive
    /\ maintain = "loop"
    /\ poolSize = 0
    /\ maintain' = "sleep"
    /\ UNCHANGED <<pool, connections, connVars, clientVars, poolSize,
                   dropLeft, captured, crash>>

(* AcquireImmediate: the first usable connection leaves the vector, the     *)
(* unusable ones before it are deleted.  The connection taken is deleted    *)
(* when the pool is above min_size and it is idle, otherwise pinged.        *)
AcquireImmediate ==
    LET usable == {i \in DOMAIN connections :
                     ~IsExpired(connections[i]) /\ ~IsBroken(connections[i])}
        looked == IF usable = {} THEN DOMAIN connections
                  ELSE 1 .. Min(usable) - 1
        dropped == {connections[i] : i \in {j \in looked :
                                              Unusable(connections[j])}}
        taken == IF usable = {} THEN nullptr ELSE connections[Min(usable)]
        rest == Without(connections, dropped \cup {taken})
        dropIdle == /\ taken # nullptr
                    /\ poolSize > MinSize /\ dropLeft > 0 /\ IsIdle(taken)
    IN  /\ Alive
        /\ maintain = "loop"
        /\ poolSize > 0
        /\ connections' = rest
        /\ object' = Deleted(dropped \cup IF dropIdle THEN {taken} ELSE {})
        /\ maintain' = CASE taken = nullptr -> "sleep"
                         [] dropIdle        -> "loop"
                         [] OTHER           -> "ping"
        /\ captured' = IF dropIdle THEN nullptr ELSE taken
        /\ dropLeft' = IF dropIdle THEN dropLeft - 1 ELSE dropLeft
        /\ poolSize' = IF dropIdle THEN poolSize - 1 ELSE poolSize
        /\ UNCHANGED <<pool, permits, task, broken, reader, clientVars, crash>>

(* The ping is answered, or fails with a RuntimeError that Maintain logs. *)
PingAnswered ==
    /\ Alive
    /\ maintain = "ping"
    /\ maintain' = "release"
    /\ UNCHANGED <<pool, connections, connVars, clientVars, poolSize,
                   dropLeft, captured, crash>>

(* The ping times out: the connection is marked. *)
PingTimesOut ==
    /\ Alive
    /\ maintain = "ping"
    /\ broken' = [broken EXCEPT ![captured] = TRUE]
    /\ maintain' = "release"
    /\ UNCHANGED <<pool, connections, permits, task, object, reader,
                   clientVars, poolSize, dropLeft, captured, crash>>

(* Deviation: an exception leaves Maintain and the capture is forgotten. *)
PingLeaks ==
    /\ Alive
    /\ maintain = "ping"
    /\ maintain' = "sleep"
    /\ UNCHANGED <<pool, connections, connVars, clientVars, poolSize,
                   dropLeft, captured, crash>>

(* An exception that is not a RuntimeError leaves Maintain; the capture is  *)
(* released on the way out.                                                 *)
PingEscapes ==
    /\ Alive
    /\ maintain = "ping"
    /\ maintain' = "escape"
    /\ UNCHANGED <<pool, connections, connVars, clientVars, poolSize,
                   dropLeft, captured, crash>>

(* Deviation: poolSize is not counted down. *)
ReleaseUncounted ==
    /\ Alive
    /\ maintain \in {"release", "escape"}
    /\ Push(captured)
    /\ captured' = nullptr
    /\ maintain' = IF maintain = "release" THEN "loop" ELSE "sleep"
    /\ UNCHANGED <<pool, permits, task, broken, reader, clientVars, poolSize,
                   dropLeft, crash>>

(* Release: back to the end of the vector, or deleted. *)
Release ==
    /\ Alive
    /\ maintain \in {"release", "escape"}
    /\ Push(captured)
    /\ captured' = nullptr
    /\ poolSize' = IF maintain = "release" THEN poolSize - 1 ELSE 0
    /\ maintain' = IF maintain = "release" THEN "loop" ELSE "sleep"
    /\ UNCHANGED <<pool, permits, task, broken, reader, clientVars, dropLeft,
                   crash>>

-----------------------------------------------------------------------------
(* ~ConnectionPool, once nobody uses the session any more.                  *)

Destroy ==
    /\ Alive
    /\ pool = "running"
    /\ \A k \in Clients : client[k] = "idle"
    /\ pool' = "stopping"
    /\ UNCHANGED <<connections, connVars, clientVars, maintainVars, crash>>

(* _maintain_task.Stop() waits for a Maintain under way. *)
StopMaintain ==
    /\ Alive
    /\ pool = "stopping"
    /\ maintain = "sleep"
    /\ maintain' = "off"
    /\ UNCHANGED <<pool, connections, connVars, clientVars, poolSize,
                   dropLeft, captured, crash>>

(* The connect tasks are over, and Clear deletes what is in the vector. *)
Clear ==
    /\ Alive
    /\ pool = "stopping"
    /\ maintain = "off"
    /\ \A c \in Conns : task[c] = "done"
    /\ object' = Deleted(Range(connections))
    /\ connections' = <<>>
    /\ pool' = "clearing"
    /\ UNCHANGED <<permits, task, broken, reader, clientVars, maintainVars,
                   crash>>

(* Deviation: the close tasks are not waited for. *)
DestroyedEarly ==
    /\ Alive
    /\ pool = "clearing"
    /\ pool' = "destroyed"
    /\ UNCHANGED <<connections, connVars, clientVars, maintainVars, crash>>

(* _close_task_storage.CancelAndWait() returns. *)
Destroyed ==
    /\ Alive
    /\ pool = "clearing"
    /\ \A c \in Conns : object[c] # "deleted"
    /\ pool' = "destroyed"
    /\ UNCHANGED <<connections, connVars, clientVars, maintainVars, crash>>

-----------------------------------------------------------------------------
ConnectTask(c) ==
    \/ LaunchConnect(c)
    \/ GetPermit(c)
    \/ PermitTimeout(c)
    \/ Connected(c)
    \/ ConnectFails(c)
    \/ PushConnected(c)

CloseTask(c) == CloseReader(c) \/ FinishClose(c)

ClientStep(k) ==
    \/ Acquire(k)
    \/ BeginCall(k)
    \/ NextCall(k)
    \/ Return(k)
    \/ TimeOut(k)
    \/ UseAfterFree(k)

(* A round of Maintain, from its start on. *)
MaintainRound ==
    \/ MaintainEnd
    \/ AcquireImmediate
    \/ PingAnswered
    \/ PingTimesOut
    \/ PingEscapes
    \/ Release

Shutdown == StopMaintain \/ Clear \/ Destroyed

Next ==
    \/ \E c \in Conns : \/ ConnectTask(c)
                        \/ ReaderBreaks(c)
                        \/ ReaderEndsSilently(c)
                        \/ CloseTask(c)
    \/ \E k \in Clients : ClientStep(k)
    \/ StartMaintainTask
    \/ MaintainStart
    \/ MaintainRound
    \/ Destroy
    \/ Shutdown

Spec == Init /\ [][Next]_vars

(* Tasks the code starts run to their end: connect and close tasks, the     *)
(* periodic Maintain and the destructor.  Nothing is assumed of clients, of *)
(* the node, or of the owner of the session.                                *)
Fairness ==
    /\ \A c \in Conns : /\ WF_vars(ConnectTask(c))
                         /\ WF_vars(CloseTask(c))
    /\ WF_vars(StartMaintainTask)
    /\ WF_vars(MaintainStart)
    /\ WF_vars(MaintainRound)
    /\ WF_vars(Shutdown)

FairSpec == Spec /\ Fairness

-----------------------------------------------------------------------------
(* Properties.                                                              *)

(* Every variable has its type, and Maintain has a captured connection      *)
(* exactly while it pings or releases one.                                  *)
TypeOK ==
    /\ pool \in {"init", "running", "stopping", "clearing", "destroyed"}
    /\ connections \in Seq(Conns)
    /\ permits \subseteq Conns
    /\ task \in [Conns -> {"none", "permit", "connect", "push", "done"}]
    /\ object \in [Conns -> {"absent", "alive", "deleted", "closed"}]
    /\ broken \in [Conns -> BOOLEAN]
    /\ reader \in [Conns -> {"none", "running", "exited"}]
    /\ client \in [Clients -> {"idle", "chosen", "inflight"}]
    /\ ptr \in [Clients -> Conns \cup {nullptr}]
    /\ \A k \in Clients : client[k] = "idle" <=> ptr[k] = nullptr
    /\ maintain \in {"off", "sleep", "loop", "ping", "release", "escape"}
    /\ poolSize \in Nat
    /\ dropLeft \in 0 .. kIdleDropLimit
    /\ captured \in Conns \cup {nullptr}
    /\ captured # nullptr <=> maintain \in {"ping", "release", "escape"}
    /\ crash \in {"none", "null", "dangling"}

(* The places that own connection c: its connect task, the vector (once for *)
(* every index), Maintain.                                                  *)
Owners(c) ==
    {<<"task">> : d \in {d \in {c} : task[d] = "push"}}
        \cup {<<"vector", i>> : i \in {i \in DOMAIN connections :
                                        connections[i] = c}}
        \cup {<<"maintain">> : d \in {d \in {c} : captured = d}}

(* Raw pointers are owned as unique_ptr would: a connection that exists has *)
(* exactly one owner, so it is not leaked and not deleted twice, and one    *)
(* that has been deleted has none, so the vector holds no stale pointer.    *)
(* This across Acquire, Maintain and the connect tasks racing for the       *)
(* vector and exceptions leaving Maintain.                                  *)
OneOwner ==
    \A c \in Conns :
        Cardinality(Owners(c)) = IF object[c] = "alive" THEN 1 ELSE 0

(* A permit of _size_semaphore is held from the start of a connection       *)
(* attempt until the close task is over, so also as long as its receiver    *)
(* runs; it is never lost, and there are never more than connecting_limit.  *)
PermitAccounting ==
    /\ \A c \in Conns : c \in permits <=> \/ task[c] = "connect"
                                           \/ object[c] \in {"alive", "deleted"}
    /\ \A c \in Conns : reader[c] = "running" => c \in permits
    /\ ConnectingLimit # 0 => Cardinality(permits) <= ConnectingLimit

(* A connection is deleted under a client only if it has been marked        *)
(* broken: neither Maintain nor the destructor takes away a connection that *)
(* works.                                                                   *)
DanglingOnlyIfBroken == \A k \in Clients : Dangling(k) => broken[ptr[k]]

(* When ~ConnectionPool is over nothing is left: no connection, no          *)
(* receiver that would use one, no permit.                                  *)
DestroyedIsClean ==
    pool = "destroyed" =>
        /\ permits = {}
        /\ \A c \in Conns : reader[c] # "running"
        /\ \A c \in Conns : object[c] \in {"absent", "closed"}

(* A round of Maintain ends although it puts connections back into the      *)
(* vector it takes them from.                                               *)
MaintainEnds ==
    maintain = "loop" ~> maintain \in {"sleep", "off"} \/ crash # "none"

(* A connection marked broken is deleted, even if no client ever calls      *)
(* Acquire again and wherever it is when it breaks: with its connect task,  *)
(* in the vector, or captured by Maintain.                                  *)
BrokenConnectionLeaves ==
    \A c \in Conns :
        broken[c] /\ object[c] = "alive"
            ~> object[c] # "alive" \/ crash # "none"

(* The destructor comes to its end, whatever connect tasks, Maintain and    *)
(* receivers are doing when it starts.                                      *)
DestructorReturns == pool = "stopping" ~> pool = "destroyed"

(* What the comment in Maintain asks for: a connection with active streams  *)
(* is not closed.                                                           *)
NoCloseWithActiveStreams ==
    \A c \in Conns : object[c] \in {"deleted", "closed"} => IsIdle(c)

(* What the options promise when no connection is to be had: the request    *)
(* waits or gets an error.  It does not end the process.                    *)
NoNullDereference == crash # "null"

(* What the options promise of min_size: a running pool that has lost       *)
(* connections gets them back.                                              *)
ReturnsToMinSize ==
    pool = "running" ~> \/ Len(connections) >= MinSize
                        \/ pool # "running"
                        \/ crash # "none"
=============================================================================
