------------------------- MODULE PreparedStatements -------------------------
(***************************************************************************)
(* Prepared statements: the cache a ConnectionPool keeps for its node      *)
(* (_prepared_statements_map) and its users Execute, BatchExecute and      *)
(* Maintain (src/src/detail/connection_pool.cpp).                          *)
(*                                                                         *)
(* The node (external) derives the id of a prepared statement from its     *)
(* text, so an id is modelled by its statement.  The node may forget       *)
(* statements at any time: a restart, a schema change, a full cache of its *)
(* own.  An answer to PREPARE that carries a warning is read as one of     *)
(* another kind (module Exchange): Prepare then returns an empty id, which *)
(* is cached and executed like any other.                                  *)
(***************************************************************************)
EXTENDS Naturals, Sequences, FiniteSets

CONSTANTS
    Clients,        \* tasks that call Execute or BatchExecute
    Statements,     \* texts of the clients' queries
    kPing,          \* text of Maintain's own query
    CacheCapacity,  \* prepared_statement_cache_ways * ..._way_size
    WaySize,        \* prepared_statement_cache_way_size
    CacheEnabled,   \* _prepared_statements_cache_enabled
    MaxBatch,       \* bound: statements in a batch
    MaxForgets      \* bound: times the node forgets

ASSUME PingAssumption     == kPing \notin Statements
ASSUME CapacityAssumption ==
    CacheCapacity \in Nat /\ WaySize \in 1 .. CacheCapacity
ASSUME EnabledAssumption  == CacheEnabled \in BOOLEAN
ASSUME BoundsAssumption   == MaxBatch \in Nat /\ MaxForgets \in Nat

VARIABLES
    cache,      \* statements in _prepared_statements_map
    blank,      \* those of them whose id is empty
    prepared,   \* statements the node knows by id
    forgotten,  \* history: statements the node knew once and forgot
    warned,     \* history: statements whose id a warning has hidden
    forgets,    \* how often it has forgotten
    pc,         \* where each client is
    todo,       \* the client's statements that have no id yet, in order
    ids,        \* the client's statements that have the node's id
    blanks,     \* the client's statements that have an empty one
    outcome,    \* how the client's last call ended
    ping        \* where Maintain is

cacheVars  == <<cache, blank>>
nodeVars   == <<prepared, forgotten, forgets>>
clientVars == <<pc, todo, ids, blanks, outcome>>
vars       == <<cacheVars, nodeVars, clientVars, warned, ping>>

AllStatements == Statements \cup {kPing}

(* CommandControl::PreparedStatementsOptionOverride; kNoOverride also       *)
(* stands for a call without a command control.                             *)
Overrides == {"kNoOverride", "kEnabled", "kDisabled"}

CanPrepareStatement(mode) ==
    IF mode # "kNoOverride" THEN mode = "kEnabled" ELSE CacheEnabled

(* One statement for Execute, several for BatchExecute, the same one twice  *)
(* included.                                                                *)
Jobs == UNION {[1 .. n -> Statements] : n \in 1 .. MaxBatch}

Init ==
    /\ cache = {}
    /\ blank = {}
    /\ warned = {}
    /\ prepared = {}
    /\ forgotten = {}
    /\ forgets = 0
    /\ pc = [k \in Clients |-> "idle"]
    /\ todo = [k \in Clients |-> <<>>]
    /\ ids = [k \in Clients |-> {}]
    /\ blanks = [k \in Clients |-> {}]
    /\ outcome = [k \in Clients |-> "none"]
    /\ ping = "sleep"

(* What NWayLRU::Put (external) may throw out for s: the way s belongs to   *)
(* may be full once WaySize statements are cached, and is once the cache is.*)
Evictions(s) ==
    {evicted \in {{}} \cup {{v} : v \in cache} :
        IF s \in cache \/ Cardinality(cache) < WaySize
        THEN evicted = {}
        ELSE Cardinality(cache) < CacheCapacity \/ evicted # {}}

(* Whether Prepare read the id in the answer, or a warning hid it. *)
Answers == {"id", "empty"}

(* Deviation: a cache without a limit. *)
PutUnbounded(s, answer) ==
    /\ cache' = cache \cup {s}
    /\ blank' = IF answer = "empty" THEN blank \cup {s} ELSE blank \ {s}

(* _prepared_statements_map.Put of what Prepare returned. *)
Put(s, answer) ==
    \E evicted \in Evictions(s) :
        /\ cache' = (cache \ evicted) \cup {s}
        /\ blank' = IF answer = "empty" THEN (blank \ evicted) \cup {s}
                                       ELSE blank \ (evicted \cup {s})

(* The statement s joins the ones that have an id of this kind. *)
AddId(k, s, isBlank) ==
    /\ ids' = [ids EXCEPT ![k] = IF isBlank THEN @ ELSE @ \cup {s}]
    /\ blanks' = [blanks EXCEPT ![k] = IF isBlank THEN @ \cup {s} ELSE @]

NoteWarning(s, answer) ==
    warned' = IF answer = "empty" THEN warned \cup {s} ELSE warned

-----------------------------------------------------------------------------
(* Execute and BatchExecute.                                                *)

Call(k) ==
    /\ pc[k] = "idle"
    /\ \E mode \in Overrides, job \in Jobs :
          /\ pc' = [pc EXCEPT ![k] =
                      IF CanPrepareStatement(mode) THEN "resolve" ELSE "plain"]
          /\ todo' = [todo EXCEPT ![k] = job]
    /\ ids' = [ids EXCEPT ![k] = {}]
    /\ blanks' = [blanks EXCEPT ![k] = {}]
    /\ outcome' = [outcome EXCEPT ![k] = "none"]
    /\ UNCHANGED <<cacheVars, nodeVars, warned, ping>>

(* _prepared_statements_map.Get finds an entry, the id in it empty or not. *)
CacheHit(k) ==
    /\ pc[k] = "resolve"
    /\ todo[k] # <<>>
    /\ Head(todo[k]) \in cache
    /\ AddId(k, Head(todo[k]), Head(todo[k]) \in blank)
    /\ todo' = [todo EXCEPT ![k] = Tail(@)]
    /\ UNCHANGED <<cacheVars, nodeVars, pc, outcome, warned, ping>>

(* Deviation: the statement is cached before the node has answered. *)
CacheMissPutsFirst(k) ==
    /\ pc[k] = "resolve"
    /\ todo[k] # <<>>
    /\ Head(todo[k]) \notin cache
    /\ Put(Head(todo[k]), "id")
    /\ pc' = [pc EXCEPT ![k] = "prepare"]
    /\ UNCHANGED <<nodeVars, todo, ids, blanks, outcome, warned, ping>>

(* It does not: conn->Prepare. *)
CacheMiss(k) ==
    /\ pc[k] = "resolve"
    /\ todo[k] # <<>>
    /\ Head(todo[k]) \notin cache
    /\ pc' = [pc EXCEPT ![k] = "prepare"]
    /\ UNCHANGED <<cacheVars, nodeVars, todo, ids, blanks, outcome, warned, ping>>

(* The node prepares the statement; its answer is on the way. *)
NodePrepares(k) ==
    /\ pc[k] = "prepare"
    /\ prepared' = prepared \cup {Head(todo[k])}
    /\ pc' = [pc EXCEPT ![k] = "put"]
    /\ UNCHANGED <<cacheVars, forgotten, forgets, todo, ids, blanks, outcome,
                   warned, ping>>

(* Prepare returns the id, or an empty one, which is put into the cache. *)
PutPrepared(k) ==
    /\ pc[k] = "put"
    /\ \E answer \in Answers :
          /\ Put(Head(todo[k]), answer)
          /\ AddId(k, Head(todo[k]), answer = "empty")
          /\ NoteWarning(Head(todo[k]), answer)
    /\ todo' = [todo EXCEPT ![k] = Tail(@)]
    /\ pc' = [pc EXCEPT ![k] = "resolve"]
    /\ UNCHANGED <<nodeVars, outcome, ping>>

(* Every statement has its id: EXECUTE or BATCH is sent and the node finds  *)
(* every id, or answers UNPREPARED, which CheckError throws at the client.  *)
(* It has no statement for an empty id.                                     *)
NodeExecutes(k) ==
    /\ pc[k] = "resolve"
    /\ todo[k] = <<>>
    /\ outcome' = [outcome EXCEPT ![k] =
                     IF ids[k] \subseteq prepared /\ blanks[k] = {}
                     THEN "ok" ELSE "unprepared"]
    /\ pc' = [pc EXCEPT ![k] = "idle"]
    /\ UNCHANGED <<cacheVars, nodeVars, todo, ids, blanks, warned, ping>>

(* QUERY, or BATCH with texts. *)
NodeExecutesText(k) ==
    /\ pc[k] = "plain"
    /\ outcome' = [outcome EXCEPT ![k] = "ok"]
    /\ todo' = [todo EXCEPT ![k] = <<>>]
    /\ pc' = [pc EXCEPT ![k] = "idle"]
    /\ UNCHANGED <<cacheVars, nodeVars, ids, blanks, warned, ping>>

(* Any other exception of a call, answered or not. *)
CallFails(k) ==
    /\ pc[k] # "idle"
    /\ outcome' = [outcome EXCEPT ![k] = "error"]
    /\ todo' = [todo EXCEPT ![k] = <<>>]
    /\ pc' = [pc EXCEPT ![k] = "idle"]
    /\ UNCHANGED <<cacheVars, nodeVars, ids, blanks, warned, ping>>

-----------------------------------------------------------------------------
(* Maintain pings every connection; a ping is one turn of its loop.         *)

PingLookup ==
    /\ ping = "sleep"
    /\ ping' = IF kPing \notin cache THEN "prepare"
               ELSE IF kPing \in blank THEN "blank" ELSE "cached"
    /\ UNCHANGED <<cacheVars, nodeVars, clientVars, warned>>

NodePreparesPing ==
    /\ ping = "prepare"
    /\ prepared' = prepared \cup {kPing}
    /\ ping' = "put"
    /\ UNCHANGED <<cacheVars, forgotten, forgets, clientVars, warned>>

PutPing ==
    /\ ping = "put"
    /\ \E answer \in Answers : Put(kPing, answer) /\ NoteWarning(kPing, answer)
    /\ ping' = "fresh"
    /\ UNCHANGED <<nodeVars, clientVars>>

(* Whatever the node says of the id Prepare has just returned, UNPREPARED   *)
(* included, is only logged.                                                *)
PingFresh ==
    /\ ping = "fresh"
    /\ ping' = "sleep"
    /\ UNCHANGED <<cacheVars, nodeVars, clientVars, warned>>

(* Deviation: UNPREPARED is logged and the cache is kept. *)
PingCachedKeepsCache ==
    /\ ping \in {"cached", "blank"}
    /\ ping' = "sleep"
    /\ UNCHANGED <<cacheVars, nodeVars, clientVars, warned>>

(* UNPREPARED as the answer to a cached id empties the cache. *)
PingCached ==
    /\ ping \in {"cached", "blank"}
    /\ IF ping = "cached" /\ kPing \in prepared
       THEN UNCHANGED cacheVars
       ELSE cache' = {} /\ blank' = {}
    /\ ping' = "sleep"
    /\ UNCHANGED <<nodeVars, clientVars, warned>>

(* Any other exception, answered or not. *)
PingFails ==
    /\ ping \in {"prepare", "put", "cached", "blank"}
    /\ ping' = "sleep"
    /\ UNCHANGED <<cacheVars, nodeVars, clientVars, warned>>

-----------------------------------------------------------------------------
(* The node forgets some of its statements (external). *)
Forget ==
    /\ forgets < MaxForgets
    /\ \E lost \in SUBSET prepared \ {{}} :
          /\ prepared' = prepared \ lost
          /\ forgotten' = forgotten \cup lost
    /\ forgets' = forgets + 1
    /\ UNCHANGED <<cacheVars, clientVars, warned, ping>>

ClientStep(k) ==
    \/ Call(k)
    \/ CacheHit(k)
    \/ CacheMiss(k)
    \/ NodePrepares(k)
    \/ PutPrepared(k)
    \/ NodeExecutes(k)
    \/ NodeExecutesText(k)
    \/ CallFails(k)

PingStep ==
    \/ PingLookup
    \/ NodePreparesPing
    \/ PutPing
    \/ PingFresh
    \/ PingCached

Next ==
    \/ \E k \in Clients : ClientStep(k)
    \/ PingStep
    \/ PingFails
    \/ Forget

Spec == Init /\ [][Next]_vars

(* Maintain runs forever, and the requests of its pings do not time out     *)
(* every time.                                                              *)
Fairness ==
    /\ WF_vars(PingStep)
    /\ SF_vars(NodePreparesPing)
    /\ SF_vars(PutPing)
    /\ SF_vars(PingCached)

FairSpec == Spec /\ Fairness

-----------------------------------------------------------------------------
(* Properties.                                                              *)

(* Every variable has its type, and the cache stays within its capacity. *)
TypeOK ==
    /\ cache \subseteq AllStatements
    /\ Cardinality(cache) <= CacheCapacity
    /\ blank \subseteq cache
    /\ warned \subseteq AllStatements
    /\ prepared \subseteq AllStatements
    /\ forgotten \subseteq AllStatements
    /\ forgets \in 0 .. MaxForgets
    /\ pc \in [Clients -> {"idle", "resolve", "prepare", "put", "plain"}]
    /\ todo \in [Clients -> Seq(Statements)]
    /\ ids \in [Clients -> SUBSET Statements]
    /\ blanks \in [Clients -> SUBSET Statements]
    /\ outcome \in [Clients -> {"none", "ok", "unprepared", "error"}]
    /\ ping \in {"sleep", "prepare", "put", "fresh", "cached", "blank"}

(* A client is told UNPREPARED only about a statement that the node had     *)
(* prepared and has forgotten since, or one whose id Execute, BatchExecute  *)
(* or Maintain took from an answer with a warning and put into the cache    *)
(* empty: no other id the node has not given out is ever executed, whatever *)
(* other clients, evictions and Invalidate did to the cache between the     *)
(* client's lookups.                                                        *)
UnpreparedHasACause ==
    \A k \in Clients :
        outcome[k] = "unprepared" =>
            ids[k] \cap forgotten # {} \/ blanks[k] \cap warned # {}

(* An id of the ping that is no good, forgotten by the node or empty, does  *)
(* not stay in the cache: a later ping is told UNPREPARED and Invalidate    *)
(* drops it with all others.                                                *)
PingNoticesLoss ==
    kPing \in cache /\ (kPing \notin prepared \/ kPing \in blank)
        ~> kPing \notin cache

(* What the comment in Execute asks for: a call that is told UNPREPARED has *)
(* its statement prepared again, so the id that is no good does not stay    *)
(* in the cache for the calls that follow.                                  *)
StaleIdIsReplaced ==
    \A k \in Clients, s \in Statements :
        outcome[k] = "unprepared" /\ s \in ids[k] \ prepared
            ~> s \in prepared \/ s \notin cache
=============================================================================
