---------------------- MODULE PreparedStatementsProofs ----------------------
(***************************************************************************)
(* PreparedStatements is safe for any number of clients and statements and *)
(* any shape of the cache: an UNPREPARED answer always means that the node *)
(* has forgotten something, or that a warning has hidden an id.            *)
(***************************************************************************)
EXTENDS PreparedStatements, FiniteSetTheorems, TLAPS

(* What the node knows or knew. *)
Known == prepared \cup forgotten

(* The shapes of the variables the argument needs; unlike TypeOK it says    *)
(* nothing of how large the cache is.                                       *)
Shape ==
    /\ pc \in [Clients -> {"idle", "resolve", "prepare", "put", "plain"}]
    /\ todo \in [Clients -> Seq(Statements)]
    /\ ids \in [Clients -> SUBSET Statements]
    /\ blanks \in [Clients -> SUBSET Statements]
    /\ outcome \in [Clients -> {"none", "ok", "unprepared", "error"}]

(* Every id the driver holds, in the cache, in a call under way or in an    *)
(* answer it has not looked at yet, is one the node has given out, or an    *)
(* empty one left by a warning.                                             *)
IdsAreKnown ==
    /\ cache \ blank \subseteq Known
    /\ blank \subseteq warned
    /\ \A k \in Clients : ids[k] \subseteq Known
    /\ \A k \in Clients : blanks[k] \subseteq warned
    /\ \A k \in Clients : pc[k] = "put" => Head(todo[k]) \in Known
    /\ ping = "put" => kPing \in Known

(* A call that still waits for an answer to Prepare has a statement left.   *)
StatementLeft ==
    \A k \in Clients : pc[k] \in {"prepare", "put"} => todo[k] # <<>>

(* TypeOK, with what makes the size of the cache a number. *)
CacheInv ==
    /\ TypeOK
    /\ StatementLeft
    /\ IsFiniteSet(cache)

PreparedInv ==
    /\ Shape
    /\ StatementLeft
    /\ IdsAreKnown
    /\ UnpreparedHasACause

-----------------------------------------------------------------------------
(* The invariant holds initially: nothing has been prepared. *)
LEMMA InitPrepared == Init => PreparedInv
BY DEF Init, PreparedInv, Shape, StatementLeft, IdsAreKnown, Known,
       UnpreparedHasACause

(* Put adds its argument to the cache, with an id or without, and nothing   *)
(* else, evictions or not.                                                  *)
LEMMA PutAddsOne ==
    ASSUME NEW s, NEW answer, Put(s, answer)
    PROVE  /\ cache' \subseteq cache \cup {s}
           /\ blank \subseteq cache => blank' \subseteq cache'
           /\ answer = "empty" => /\ blank' \subseteq blank \cup {s}
                                  /\ cache' \ blank' \subseteq cache \ blank
           /\ answer # "empty" => /\ blank' \subseteq blank
                                  /\ cache' \ blank' \subseteq (cache \ blank) \cup {s}
BY DEF Put

(* Put keeps the cache finite and within its capacity: a full cache loses   *)
(* as many entries as it gains.                                             *)
LEMMA PutIsBounded ==
    ASSUME NEW s, NEW answer, Put(s, answer),
           IsFiniteSet(cache), Cardinality(cache) <= CacheCapacity
    PROVE  IsFiniteSet(cache') /\ Cardinality(cache') <= CacheCapacity
<1>1. Cardinality(cache) \in Nat /\ CacheCapacity \in Nat
  BY FS_CardinalityType, CapacityAssumption
<1>2. PICK evicted \in Evictions(s) : cache' = (cache \ evicted) \cup {s}
  BY DEF Put
<1>3. CASE s \in cache
  <2>1. evicted = {}
    BY <1>3 DEF Evictions
  <2>2. cache' = cache
    BY <1>2, <1>3, <2>1
  <2> QED BY <2>2
<1>4. CASE s \notin cache /\ evicted = {}
  <2>1. Cardinality(cache) < CacheCapacity
    BY <1>1, <1>4, CapacityAssumption DEF Evictions
  <2>2. cache' = cache \cup {s}
    BY <1>2, <1>4
  <2>3. IsFiniteSet(cache') /\ Cardinality(cache') = Cardinality(cache) + 1
    BY <1>4, <2>2, FS_AddElement
  <2> QED BY <1>1, <2>1, <2>3
<1>5. CASE s \notin cache /\ evicted # {}
  <2>1. PICK victim \in cache : evicted = {victim}
    BY <1>5 DEF Evictions
  <2>2. /\ IsFiniteSet(cache \ {victim})
        /\ Cardinality(cache \ {victim}) = Cardinality(cache) - 1
    BY FS_RemoveElement
  <2>3. s \notin cache \ {victim}
    BY <1>5
  <2>4. IsFiniteSet(cache') /\ Cardinality(cache') = Cardinality(cache \ {victim}) + 1
    BY <1>2, <2>1, <2>2, <2>3, FS_AddElement
  <2> QED BY <1>1, <2>2, <2>4
<1> QED BY <1>3, <1>4, <1>5

(* Shapes and the statements left to resolve are kept by every step. *)
LEMMA ShapeStep ==
    ASSUME Shape, StatementLeft, [Next]_vars
    PROVE  Shape' /\ StatementLeft'
<1> USE DEF Shape, StatementLeft
<1>1. ASSUME NEW k \in Clients, Call(k)
      PROVE  Shape' /\ StatementLeft'
  <2>1. PICK mode \in Overrides, job \in Jobs :
          /\ pc' = [pc EXCEPT ![k] =
                      IF CanPrepareStatement(mode) THEN "resolve" ELSE "plain"]
          /\ todo' = [todo EXCEPT ![k] = job]
    BY <1>1 DEF Call
  <2>2. PICK n \in 1 .. MaxBatch : job \in [1 .. n -> Statements]
    BY DEF Jobs
  <2>3. job \in Seq(Statements)
    BY <2>2, BoundsAssumption
  <2> QED BY <1>1, <2>1, <2>3 DEF Call
<1>2. ASSUME NEW k \in Clients, CacheHit(k)
      PROVE  Shape' /\ StatementLeft'
  BY <1>2 DEF CacheHit, AddId
<1>3. ASSUME NEW k \in Clients, CacheMiss(k)
      PROVE  Shape' /\ StatementLeft'
  BY <1>3 DEF CacheMiss
<1>4. ASSUME NEW k \in Clients, NodePrepares(k)
      PROVE  Shape' /\ StatementLeft'
  BY <1>4 DEF NodePrepares
<1>5. ASSUME NEW k \in Clients, PutPrepared(k)
      PROVE  Shape' /\ StatementLeft'
  BY <1>5 DEF PutPrepared, AddId
<1>6. ASSUME NEW k \in Clients, NodeExecutes(k)
      PROVE  Shape' /\ StatementLeft'
  BY <1>6 DEF NodeExecutes
<1>7. ASSUME NEW k \in Clients, NodeExecutesText(k) \/ CallFails(k)
      PROVE  Shape' /\ StatementLeft'
  <2>1. <<>> \in Seq(Statements)
    OBVIOUS
  <2>2. CASE NodeExecutesText(k)
    BY <2>1, <2>2 DEF NodeExecutesText
  <2>3. CASE CallFails(k)
    BY <2>1, <2>3 DEF CallFails
  <2> QED BY <1>7, <2>2, <2>3
<1>8. CASE PingStep \/ PingFails \/ Forget
  BY <1>8 DEF PingStep, PingLookup, NodePreparesPing, PutPing, PingFresh,
              PingCached, PingFails, Forget, clientVars
<1>9. CASE UNCHANGED vars
  BY <1>9 DEF vars, clientVars
<1> QED BY <1>1, <1>2, <1>3, <1>4, <1>5, <1>6, <1>7, <1>8, <1>9
        DEF Next, ClientStep

(* No step gives the driver an id from anywhere but the node. *)
LEMMA KnownStep ==
    ASSUME PreparedInv, [Next]_vars
    PROVE  IdsAreKnown'
<1> USE DEF PreparedInv, Shape, StatementLeft, IdsAreKnown, Known
<1>1. ASSUME NEW k \in Clients, Call(k)
      PROVE  IdsAreKnown'
  BY <1>1 DEF Call, nodeVars, cacheVars
<1>2. ASSUME NEW k \in Clients, CacheHit(k)
      PROVE  IdsAreKnown'
  BY <1>2 DEF CacheHit, AddId, nodeVars, cacheVars
<1>3. ASSUME NEW k \in Clients, CacheMiss(k)
      PROVE  IdsAreKnown'
  BY <1>3 DEF CacheMiss, nodeVars, cacheVars
<1>4. ASSUME NEW k \in Clients, NodePrepares(k)
      PROVE  IdsAreKnown'
  BY <1>4 DEF NodePrepares, cacheVars
<1>5. ASSUME NEW k \in Clients, PutPrepared(k)
      PROVE  IdsAreKnown'
  <2>1. PICK answer \in Answers :
          /\ Put(Head(todo[k]), answer)
          /\ AddId(k, Head(todo[k]), answer = "empty")
          /\ NoteWarning(Head(todo[k]), answer)
    BY <1>5 DEF PutPrepared
  <2> DEFINE s == Head(todo[k])
  <2>2. s \in Known /\ Known' = Known
    BY <1>5 DEF PutPrepared, nodeVars
  <2>3. /\ answer = "empty" => warned' = warned \cup {s}
        /\ answer # "empty" => warned' = warned
    BY <2>1 DEF NoteWarning
  <2>4. cache' \ blank' \subseteq Known' /\ blank' \subseteq warned'
    <3>1. /\ answer = "empty" => /\ blank' \subseteq blank \cup {s}
                                 /\ cache' \ blank' \subseteq cache \ blank
          /\ answer # "empty" => /\ blank' \subseteq blank
                                 /\ cache' \ blank' \subseteq (cache \ blank) \cup {s}
      BY <2>1, PutAddsOne
    <3> HIDE DEF s
    <3> QED BY <2>2, <2>3, <3>1
  <2>5. ASSUME NEW c \in Clients
        PROVE  ids'[c] \subseteq Known' /\ blanks'[c] \subseteq warned'
    <3>1. /\ ids'[c] \subseteq ids[c] \cup {s} /\ blanks'[c] \subseteq blanks[c] \cup {s}
          /\ answer # "empty" => blanks'[c] = blanks[c]
      BY <2>1 DEF AddId
    <3> HIDE DEF s
    <3> QED BY <2>2, <2>3, <3>1
  <2>6. ASSUME NEW c \in Clients, pc'[c] = "put"
        PROVE  Head(todo'[c]) \in Known'
    <3>1. c # k
      BY <1>5, <2>6 DEF PutPrepared
    <3> QED BY <1>5, <2>2, <2>6, <3>1 DEF PutPrepared
  <2>7. ping' = "put" => kPing \in Known'
    BY <1>5, <2>2 DEF PutPrepared
  <2> QED BY <2>4, <2>5, <2>6, <2>7
<1>6. ASSUME NEW k \in Clients,
             NodeExecutes(k) \/ NodeExecutesText(k) \/ CallFails(k)
      PROVE  IdsAreKnown'
  BY <1>6 DEF NodeExecutes, NodeExecutesText, CallFails, nodeVars, cacheVars
<1>7. CASE PutPing
  <2>1. PICK answer \in Answers : Put(kPing, answer) /\ NoteWarning(kPing, answer)
    BY <1>7 DEF PutPing
  <2>2. CASE answer = "empty"
    <3>1. /\ blank' \subseteq blank \cup {kPing}
          /\ cache' \ blank' \subseteq cache \ blank
      BY <2>1, <2>2, PutAddsOne
    <3> QED BY <1>7, <2>1, <2>2, <3>1 DEF PutPing, NoteWarning, nodeVars, clientVars
  <2>3. CASE answer # "empty"
    <3>1. /\ blank' \subseteq blank
          /\ cache' \ blank' \subseteq (cache \ blank) \cup {kPing}
      BY <2>1, <2>3, PutAddsOne
    <3> QED BY <1>7, <2>1, <2>3, <3>1 DEF PutPing, NoteWarning, nodeVars, clientVars
  <2> QED BY <2>2, <2>3
<1>8. CASE NodePreparesPing \/ PingLookup \/ PingFresh \/ PingCached \/ PingFails
  BY <1>8 DEF PingLookup, NodePreparesPing, PingFresh, PingCached, PingFails,
              nodeVars, clientVars, cacheVars
<1>9. CASE Forget
  BY <1>9 DEF Forget, clientVars, cacheVars
<1>10. CASE UNCHANGED vars
  BY <1>10 DEF vars, nodeVars, clientVars, cacheVars
<1> QED BY <1>1, <1>2, <1>3, <1>4, <1>5, <1>6, <1>7, <1>8, <1>9, <1>10
        DEF Next, ClientStep, PingStep

(* UNPREPARED is told only where an id has been forgotten or is empty, and  *)
(* what has been forgotten or hidden once stays so in the history.          *)
LEMMA UnpreparedStep ==
    ASSUME PreparedInv, [Next]_vars
    PROVE  UnpreparedHasACause'
<1> USE DEF PreparedInv, Shape, IdsAreKnown, Known, UnpreparedHasACause
<1>1. ASSUME NEW k \in Clients, Call(k) \/ NodeExecutesText(k) \/ CallFails(k)
      PROVE  UnpreparedHasACause'
  <2>1. CASE Call(k)
    BY <2>1 DEF Call, nodeVars
  <2>2. CASE NodeExecutesText(k)
    BY <2>2 DEF NodeExecutesText, nodeVars
  <2>3. CASE CallFails(k)
    BY <2>3 DEF CallFails, nodeVars
  <2> QED BY <1>1, <2>1, <2>2, <2>3
<1>2. ASSUME NEW k \in Clients, CacheHit(k) \/ PutPrepared(k)
      PROVE  UnpreparedHasACause'
  <2>1. CASE CacheHit(k)
    BY <2>1 DEF CacheHit, AddId, nodeVars
  <2>2. CASE PutPrepared(k)
    <3>1. warned \subseteq warned' /\ UNCHANGED forgotten
      BY <2>2 DEF PutPrepared, NoteWarning, nodeVars
    <3>2. \A c \in Clients : ids[c] \subseteq ids'[c] /\ blanks[c] \subseteq blanks'[c]
      BY <2>2 DEF PutPrepared, AddId
    <3>3. UNCHANGED outcome
      BY <2>2 DEF PutPrepared
    <3> QED BY <3>1, <3>2, <3>3
  <2> QED BY <1>2, <2>1, <2>2
<1>3. ASSUME NEW k \in Clients, CacheMiss(k) \/ NodePrepares(k)
      PROVE  UnpreparedHasACause'
  BY <1>3 DEF CacheMiss, NodePrepares, nodeVars
<1>4. ASSUME NEW k \in Clients, NodeExecutes(k)
      PROVE  UnpreparedHasACause'
  BY <1>4 DEF NodeExecutes, nodeVars
<1>5. CASE PingStep \/ PingFails \/ Forget
  BY <1>5 DEF PingStep, PingLookup, NodePreparesPing, PutPing, PingFresh,
              PingCached, PingFails, Forget, NoteWarning, nodeVars, clientVars
<1>6. CASE UNCHANGED vars
  BY <1>6 DEF vars, nodeVars, clientVars
<1> QED BY <1>1, <1>2, <1>3, <1>4, <1>5, <1>6 DEF Next, ClientStep

(* Every step keeps the types, and the cache within its capacity. *)
LEMMA CacheStep ==
    ASSUME CacheInv, [Next]_vars
    PROVE  CacheInv'
<1> USE DEF CacheInv, TypeOK, AllStatements
<1>1. Shape' /\ StatementLeft'
  BY ShapeStep DEF Shape
<1>2. SUFFICES /\ cache' \subseteq AllStatements
               /\ IsFiniteSet(cache') /\ Cardinality(cache') <= CacheCapacity
               /\ blank' \subseteq cache'
               /\ warned' \subseteq AllStatements
               /\ prepared' \subseteq AllStatements
               /\ forgotten' \subseteq AllStatements
               /\ forgets' \in 0 .. MaxForgets
               /\ ping' \in {"sleep", "prepare", "put", "fresh", "cached", "blank"}
  BY <1>1 DEF Shape
<1>3. ASSUME NEW k \in Clients,
             \/ Call(k) \/ CacheHit(k) \/ CacheMiss(k) \/ NodeExecutes(k)
             \/ NodeExecutesText(k) \/ CallFails(k)
      PROVE  UNCHANGED <<cacheVars, nodeVars, warned, ping>>
  BY <1>3 DEF Call, CacheHit, CacheMiss, NodeExecutes, NodeExecutesText, CallFails
<1>4. ASSUME NEW k \in Clients, NodePrepares(k)
      PROVE  /\ UNCHANGED <<cacheVars, forgotten, forgets, warned, ping>>
             /\ prepared' \subseteq AllStatements
  BY <1>4 DEF NodePrepares, StatementLeft
<1>5. ASSUME NEW s \in AllStatements, NEW answer,
             Put(s, answer), NoteWarning(s, answer)
      PROVE  /\ cache' \subseteq AllStatements
             /\ IsFiniteSet(cache') /\ Cardinality(cache') <= CacheCapacity
             /\ blank' \subseteq cache'
             /\ warned' \subseteq AllStatements
  <2>1. cache' \subseteq AllStatements /\ blank' \subseteq cache'
    BY <1>5, PutAddsOne
  <2>2. IsFiniteSet(cache') /\ Cardinality(cache') <= CacheCapacity
    BY <1>5, PutIsBounded
  <2>3. warned' \subseteq AllStatements
    BY <1>5 DEF NoteWarning
  <2> QED BY <2>1, <2>2, <2>3
<1>6. ASSUME NEW k \in Clients, PutPrepared(k)
      PROVE  /\ UNCHANGED <<nodeVars, ping>>
             /\ \E s \in AllStatements, answer \in Answers :
                    Put(s, answer) /\ NoteWarning(s, answer)
  BY <1>6 DEF PutPrepared, StatementLeft
<1>7. CASE PutPing
  <2>1. \E s \in AllStatements, answer \in Answers :
            Put(s, answer) /\ NoteWarning(s, answer)
    BY <1>7 DEF PutPing
  <2> QED BY <1>5, <1>7, <2>1 DEF PutPing, nodeVars
<1>8. CASE PingCached
  <2>1. CASE UNCHANGED cacheVars
    BY <1>8, <2>1 DEF PingCached, nodeVars, cacheVars
  <2>2. CASE cache' = {} /\ blank' = {}
    BY <1>8, <2>2, FS_EmptySet, CapacityAssumption DEF PingCached, nodeVars
  <2> QED BY <1>8, <2>1, <2>2 DEF PingCached
<1>9. CASE PingLookup \/ NodePreparesPing \/ PingFresh \/ PingFails
  BY <1>9 DEF PingLookup, NodePreparesPing, PingFresh, PingFails, nodeVars, cacheVars
<1>10. CASE Forget
  <2>1. forgets' \in 0 .. MaxForgets
    BY <1>10, BoundsAssumption DEF Forget
  <2> QED BY <1>10, <2>1 DEF Forget, cacheVars
<1>11. CASE UNCHANGED vars
  BY <1>11 DEF vars, nodeVars, cacheVars
<1>12. ASSUME NEW k \in Clients, ClientStep(k)
       PROVE  /\ cache' \subseteq AllStatements
              /\ IsFiniteSet(cache') /\ Cardinality(cache') <= CacheCapacity
              /\ blank' \subseteq cache'
              /\ warned' \subseteq AllStatements
              /\ prepared' \subseteq AllStatements
              /\ forgotten' \subseteq AllStatements
              /\ forgets' \in 0 .. MaxForgets
              /\ ping' \in {"sleep", "prepare", "put", "fresh", "cached", "blank"}
  <2>1. CASE NodePrepares(k)
    BY <1>4, <2>1 DEF cacheVars
  <2>2. CASE PutPrepared(k)
    BY <1>5, <1>6, <2>2 DEF nodeVars
  <2>3. CASE ~ NodePrepares(k) /\ ~ PutPrepared(k)
    BY <1>3, <1>12, <2>3 DEF ClientStep, nodeVars, cacheVars
  <2> QED BY <2>1, <2>2, <2>3
<1> QED BY <1>7, <1>8, <1>9, <1>10, <1>11, <1>12 DEF Next, PingStep

-----------------------------------------------------------------------------
(* Execute and BatchExecute (src/src/detail/connection_pool.cpp) never use  *)
(* an id the node has not given out, but for the empty one: a client is     *)
(* told UNPREPARED only about a statement the node has forgotten or whose   *)
(* id a warning has hidden, for every number of clients and statements,     *)
(* every shape of the cache and however often the node forgets or warns.    *)
THEOREM UnpreparedIsExplained == Spec => []UnpreparedHasACause
<1>1. Init => PreparedInv
  BY InitPrepared
<1>2. PreparedInv /\ [Next]_vars => PreparedInv'
  BY ShapeStep, KnownStep, UnpreparedStep DEF PreparedInv
<1>3. PreparedInv => UnpreparedHasACause
  BY DEF PreparedInv
<1> QED BY <1>1, <1>2, <1>3, PTL DEF Spec

(* The types hold in every reachable state, and neither clients nor pings   *)
(* that put ids into _prepared_statements_map at the same time make it      *)
(* outgrow its capacity.                                                    *)
THEOREM CacheIsBounded == Spec => []TypeOK
<1>1. Init => CacheInv
  BY FS_EmptySet, CapacityAssumption, BoundsAssumption
     DEF Init, CacheInv, TypeOK, StatementLeft
<1>2. CacheInv /\ [Next]_vars => CacheInv'
  BY CacheStep
<1>3. CacheInv => TypeOK
  BY DEF CacheInv
<1> QED BY <1>1, <1>2, <1>3, PTL DEF Spec
=============================================================================
