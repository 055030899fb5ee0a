------------------------ MODULE ConnectionPoolProofs ------------------------
(***************************************************************************)
(* Proofs about ConnectionPool, for any clients, pool size and limit.      *)
(***************************************************************************)
EXTENDS ConnectionPool, FiniteSetTheorems, SequenceTheorems, TLAPS

-----------------------------------------------------------------------------
(* Sequences and minima.                                                    *)

(* A set of natural numbers has a least member, and Min finds it. *)
LEMMA MinIsLeast ==
  ASSUME NEW S \in SUBSET Nat, S # {}
  PROVE  Min(S) \in S /\ \A n \in S : Min(S) <= n
<1> DEFINE Less == {nn \in Nat \X Nat : nn[1] < nn[2]}
<1>1. IsWellFoundedOn(Less, Nat)
      BY NatLessThanWellFounded, Zenon DEF OpToRel
<1> HIDE DEF Less
<1>2. PICK m \in S : \A n \in S : <<n, m>> \notin Less
      BY <1>1, WFMin
<1>3. ASSUME NEW n \in S PROVE m <= n
  <2>1. m \in Nat /\ n \in Nat
        OBVIOUS
  <2>2. n < m => <<n, m>> \in Less
        BY <2>1 DEF Less
  <2> QED  BY <1>2, <2>1, <2>2
<1>4. \E l \in S : \A n \in S : l <= n
      BY <1>3
<1> QED  BY <1>4 DEF Min

(* What Without leaves is what it should: the members that are not in S,    *)
(* none of them twice if none was there twice.                              *)
LEMMA WithoutProperties ==
  ASSUME NEW T, NEW s \in Seq(T), NEW S
  PROVE  /\ Without(s, S) \in Seq(T)
         /\ Range(Without(s, S)) = Range(s) \ S
         /\ IsInjective(s) => IsInjective(Without(s, S))
<1> DEFINE left == {i \in DOMAIN s : s[i] \notin S}
           Upto(i) == {j \in left : j <= i}
           N == Cardinality(left)
           place == [i \in left |-> Cardinality(Upto(i))]
           At(n) == CHOOSE i \in left : Cardinality(Upto(i)) = n
<1>1. left \subseteq 1 .. Len(s) /\ DOMAIN s = 1 .. Len(s)
      OBVIOUS
<1>2. IsFiniteSet(left) /\ N \in Nat
  <2>1. IsFiniteSet(1 .. Len(s))
        BY FS_Interval
  <2> HIDE DEF left
  <2> QED  BY <1>1, <2>1, FS_Subset, FS_CardinalityType
<1>3. \A i \in left : /\ IsFiniteSet(Upto(i)) /\ Cardinality(Upto(i)) <= N
                      /\ Cardinality(Upto(i)) \in Nat \ {0}
  <2> TAKE i \in left
  <2>1. IsFiniteSet(Upto(i)) /\ Cardinality(Upto(i)) <= N
        BY <1>2, FS_Subset
  <2>2. i \in Upto(i)
        BY <1>1
  <2>3. Cardinality(Upto(i)) # 0
        BY <2>1, <2>2, FS_EmptySet
  <2> QED  BY <2>1, <2>3, FS_CardinalityType
<1>4. \A i, j \in left : Cardinality(Upto(i)) = Cardinality(Upto(j)) => i = j
  <2>1. ASSUME NEW i \in left, NEW j \in left, i < j
        PROVE  Cardinality(Upto(i)) # Cardinality(Upto(j))
    <3>1. Upto(i) \subseteq Upto(j) /\ j \in Upto(j) /\ j \notin Upto(i)
          BY <1>1, <2>1
    <3> QED  BY <1>3, <3>1, FS_Subset
  <2> QED  BY <1>1, <2>1
<1>5. \A n \in 1 .. N : \E i \in left : Cardinality(Upto(i)) = n
  <2>1. place \in [left -> 1 .. N]
    <3>1. \A i \in left : Cardinality(Upto(i)) \in 1 .. N
      <4> HIDE DEF left, Upto, N
      <4> QED  BY <1>2, <1>3
    <3> QED  BY <3>1
  <2>2. place \in Injection(left, 1 .. N)
        BY <1>4, <2>1 DEF Injection, IsInjective
  <2>3. IsFiniteSet(1 .. N) /\ Cardinality(1 .. N) = N
        BY <1>2, FS_Interval
  <2>4. place \in Surjection(left, 1 .. N)
        BY <2>2, <2>3, FS_Injection
  <2> QED  BY <2>4 DEF Surjection
<1>6. \A n \in 1 .. N : At(n) \in left /\ Cardinality(Upto(At(n))) = n
      BY <1>5
<1>7. \A i \in left : Cardinality(Upto(i)) \in 1 .. N /\ At(Cardinality(Upto(i))) = i
  <2> HIDE DEF left, Upto, N, At
  <2> QED  BY <1>2, <1>3, <1>4, <1>6
<1>8. Without(s, S) = [n \in 1 .. N |-> s[At(n)]]
      BY DEF Without
<1> HIDE DEF left, Upto, N, place, At
<1>9. Without(s, S) \in Seq(T)
  <2>1. \A n \in 1 .. N : At(n) \in 1 .. Len(s)
        BY <1>1, <1>6
  <2>2. \A i \in 1 .. Len(s) : s[i] \in T
        OBVIOUS
  <2> QED  BY <1>2, <1>8, <2>1, <2>2
<1>10. Range(Without(s, S)) = Range(s) \ S
  <2>1. Range(Without(s, S)) = {s[At(n)] : n \in 1 .. N}
        BY <1>8 DEF Range
  <2>2. Range(s) \ S = {s[i] : i \in left}
        BY DEF Range, left
  <2>3. {s[At(n)] : n \in 1 .. N} = {s[i] : i \in left}
        BY <1>6, <1>7
  <2> QED  BY <2>1, <2>2, <2>3
<1>11. ASSUME IsInjective(s) PROVE IsInjective(Without(s, S))
  <2>1. \A m, n \in 1 .. N : s[At(m)] = s[At(n)] => m = n
        BY <1>1, <1>6, <1>11 DEF IsInjective
  <2> QED  BY <1>8, <2>1 DEF IsInjective
<1> QED  BY <1>9, <1>10, <1>11

LEMMA AppendOwner ==
  ASSUME NEW T, NEW s \in Seq(T), NEW x \in T, x \notin Range(s)
  PROVE  /\ Append(s, x) \in Seq(T)
         /\ Range(Append(s, x)) = Range(s) \cup {x}
         /\ IsInjective(s) => IsInjective(Append(s, x))
<1>1. /\ Append(s, x) \in Seq(T)
      /\ DOMAIN Append(s, x) = 1 .. Len(s) + 1
      /\ \A i \in 1 .. Len(s) : Append(s, x)[i] = s[i]
      /\ Append(s, x)[Len(s) + 1] = x
      /\ DOMAIN s = 1 .. Len(s) /\ Len(s) \in Nat
      OBVIOUS
<1>2. 1 .. Len(s) + 1 = (1 .. Len(s)) \cup {Len(s) + 1}
      BY <1>1
<1>3. Range(Append(s, x)) = Range(s) \cup {x}
      BY <1>1, <1>2 DEF Range
<1>4. ASSUME IsInjective(s) PROVE IsInjective(Append(s, x))
      BY <1>1, <1>2, <1>4 DEF Range, IsInjective
<1> QED  BY <1>1, <1>3, <1>4

-----------------------------------------------------------------------------
(* The inductive invariant.                                                 *)

(* A connection has an owner exactly while it exists, and no two. *)
OwnerInv ==
    /\ IsInjective(connections)
    /\ \A c \in Conns :
          object[c] = "alive" <=> \/ task[c] = "push"
                                  \/ c \in Range(connections)
                                  \/ captured = c
    /\ \A c \in Conns : task[c] = "push" => c \notin Range(connections)
    /\ captured # nullptr =>
          captured \notin Range(connections) /\ task[captured] # "push"

(* A connection object is made by its connect task, and its receiver ends   *)
(* before its close task does.                                              *)
LifeInv ==
    \A c \in Conns :
        /\ task[c] \in {"none", "permit", "connect"} => object[c] = "absent"
        /\ object[c] = "absent" => reader[c] = "none"
        /\ object[c] = "closed" => reader[c] # "running"

(* What a client has borrowed exists, or has been marked. *)
BorrowInv ==
    /\ \A k \in Clients : client[k] # "idle" =>
          /\ object[ptr[k]] # "absent"
          /\ object[ptr[k]] = "alive" \/ broken[ptr[k]]
    /\ pool # "running" => \A k \in Clients : client[k] = "idle"

(* Maintain counts no more connections than were made, so it finds none to  *)
(* spare; and it runs only between Init and the destructor.                 *)
MaintainInv ==
    /\ poolSize <= MinSize
    /\ maintain \in {"ping", "release", "escape"} => poolSize > 0
    /\ pool \in {"init", "clearing", "destroyed"} => maintain = "off"

(* Clear finds every connect task over and leaves nothing in the vector. *)
StopInv ==
    /\ pool \in {"clearing", "destroyed"} =>
          connections = <<>> /\ \A c \in Conns : task[c] = "done"
    /\ pool = "destroyed" => \A c \in Conns : object[c] # "deleted"

PoolInv ==
    /\ TypeOK /\ OwnerInv /\ LifeInv /\ PermitAccounting
    /\ BorrowInv /\ MaintainInv /\ StopInv

-----------------------------------------------------------------------------
(* What the steps do to the vector.                                         *)

LEMMA ConnsFinite == IsFiniteSet(Conns) /\ Cardinality(Conns) = MinSize
  BY MinSizeAssumption, FS_Interval DEF Conns

LEMMA UnusableIsBroken == \A c : Unusable(c) <=> broken[c]
  BY DEF Unusable, IsExpired, IsBroken

LEMMA UsedStreamsType == \A c : GetUsedStreams(c) \in Nat
<1> TAKE c
<1> DEFINE inside == {k \in Clients : client[k] = "inflight" /\ ptr[k] = c}
<1>1. IsFiniteSet(inside)
      BY ClientsFinite, FS_Subset
<1>2. Cardinality(inside) \in Nat
      BY <1>1, FS_CardinalityType
<1> QED  BY <1>2 DEF GetUsedStreams

(* Acquire takes a connection out of a vector that is not empty. *)
LEMMA LeastLoadedIsMember ==
  ASSUME NEW s \in Seq(Conns), s # <<>>
  PROVE  LeastLoaded(s) \in Range(s)
<1> DEFINE best == {i \in DOMAIN s : \A j \in DOMAIN s :
                      GetUsedStreams(s[i]) <= GetUsedStreams(s[j])}
           loads == {GetUsedStreams(s[i]) : i \in DOMAIN s}
<1>1. LeastLoaded(s) = s[Min(best)]
      BY DEF LeastLoaded, IsExpired
<1>2. DOMAIN s \subseteq Nat /\ DOMAIN s # {}
      OBVIOUS
<1>3. loads \in SUBSET Nat /\ loads # {}
      BY <1>2, UsedStreamsType
<1>4. PICK i \in DOMAIN s : GetUsedStreams(s[i]) = Min(loads)
      BY <1>3, MinIsLeast
<1>5. \A j \in DOMAIN s : GetUsedStreams(s[i]) <= GetUsedStreams(s[j])
  <2>1. \A n \in loads : Min(loads) <= n
        BY <1>3, MinIsLeast
  <2>2. \A j \in DOMAIN s : GetUsedStreams(s[j]) \in loads
        OBVIOUS
  <2> HIDE DEF loads
  <2> QED  BY <1>4, <2>1, <2>2
<1>6. best \in SUBSET Nat /\ best # {}
      BY <1>2, <1>5
<1>7. Min(best) \in DOMAIN s
      BY <1>6, MinIsLeast
<1> QED  BY <1>1, <1>7 DEF Range

(* A vector without repetitions is no longer than there are connections. *)
LEMMA DistinctBounded ==
  ASSUME NEW s \in Seq(Conns), IsInjective(s)
  PROVE  Len(s) <= MinSize
<1>1. s \in Injection(1 .. Len(s), Conns)
      BY DEF Injection, IsInjective
<1>2. Cardinality(1 .. Len(s)) = Len(s)
  <2>1. Len(s) \in Nat
        OBVIOUS
  <2> QED  BY <2>1, FS_Interval, SMTT(60)
<1> QED  BY <1>1, <1>2, ConnsFinite, FS_Injection

LEMMA PushEffect ==
  ASSUME TypeOK, NEW c \in Conns, c \notin Range(connections), Push(c)
  PROVE  \/ /\ broken[c] /\ UNCHANGED connections
            /\ object' = [object EXCEPT ![c] = "deleted"]
         \/ /\ UNCHANGED object
            /\ connections' \in Seq(Conns)
            /\ Range(connections') = Range(connections) \cup {c}
            /\ IsInjective(connections) => IsInjective(connections')
<1>1. CASE broken[c]
      BY <1>1, UnusableIsBroken DEF Push, Deleted, TypeOK
<1>2. CASE ~broken[c]
  <2>1. connections' = Append(connections, c) /\ UNCHANGED object
        BY <1>2, UnusableIsBroken DEF Push
  <2> QED  BY <2>1, AppendOwner DEF TypeOK
<1> QED  BY <1>1, <1>2

(* Acquire deletes the broken ones and borrows one of the others. *)
LEMMA AcquireEffect ==
  ASSUME TypeOK, NEW k \in Clients, Acquire(k)
  PROVE  /\ connections' \in Seq(Conns)
         /\ Range(connections') = {c \in Range(connections) : ~broken[c]}
         /\ IsInjective(connections) => IsInjective(connections')
         /\ object' = [c \in Conns |-> IF c \in Range(connections) /\ broken[c]
                                       THEN "deleted" ELSE object[c]]
         /\ \/ UNCHANGED clientVars
            \/ \E c \in Range(connections') :
                  /\ ptr' = [ptr EXCEPT ![k] = c]
                  /\ client' = [client EXCEPT ![k] = "chosen"]
<1> DEFINE kept == UsableConnections
           bad == {c \in Conns : Unusable(c)}
<1>1. Range(connections) \subseteq Conns
      BY RangeOfSeq DEF TypeOK
<1>2. kept = Without(connections, bad) /\ connections \in Seq(Conns)
      BY DEF UsableConnections, TypeOK
<1>3. /\ kept \in Seq(Conns) /\ Range(kept) = Range(connections) \ bad
      /\ IsInjective(connections) => IsInjective(kept)
      BY <1>2, WithoutProperties
<1>4. Range(kept) = {c \in Range(connections) : ~broken[c]}
      BY <1>1, <1>3, UnusableIsBroken
<1>5. connections' = kept
      BY DEF Acquire
<1>6. object' = [c \in Conns |-> IF c \in Range(connections) /\ broken[c]
                                 THEN "deleted" ELSE object[c]]
  <2>1. object' = Deleted({c \in Range(connections) : Unusable(c)})
        BY DEF Acquire
  <2> QED  BY <2>1, UnusableIsBroken DEF Deleted
<1>7. kept # <<>> => LeastLoaded(kept) \in Range(kept)
      BY <1>3, LeastLoadedIsMember
<1>8. \/ UNCHANGED clientVars
      \/ /\ kept # <<>> /\ ptr' = [ptr EXCEPT ![k] = LeastLoaded(kept)]
         /\ client' = [client EXCEPT ![k] = "chosen"]
      BY DEF Acquire
<1> HIDE DEF kept
<1> QED  BY <1>3, <1>4, <1>5, <1>6, <1>7, <1>8

(* Maintain deletes broken connections and takes one of the others, or      *)
(* finds none.  Nothing is dropped for being idle: poolSize is at most      *)
(* min_size.                                                                *)
LEMMA AcquireImmediateEffect ==
  ASSUME TypeOK, MaintainInv, AcquireImmediate
  PROVE  \E dropped \in SUBSET Range(connections) :
            /\ \A c \in dropped : broken[c]
            /\ object' = [c \in Conns |-> IF c \in dropped THEN "deleted"
                                          ELSE object[c]]
            /\ connections' \in Seq(Conns)
            /\ Range(connections') = Range(connections) \ (dropped \cup {captured'})
            /\ IsInjective(connections) => IsInjective(connections')
            /\ UNCHANGED <<dropLeft, poolSize>>
            /\ \/ captured' = nullptr /\ maintain' = "sleep"
               \/ /\ captured' \in Range(connections) \ dropped
                  /\ maintain' = "ping"
<1> DEFINE usable == {i \in DOMAIN connections :
                        ~IsExpired(connections[i]) /\ ~IsBroken(connections[i])}
           looked == IF usable = {} THEN DOMAIN connections
                     ELSE 1 .. Min(usable) - 1
           dropped == {connections[i] : i \in {j \in looked :
                                                 Unusable(connections[j])}}
           taken == IF usable = {} THEN nullptr ELSE connections[Min(usable)]
           dropIdle == /\ taken # nullptr
                       /\ poolSize > MinSize /\ dropLeft > 0 /\ IsIdle(taken)
<1>1. /\ connections' = Without(connections, dropped \cup {taken})
      /\ object' = Deleted(dropped \cup IF dropIdle THEN {taken} ELSE {})
      /\ maintain' = CASE taken = nullptr -> "sleep"
                       [] dropIdle        -> "loop"
                       [] OTHER           -> "ping"
      /\ captured' = IF dropIdle THEN nullptr ELSE taken
      /\ dropLeft' = IF dropIdle THEN dropLeft - 1 ELSE dropLeft
      /\ poolSize' = IF dropIdle THEN poolSize - 1 ELSE poolSize
      BY DEF AcquireImmediate
<1>2. ~dropIdle
      BY MinSizeAssumption DEF MaintainInv, TypeOK
<1>3. /\ usable \in SUBSET Nat /\ usable \subseteq DOMAIN connections
      /\ DOMAIN connections = 1 .. Len(connections) /\ Len(connections) \in Nat
      BY DEF TypeOK
<1>4. usable # {} => Min(usable) \in usable
  <2> HIDE DEF usable
  <2> QED  BY <1>3, MinIsLeast
<1>5. looked \subseteq DOMAIN connections
  <2> HIDE DEF usable
  <2>1. usable # {} => Min(usable) \in 1 .. Len(connections)
        BY <1>3, <1>4
  <2> QED  BY <1>3, <2>1
<1>6. dropped \in SUBSET Range(connections) /\ \A c \in dropped : broken[c]
      BY <1>5, UnusableIsBroken DEF Range
<1>7. \/ usable = {} /\ taken = nullptr
      \/ taken \in Range(connections) \ dropped
  <2>1. ASSUME usable # {}
        PROVE  taken \in Range(connections) /\ ~broken[taken]
        BY <1>3, <1>4, <2>1 DEF Range, IsBroken
  <2> QED  BY <1>6, <2>1
<1>8. Range(connections) \subseteq Conns /\ connections \in Seq(Conns)
      BY RangeOfSeq DEF TypeOK
<1> HIDE DEF usable, looked, dropped, taken, dropIdle
<1>9. captured' = taken /\ UNCHANGED <<dropLeft, poolSize>>
      BY <1>1, <1>2
<1>10. /\ connections' \in Seq(Conns)
       /\ Range(connections') = Range(connections) \ (dropped \cup {captured'})
       /\ IsInjective(connections) => IsInjective(connections')
       BY <1>1, <1>8, <1>9, WithoutProperties
<1>11. object' = [c \in Conns |-> IF c \in dropped THEN "deleted" ELSE object[c]]
       BY <1>1, <1>2 DEF Deleted
<1>12. \/ captured' = nullptr /\ maintain' = "sleep"
       \/ captured' \in Range(connections) \ dropped /\ maintain' = "ping"
       BY <1>1, <1>2, <1>7, <1>8, <1>9, NullAssumption
<1> QED  BY <1>6, <1>9, <1>10, <1>11, <1>12

-----------------------------------------------------------------------------
(* The invariant is inductive.                                              *)

LEMMA InitInv == Init => PoolInv
<1> SUFFICES ASSUME Init
             PROVE  PoolInv
    OBVIOUS
<1>1. connections = <<>> /\ Range(connections) = {} /\ IsInjective(connections)
      BY DEF Init, Range, IsInjective
<1>2. broken \in [Conns -> BOOLEAN]
      BY DEF Init
<1>3. TypeOK
      BY <1>2, NullAssumption DEF Init, TypeOK, kIdleDropLimit
<1>4. OwnerInv /\ LifeInv
      BY <1>1, NullAssumption DEF Init, OwnerInv, LifeInv
<1>5. PermitAccounting
  <2>1. Cardinality(permits) <= ConnectingLimit
        BY FS_EmptySet, LimitAssumption DEF Init
  <2> QED  BY <2>1 DEF Init, PermitAccounting
<1>6. BorrowInv /\ MaintainInv /\ StopInv
      BY MinSizeAssumption DEF Init, BorrowInv, MaintainInv, StopInv
<1> QED  BY <1>3, <1>4, <1>5, <1>6 DEF PoolInv

LEMMA TypeStep == PoolInv /\ [Next]_vars => TypeOK'
<1> SUFFICES ASSUME PoolInv, [Next]_vars
             PROVE  TypeOK'
    OBVIOUS
<1>t. TypeOK /\ OwnerInv /\ MaintainInv
      BY DEF PoolInv
<1> USE NullAssumption DEF clientVars, maintainVars, connVars
<1>1. ASSUME NEW c \in Conns, ConnectTask(c) PROVE TypeOK'
  <2>1. CASE LaunchConnect(c)
        BY <1>t, <2>1 DEF LaunchConnect, TypeOK
  <2>2. CASE GetPermit(c)
        BY <1>t, <2>2 DEF GetPermit, TypeOK
  <2>3. CASE PermitTimeout(c)
        BY <1>t, <2>3 DEF PermitTimeout, TypeOK
  <2>4. CASE Connected(c)
        BY <1>t, <2>4 DEF Connected, TypeOK
  <2>5. CASE ConnectFails(c)
        BY <1>t, <2>5 DEF ConnectFails, Deleted, TypeOK
  <2>6. CASE PushConnected(c)
    <3>1. c \notin Range(connections)
          BY <1>t, <2>6 DEF PushConnected, OwnerInv
    <3>2. connections' \in Seq(Conns)
          BY <1>t, <2>6, <3>1, PushEffect DEF PushConnected, TypeOK
    <3>3. object' \in [Conns -> {"absent", "alive", "deleted", "closed"}]
          BY <1>t, <2>6, <3>1, PushEffect DEF PushConnected, TypeOK
    <3> QED  BY <1>t, <2>6, <3>2, <3>3 DEF PushConnected, TypeOK
  <2> QED  BY <1>1, <2>1, <2>2, <2>3, <2>4, <2>5, <2>6 DEF ConnectTask
<1>2. ASSUME NEW c \in Conns,
             ReaderBreaks(c) \/ ReaderEndsSilently(c) \/ CloseTask(c)
      PROVE  TypeOK'
      BY <1>t, <1>2, ZenonT(60) DEF ReaderBreaks, ReaderEndsSilently, CloseTask,
                        CloseReader, FinishClose, TypeOK
<1>3. ASSUME NEW k \in Clients, Acquire(k) PROVE TypeOK'
  <2>1. connections' \in Seq(Conns) /\ Range(connections') \subseteq Conns
        BY <1>t, <1>3, AcquireEffect, RangeOfSeq
  <2>2. object' \in [Conns -> {"absent", "alive", "deleted", "closed"}]
        BY <1>t, <1>3, AcquireEffect DEF TypeOK
  <2>3. /\ client' \in [Clients -> {"idle", "chosen", "inflight"}]
        /\ ptr' \in [Clients -> Conns \cup {nullptr}]
        /\ \A d \in Clients : client'[d] = "idle" <=> ptr'[d] = nullptr
        BY <1>t, <1>3, <2>1, AcquireEffect DEF TypeOK
  <2>4. /\ UNCHANGED <<pool, permits, task, broken, reader, maintainVars>>
        /\ crash' \in {"none", "null", "dangling"}
        BY <1>t, <1>3 DEF Acquire, TypeOK
  <2> QED  BY <1>t, <2>1, <2>2, <2>3, <2>4 DEF TypeOK
<1>4. ASSUME NEW k \in Clients, BeginCall(k) \/ NextCall(k) \/ Return(k)
      PROVE  TypeOK'
      BY <1>t, <1>4 DEF BeginCall, NextCall, Return, TypeOK
<1>5. ASSUME NEW k \in Clients, TimeOut(k) PROVE TypeOK'
      BY <1>t, <1>5 DEF TimeOut, TypeOK
<1>6. ASSUME NEW k \in Clients, UseAfterFree(k) PROVE TypeOK'
      BY <1>t, <1>6 DEF UseAfterFree, TypeOK
<1>7. CASE StartMaintainTask
      BY <1>t, <1>7 DEF StartMaintainTask, TypeOK, MaintainInv
<1>8. CASE MaintainStart
      BY <1>t, <1>8 DEF MaintainStart, TypeOK, kIdleDropLimit
<1>9. CASE MaintainEnd \/ PingAnswered \/ PingEscapes
      BY <1>t, <1>9 DEF MaintainEnd, PingAnswered, PingEscapes, TypeOK
<1>10. CASE PingTimesOut
      BY <1>t, <1>10 DEF PingTimesOut, TypeOK
<1>11. CASE AcquireImmediate
  <2>1. /\ connections' \in Seq(Conns) /\ Range(connections) \subseteq Conns
        /\ UNCHANGED <<dropLeft, poolSize>>
        BY <1>t, <1>11, AcquireImmediateEffect, RangeOfSeq DEF TypeOK
  <2>2. object' \in [Conns -> {"absent", "alive", "deleted", "closed"}]
        BY <1>t, <1>11, AcquireImmediateEffect DEF TypeOK
  <2>3. \/ captured' = nullptr /\ maintain' = "sleep"
        \/ captured' \in Conns /\ maintain' = "ping"
        BY <1>t, <1>11, <2>1, AcquireImmediateEffect
  <2>4. UNCHANGED <<pool, permits, task, broken, reader, clientVars, crash>>
        BY <1>11 DEF AcquireImmediate
  <2> QED  BY <1>t, <2>1, <2>2, <2>3, <2>4 DEF TypeOK
<1>12. CASE Release
  <2>1. captured \in Conns /\ captured \notin Range(connections)
        BY <1>t, <1>12 DEF Release, OwnerInv, TypeOK
  <2>2. /\ connections' \in Seq(Conns)
        /\ object' \in [Conns -> {"absent", "alive", "deleted", "closed"}]
        BY <1>t, <1>12, <2>1, PushEffect DEF Release, TypeOK
  <2>3. poolSize' \in Nat
        BY <1>t, <1>12 DEF Release, MaintainInv, TypeOK
  <2> QED  BY <1>t, <1>12, <2>2, <2>3 DEF Release, TypeOK
<1>13. CASE Destroy \/ StopMaintain \/ Destroyed
      BY <1>t, <1>13 DEF Destroy, StopMaintain, Destroyed, TypeOK
<1>14. CASE Clear
      BY <1>t, <1>14 DEF Clear, Deleted, TypeOK
<1>15. CASE UNCHANGED vars
      BY <1>t, <1>15 DEF vars, TypeOK
<1> QED
  BY <1>1, <1>2, <1>3, <1>4, <1>5, <1>6, <1>7, <1>8, <1>9, <1>10, <1>11,
     <1>12, <1>13, <1>14, <1>15
     DEF Next, ClientStep, MaintainRound, Shutdown

(* A connection changes hands in one step, whoever else is at the vector. *)
LEMMA OwnerStep == PoolInv /\ [Next]_vars => OwnerInv'
<1> SUFFICES ASSUME PoolInv, [Next]_vars
             PROVE  OwnerInv'
    OBVIOUS
<1>t. TypeOK /\ OwnerInv /\ LifeInv /\ MaintainInv
      BY DEF PoolInv
<1>r. Range(connections) \subseteq Conns
      BY <1>t, RangeOfSeq DEF TypeOK
<1> USE NullAssumption DEF clientVars, maintainVars, connVars
<1>0. CASE /\ UNCHANGED <<connections, captured>>
           /\ \A c \in Conns : /\ task'[c] = "push" <=> task[c] = "push"
                               /\ object'[c] = "alive" <=> object[c] = "alive"
      BY <1>t, <1>r, <1>0 DEF OwnerInv, TypeOK
<1>1. ASSUME NEW c \in Conns,
             \/ LaunchConnect(c) \/ GetPermit(c) \/ PermitTimeout(c)
             \/ ReaderBreaks(c) \/ ReaderEndsSilently(c) \/ CloseTask(c)
      PROVE  OwnerInv'
  <2>1. UNCHANGED <<connections, captured>>
        BY <1>1 DEF LaunchConnect, GetPermit, PermitTimeout, ReaderBreaks,
                    ReaderEndsSilently, CloseTask, CloseReader, FinishClose
  <2>2. \A d \in Conns : /\ task'[d] = "push" <=> task[d] = "push"
                         /\ object'[d] = "alive" <=> object[d] = "alive"
        BY <1>t, <1>1 DEF LaunchConnect, GetPermit, PermitTimeout, ReaderBreaks,
                          ReaderEndsSilently, CloseTask, CloseReader,
                          FinishClose, TypeOK
  <2> QED  BY <1>0, <2>1, <2>2
<1>2. ASSUME NEW c \in Conns, Connected(c) PROVE OwnerInv'
  <2>1. object[c] = "absent" /\ c \notin Range(connections) /\ captured # c
        BY <1>t, <1>2 DEF Connected, LifeInv, OwnerInv
  <2>2. /\ object' = [object EXCEPT ![c] = "alive"]
        /\ task' = [task EXCEPT ![c] = "push"]
        /\ UNCHANGED <<connections, captured>>
        BY <1>2 DEF Connected
  <2> QED  BY <1>t, <1>r, <2>1, <2>2 DEF OwnerInv, TypeOK
<1>3. ASSUME NEW c \in Conns, ConnectFails(c) PROVE OwnerInv'
  <2>1. object[c] = "absent" /\ task[c] = "connect"
        BY <1>t, <1>3 DEF ConnectFails, LifeInv
  <2>2. /\ object' = [object EXCEPT ![c] = "deleted"]
        /\ task' = [task EXCEPT ![c] = "done"]
        /\ UNCHANGED <<connections, captured>>
        BY <1>t, <1>3 DEF ConnectFails, Deleted, TypeOK
  <2> QED  BY <1>0, <1>t, <2>1, <2>2 DEF TypeOK
<1>4. ASSUME NEW c \in Conns, PushConnected(c) PROVE OwnerInv'
  <2>1. task[c] = "push" /\ c \notin Range(connections) /\ captured # c
        BY <1>t, <1>4 DEF PushConnected, OwnerInv
  <2>2. task' = [task EXCEPT ![c] = "done"] /\ UNCHANGED captured
        BY <1>4 DEF PushConnected
  <2>3. \/ /\ UNCHANGED connections
           /\ object' = [object EXCEPT ![c] = "deleted"]
        \/ /\ UNCHANGED object
           /\ Range(connections') = Range(connections) \cup {c}
           /\ IsInjective(connections')
        BY <1>t, <1>4, <2>1, PushEffect DEF PushConnected, OwnerInv
  <2> QED  BY <1>t, <1>r, <2>1, <2>2, <2>3 DEF OwnerInv, TypeOK
<1>5. ASSUME NEW k \in Clients, Acquire(k) PROVE OwnerInv'
  <2>1. /\ Range(connections') = {c \in Range(connections) : ~broken[c]}
        /\ IsInjective(connections')
        /\ object' = [c \in Conns |-> IF c \in Range(connections) /\ broken[c]
                                      THEN "deleted" ELSE object[c]]
        BY <1>t, <1>5, AcquireEffect DEF OwnerInv
  <2>2. UNCHANGED <<task, captured>>
        BY <1>5 DEF Acquire
  <2> QED  BY <1>t, <1>r, <2>1, <2>2 DEF OwnerInv, TypeOK
<1>6. CASE AcquireImmediate
  <2>1. PICK dropped \in SUBSET Range(connections) :
           /\ object' = [c \in Conns |-> IF c \in dropped THEN "deleted"
                                         ELSE object[c]]
           /\ Range(connections') = Range(connections) \ (dropped \cup {captured'})
           /\ IsInjective(connections')
           /\ \/ captured' = nullptr
              \/ captured' \in Range(connections) \ dropped
        BY <1>t, <1>6, AcquireImmediateEffect DEF OwnerInv
  <2>2. captured = nullptr /\ UNCHANGED task
        BY <1>t, <1>6 DEF AcquireImmediate, TypeOK
  <2> QED  BY <1>t, <1>r, <2>1, <2>2 DEF OwnerInv, TypeOK
<1>7. CASE Release
  <2>1. /\ captured \in Conns /\ captured \notin Range(connections)
        /\ task[captured] # "push"
        BY <1>t, <1>7 DEF Release, OwnerInv, TypeOK
  <2>2. captured' = nullptr /\ UNCHANGED task
        BY <1>7 DEF Release
  <2>3. \/ /\ UNCHANGED connections
           /\ object' = [object EXCEPT ![captured] = "deleted"]
        \/ /\ UNCHANGED object
           /\ Range(connections') = Range(connections) \cup {captured}
           /\ IsInjective(connections')
        BY <1>t, <1>7, <2>1, PushEffect DEF Release, OwnerInv
  <2> QED  BY <1>t, <1>r, <2>1, <2>2, <2>3 DEF OwnerInv, TypeOK
<1>8. CASE Clear
  <2>1. Range(connections') = {} /\ IsInjective(connections')
        BY <1>8 DEF Clear, Range, IsInjective
  <2>2. /\ object' = [c \in Conns |-> IF c \in Range(connections) THEN "deleted"
                                      ELSE object[c]]
        /\ \A c \in Conns : task[c] = "done"
        /\ UNCHANGED <<task, captured>>
        BY <1>8 DEF Clear, Deleted
  <2> QED  BY <1>t, <1>r, <2>1, <2>2 DEF OwnerInv, TypeOK
<1>9. CASE UNCHANGED <<connections, captured, task, object>>
      BY <1>0, <1>9
<1> QED
  BY <1>1, <1>2, <1>3, <1>4, <1>5, <1>6, <1>7, <1>8, <1>9
     DEF Next, ConnectTask, ClientStep, BeginCall, NextCall, Return, TimeOut,
         UseAfterFree, StartMaintainTask, MaintainStart, MaintainRound,
         MaintainEnd, PingAnswered, PingTimesOut, PingEscapes, Destroy,
         Shutdown, StopMaintain, Destroyed, vars

(* An object that is in the vector or with Maintain is past its connect     *)
(* task, so deleting it leaves LifeInv and the permits alone.               *)
LEMMA DeletingKeepsLife ==
  ASSUME TypeOK, LifeInv, PermitAccounting,
         NEW gone \in SUBSET Conns,
         \A c \in gone : object[c] = "alive",
         object' = [c \in Conns |-> IF c \in gone THEN "deleted" ELSE object[c]],
         \A c \in Conns :
            \/ task'[c] = task[c]
            \/ task[c] = "push" /\ task'[c] = "done",
         UNCHANGED <<permits, reader>>
  PROVE  LifeInv' /\ PermitAccounting'
<1>1. LifeInv'
      BY DEF LifeInv, TypeOK
<1>2. PermitAccounting'
      BY DEF PermitAccounting, TypeOK
<1> QED  BY <1>1, <1>2

LEMMA LifeStep == PoolInv /\ [Next]_vars => LifeInv' /\ PermitAccounting'
<1> SUFFICES ASSUME PoolInv, [Next]_vars
             PROVE  LifeInv' /\ PermitAccounting'
    OBVIOUS
<1>t. TypeOK /\ OwnerInv /\ LifeInv /\ PermitAccounting /\ MaintainInv
      BY DEF PoolInv
<1>r. Range(connections) \subseteq Conns
      BY <1>t, RangeOfSeq DEF TypeOK
<1>f. IsFiniteSet(permits) /\ Cardinality(permits) \in Nat
      BY <1>t, ConnsFinite, FS_Subset, FS_CardinalityType DEF TypeOK
<1> USE LimitAssumption DEF clientVars, maintainVars, connVars
<1>1. ASSUME NEW c \in Conns, LaunchConnect(c) \/ GetPermit(c),
             PermitAvailable
      PROVE  LifeInv' /\ PermitAccounting'
  <2>1. /\ permits' = permits \cup {c} /\ task' = [task EXCEPT ![c] = "connect"]
        /\ task[c] \in {"none", "permit"} /\ UNCHANGED <<object, reader>>
        BY <1>1 DEF LaunchConnect, GetPermit
  <2>2. c \notin permits
        BY <1>t, <2>1 DEF LifeInv, PermitAccounting
  <2>3. Cardinality(permits') = Cardinality(permits) + 1
        BY <1>f, <2>1, <2>2, FS_AddElement
  <2>4. ConnectingLimit # 0 => Cardinality(permits') <= ConnectingLimit
        BY <1>1, <1>f, <2>3 DEF PermitAvailable
  <2>5. LifeInv'
        BY <1>t, <2>1 DEF LifeInv, TypeOK
  <2> QED  BY <1>t, <2>1, <2>4, <2>5 DEF PermitAccounting, TypeOK
<1>2. ASSUME NEW c \in Conns,
             (LaunchConnect(c) /\ ~PermitAvailable) \/ PermitTimeout(c)
      PROVE  LifeInv' /\ PermitAccounting'
  <2>1. /\ task[c] \in {"none", "permit"} /\ UNCHANGED <<permits, object, reader>>
        /\ \E t \in {"permit", "done"} : task' = [task EXCEPT ![c] = t]
        BY <1>2 DEF LaunchConnect, PermitTimeout
  <2> QED  BY <1>t, <2>1 DEF LifeInv, PermitAccounting, TypeOK
<1>3. ASSUME NEW c \in Conns, Connected(c) PROVE LifeInv' /\ PermitAccounting'
  <2>1. /\ task[c] = "connect" /\ UNCHANGED permits
        /\ object' = [object EXCEPT ![c] = "alive"]
        /\ reader' = [reader EXCEPT ![c] = "running"]
        /\ task' = [task EXCEPT ![c] = "push"]
        BY <1>3 DEF Connected
  <2>2. LifeInv'
        BY <1>t, <2>1 DEF LifeInv, TypeOK
  <2> QED  BY <1>t, <2>1, <2>2 DEF PermitAccounting, TypeOK
<1>4. ASSUME NEW c \in Conns, ConnectFails(c) PROVE LifeInv' /\ PermitAccounting'
  <2>1. /\ task[c] = "connect" /\ UNCHANGED <<permits, reader>>
        /\ object' = [object EXCEPT ![c] = "deleted"]
        /\ task' = [task EXCEPT ![c] = "done"]
        BY <1>t, <1>4 DEF ConnectFails, Deleted, TypeOK
  <2>2. LifeInv'
        BY <1>t, <2>1 DEF LifeInv, TypeOK
  <2> QED  BY <1>t, <2>1, <2>2 DEF PermitAccounting, TypeOK
<1>5. ASSUME NEW c \in Conns, PushConnected(c) PROVE LifeInv' /\ PermitAccounting'
  <2>1. /\ task[c] = "push" /\ object[c] = "alive" /\ c \notin Range(connections)
        /\ task' = [task EXCEPT ![c] = "done"] /\ UNCHANGED <<permits, reader>>
        BY <1>t, <1>5 DEF PushConnected, OwnerInv
  <2>2. \E gone \in {{}, {c}} :
           object' = [d \in Conns |-> IF d \in gone THEN "deleted" ELSE object[d]]
        BY <1>t, <1>5, <2>1, PushEffect DEF PushConnected, TypeOK
  <2> QED  BY <1>t, <2>1, <2>2, DeletingKeepsLife DEF TypeOK
<1>6. ASSUME NEW c \in Conns,
             ReaderBreaks(c) \/ ReaderEndsSilently(c) \/ CloseReader(c)
      PROVE  LifeInv' /\ PermitAccounting'
  <2>1. /\ object[c] # "absent" /\ reader' = [reader EXCEPT ![c] = "exited"]
        /\ UNCHANGED <<permits, task, object>>
        BY <1>6 DEF ReaderBreaks, ReaderEndsSilently, CloseReader
  <2> QED  BY <1>t, <2>1 DEF LifeInv, PermitAccounting, TypeOK
<1>7. ASSUME NEW c \in Conns, FinishClose(c) PROVE LifeInv' /\ PermitAccounting'
  <2>1. /\ object[c] = "deleted" /\ reader[c] # "running"
        /\ object' = [object EXCEPT ![c] = "closed"]
        /\ permits' = permits \ {c} /\ UNCHANGED <<task, reader>>
        BY <1>7 DEF FinishClose
  <2>2. LifeInv'
        BY <1>t, <2>1 DEF LifeInv, TypeOK
  <2>3. task[c] # "connect"
        BY <1>t, <2>1 DEF LifeInv
  <2>4. Cardinality(permits') <= Cardinality(permits) /\ Cardinality(permits') \in Nat
    <3>1. permits' \subseteq permits
          BY <2>1
    <3>2. IsFiniteSet(permits') /\ Cardinality(permits') <= Cardinality(permits)
          BY <1>f, <3>1, FS_Subset
    <3> QED  BY <3>2, FS_CardinalityType
  <2> QED  BY <1>t, <1>f, <2>1, <2>2, <2>3, <2>4 DEF PermitAccounting, TypeOK
<1>8. ASSUME NEW k \in Clients, Acquire(k) PROVE LifeInv' /\ PermitAccounting'
  <2> DEFINE gone == {c \in Range(connections) : broken[c]}
  <2>1. /\ object' = [c \in Conns |-> IF c \in gone THEN "deleted" ELSE object[c]]
        /\ UNCHANGED <<permits, task, reader>>
        BY <1>t, <1>8, AcquireEffect DEF Acquire
  <2>2. gone \in SUBSET Conns /\ \A c \in gone : object[c] = "alive"
        BY <1>t, <1>r DEF OwnerInv
  <2> QED  BY <1>t, <2>1, <2>2, DeletingKeepsLife
<1>9. CASE AcquireImmediate
  <2>1. PICK gone \in SUBSET Range(connections) :
           object' = [c \in Conns |-> IF c \in gone THEN "deleted" ELSE object[c]]
        BY <1>t, <1>9, AcquireImmediateEffect
  <2>2. UNCHANGED <<permits, task, reader>>
        BY <1>9 DEF AcquireImmediate
  <2>3. gone \in SUBSET Conns /\ \A c \in gone : object[c] = "alive"
        BY <1>t, <1>r DEF OwnerInv
  <2> QED  BY <1>t, <2>1, <2>2, <2>3, DeletingKeepsLife
<1>10. CASE Release
  <2>1. /\ captured \in Conns /\ captured \notin Range(connections)
        /\ object[captured] = "alive" /\ UNCHANGED <<permits, task, reader>>
        BY <1>t, <1>10 DEF Release, OwnerInv, TypeOK
  <2>2. \E gone \in {{}, {captured}} :
           object' = [d \in Conns |-> IF d \in gone THEN "deleted" ELSE object[d]]
        BY <1>t, <1>10, <2>1, PushEffect DEF Release, TypeOK
  <2> QED  BY <1>t, <2>1, <2>2, DeletingKeepsLife
<1>11. CASE Clear
  <2>1. /\ object' = [c \in Conns |-> IF c \in Range(connections) THEN "deleted"
                                      ELSE object[c]]
        /\ UNCHANGED <<permits, task, reader>>
        BY <1>11 DEF Clear, Deleted
  <2>2. \A c \in Range(connections) : object[c] = "alive"
        BY <1>t, <1>r DEF OwnerInv
  <2> QED  BY <1>t, <1>r, <2>1, <2>2, DeletingKeepsLife
<1>12. CASE UNCHANGED <<permits, task, object, reader>>
      BY <1>t, <1>12 DEF LifeInv, PermitAccounting
<1> QED
  BY <1>1, <1>2, <1>3, <1>4, <1>5, <1>6, <1>7, <1>8, <1>9, <1>10, <1>11, <1>12
     DEF Next, ConnectTask, GetPermit, CloseTask, ClientStep, BeginCall,
         NextCall, Return, TimeOut, UseAfterFree, StartMaintainTask,
         MaintainStart, MaintainRound, MaintainEnd, PingAnswered, PingTimesOut,
         PingEscapes, Destroy, Shutdown, StopMaintain, Destroyed, vars

(* Only a connection marked broken is deleted, but for Clear, which finds   *)
(* no client left.                                                          *)
LEMMA OnlyBrokenAreDeleted ==
  ASSUME PoolInv, [Next]_vars, ~Clear, NEW c \in Conns
  PROVE  /\ object[c] = "alive" => object'[c] = "alive" \/ broken[c]
         /\ object[c] # "absent" => object'[c] # "absent"
<1>t. TypeOK /\ OwnerInv /\ LifeInv /\ MaintainInv
      BY DEF PoolInv
<1> USE DEF clientVars, maintainVars, connVars
<1>1. ASSUME NEW d \in Conns, Connected(d) \/ ConnectFails(d)
      PROVE  object[d] = "absent" /\ \E o \in {"alive", "deleted"} :
                                        object' = [object EXCEPT ![d] = o]
      BY <1>t, <1>1 DEF Connected, ConnectFails, Deleted, LifeInv, TypeOK
<1>2. ASSUME NEW d \in Conns, FinishClose(d)
      PROVE  object[d] = "deleted" /\ object' = [object EXCEPT ![d] = "closed"]
      BY <1>2 DEF FinishClose
<1>3. ASSUME NEW d \in Conns, PushConnected(d)
      PROVE  UNCHANGED object \/ (broken[d] /\ object' = [object EXCEPT ![d] = "deleted"])
      BY <1>t, <1>3, PushEffect DEF PushConnected, OwnerInv
<1>4. ASSUME Release
      PROVE  \/ UNCHANGED object
             \/ \E d \in Conns : broken[d] /\ object' = [object EXCEPT ![d] = "deleted"]
  <2>1. captured \in Conns /\ captured \notin Range(connections)
        BY <1>t, <1>4 DEF Release, OwnerInv, TypeOK
  <2> QED  BY <1>t, <1>4, <2>1, PushEffect DEF Release
<1>5. ASSUME NEW k \in Clients, Acquire(k)
      PROVE  object' = [d \in Conns |-> IF d \in Range(connections) /\ broken[d]
                                        THEN "deleted" ELSE object[d]]
      BY <1>t, <1>5, AcquireEffect
<1>6. ASSUME AcquireImmediate
      PROVE  \E dropped \in SUBSET Range(connections) :
                /\ \A d \in dropped : broken[d]
                /\ object' = [d \in Conns |-> IF d \in dropped THEN "deleted"
                                              ELSE object[d]]
      BY <1>t, <1>6, AcquireImmediateEffect
<1>7. \/ \E d \in Conns : \/ Connected(d) \/ ConnectFails(d)
                          \/ FinishClose(d) \/ PushConnected(d)
      \/ Release \/ AcquireImmediate
      \/ \E k \in Clients : Acquire(k)
      \/ UNCHANGED object
      BY DEF Next, ConnectTask, LaunchConnect, GetPermit, PermitTimeout,
             ReaderBreaks, ReaderEndsSilently, CloseTask, CloseReader,
             ClientStep, BeginCall, NextCall, Return, TimeOut, UseAfterFree,
             StartMaintainTask, MaintainStart, MaintainRound, MaintainEnd,
             PingAnswered, PingTimesOut, PingEscapes, Destroy, Shutdown,
             StopMaintain, Destroyed, vars
<1> QED
  BY <1>t, <1>1, <1>2, <1>3, <1>4, <1>5, <1>6, <1>7 DEF TypeOK

(* A connection once marked stays marked. *)
LEMMA BrokenStays ==
  ASSUME TypeOK, [Next]_vars, NEW c \in Conns, broken[c]
  PROVE  broken'[c]
<1>1. \/ UNCHANGED broken
      \/ \E d : broken' = [broken EXCEPT ![d] = TRUE]
      BY DEF Next, ConnectTask, LaunchConnect, GetPermit, PermitTimeout,
             Connected, ConnectFails, PushConnected, ReaderBreaks,
             ReaderEndsSilently, CloseTask, CloseReader, FinishClose,
             ClientStep, Acquire, BeginCall, NextCall, Return, TimeOut,
             UseAfterFree, StartMaintainTask, MaintainStart, MaintainRound,
             MaintainEnd, AcquireImmediate, PingAnswered, PingTimesOut,
             PingEscapes, Release, Destroy, Shutdown, StopMaintain, Clear,
             Destroyed, vars, connVars
<1> QED  BY <1>1 DEF TypeOK

(* No step takes a connection that works away from a client. *)
LEMMA BorrowStep == PoolInv /\ [Next]_vars => BorrowInv'
<1> SUFFICES ASSUME PoolInv, [Next]_vars
             PROVE  BorrowInv'
    OBVIOUS
<1>t. TypeOK /\ OwnerInv /\ BorrowInv
      BY DEF PoolInv
<1>r. Range(connections) \subseteq Conns
      BY <1>t, RangeOfSeq DEF TypeOK
<1> USE DEF clientVars, maintainVars, connVars
<1> DEFINE Safe(c) == object[c] # "absent" /\ (object[c] = "alive" \/ broken[c])
           SafeNext(c) == object'[c] # "absent" /\ (object'[c] = "alive" \/ broken'[c])
<1>1. CASE Clear
  <2>1. (\A k \in Clients : client[k] = "idle") /\ UNCHANGED client
        BY <1>t, <1>1 DEF Clear, BorrowInv
  <2> QED  BY <2>1 DEF BorrowInv
<1>2. CASE ~Clear
  <2>1. \A c \in Conns : Safe(c) => SafeNext(c)
    <3> TAKE c \in Conns
    <3>1. /\ object[c] = "alive" => object'[c] = "alive" \/ broken[c]
          /\ object[c] # "absent" => object'[c] # "absent"
          BY <1>2, OnlyBrokenAreDeleted
    <3>2. broken[c] => broken'[c]
          BY <1>t, BrokenStays
    <3> QED  BY <3>1, <3>2, Zenon
  <2> HIDE DEF Safe, SafeNext
  <2>2. \A k \in Clients : client[k] # "idle" => ptr[k] \in Conns /\ Safe(ptr[k])
        BY <1>t DEF BorrowInv, TypeOK, Safe
  <2>3. ASSUME NEW k \in Clients, Acquire(k) PROVE BorrowInv'
    <3>1. pool = "running" /\ UNCHANGED pool
          BY <2>3 DEF Acquire
    <3>2. ASSUME NEW c \in Range(connections') PROVE c \in Conns /\ SafeNext(c)
      <4>1. c \in Range(connections) /\ ~broken[c]
            BY <1>t, <2>3, <3>2, AcquireEffect
      <4>2. object[c] = "alive"
            BY <1>t, <1>r, <4>1 DEF OwnerInv
      <4>3. Safe(c)
            BY <4>2 DEF Safe
      <4> QED  BY <1>r, <2>1, <4>1, <4>3
    <3>3. \/ UNCHANGED <<client, ptr>>
          \/ \E c \in Range(connections') :
                /\ ptr' = [ptr EXCEPT ![k] = c]
                /\ client' = [client EXCEPT ![k] = "chosen"]
          BY <1>t, <2>3, AcquireEffect
    <3>4. \A j \in Clients : client'[j] # "idle" => ptr'[j] \in Conns /\ SafeNext(ptr'[j])
          BY <1>t, <2>1, <2>2, <3>2, <3>3 DEF TypeOK
    <3> QED  BY <3>1, <3>4 DEF BorrowInv, SafeNext
  <2>4. CASE \A k \in Clients : client'[k] # "idle" =>
                client[k] # "idle" /\ ptr'[k] = ptr[k]
    <3>1. \A k \in Clients : client'[k] # "idle" => SafeNext(ptr'[k])
          BY <2>1, <2>2, <2>4
    <3>2. pool' # "running" =>
             pool # "running" \/ \A k \in Clients : client[k] = "idle"
          BY DEF Next, ConnectTask, LaunchConnect, GetPermit, PermitTimeout,
             Connected, ConnectFails, PushConnected, ReaderBreaks,
             ReaderEndsSilently, CloseTask, CloseReader, FinishClose,
             ClientStep, Acquire, BeginCall, NextCall, Return, TimeOut,
             UseAfterFree, StartMaintainTask, MaintainStart, MaintainRound,
             MaintainEnd, AcquireImmediate, PingAnswered, PingTimesOut,
             PingEscapes, Release, Destroy, Shutdown, StopMaintain, Clear,
             Destroyed, vars
    <3>3. pool' # "running" => \A k \in Clients : client'[k] = "idle"
          BY <1>t, <2>4, <3>2 DEF BorrowInv
    <3> QED  BY <3>1, <3>3 DEF BorrowInv, SafeNext
  <2>5. ASSUME NEW k \in Clients,
               BeginCall(k) \/ NextCall(k) \/ Return(k) \/ TimeOut(k)
        PROVE  \A j \in Clients : client'[j] # "idle" =>
                  client[j] # "idle" /\ ptr'[j] = ptr[j]
        BY <1>t, <2>5 DEF BeginCall, NextCall, Return, TimeOut, TypeOK
  <2>6. \/ \E k \in Clients : \/ Acquire(k) \/ BeginCall(k) \/ NextCall(k)
                              \/ Return(k) \/ TimeOut(k)
        \/ UNCHANGED <<client, ptr>>
        BY DEF Next, ConnectTask, LaunchConnect, GetPermit, PermitTimeout,
             Connected, ConnectFails, PushConnected, ReaderBreaks,
             ReaderEndsSilently, CloseTask, CloseReader, FinishClose,
             ClientStep, UseAfterFree, StartMaintainTask, MaintainStart,
             MaintainRound, MaintainEnd, AcquireImmediate, PingAnswered,
             PingTimesOut, PingEscapes, Release, Destroy, Shutdown,
             StopMaintain, Clear, Destroyed, vars
  <2> QED  BY <2>3, <2>4, <2>5, <2>6
<1> QED  BY <1>1, <1>2

LEMMA MaintainStep == PoolInv /\ [Next]_vars => MaintainInv'
<1> SUFFICES ASSUME PoolInv, [Next]_vars
             PROVE  MaintainInv'
    OBVIOUS
<1>t. TypeOK /\ OwnerInv /\ MaintainInv
      BY DEF PoolInv
<1> USE MinSizeAssumption DEF clientVars, maintainVars, connVars
<1>1. CASE MaintainStart
  <2>1. Len(connections) <= MinSize
        BY <1>t, DistinctBounded DEF TypeOK, OwnerInv
  <2> QED  BY <1>1, <2>1 DEF MaintainStart, MaintainInv
<1>2. CASE AcquireImmediate
  <2>1. UNCHANGED poolSize
        BY <1>t, <1>2, AcquireImmediateEffect
  <2> QED  BY <1>t, <1>2, <2>1 DEF AcquireImmediate, MaintainInv
<1>3. CASE Release
  <2>1. poolSize' <= MinSize
        BY <1>t, <1>3 DEF Release, MaintainInv, TypeOK
  <2> QED  BY <1>t, <1>3, <2>1 DEF Release, MaintainInv
<1>4. CASE MaintainEnd \/ PingAnswered \/ PingTimesOut \/ PingEscapes
      BY <1>t, <1>4 DEF MaintainEnd, PingAnswered, PingTimesOut, PingEscapes,
                        MaintainInv
<1>5. CASE StartMaintainTask \/ Destroy \/ Shutdown
      BY <1>t, <1>5 DEF StartMaintainTask, Destroy, Shutdown, StopMaintain,
                        Clear, Destroyed, MaintainInv
<1>6. CASE UNCHANGED <<pool, maintain, poolSize>>
      BY <1>t, <1>6 DEF MaintainInv
<1> QED
  BY <1>1, <1>2, <1>3, <1>4, <1>5, <1>6
     DEF Next, ConnectTask, LaunchConnect, GetPermit, PermitTimeout, Connected,
         ConnectFails, PushConnected, ReaderBreaks, ReaderEndsSilently,
         CloseTask, CloseReader, FinishClose, ClientStep, Acquire, BeginCall,
         NextCall, Return, TimeOut, UseAfterFree, MaintainRound, vars

(* After Clear nobody is left to put a connection into the vector or to     *)
(* delete one.                                                              *)
LEMMA StopStep == PoolInv /\ [Next]_vars => StopInv'
<1> SUFFICES ASSUME PoolInv, [Next]_vars
             PROVE  StopInv'
    OBVIOUS
<1>t. TypeOK /\ MaintainInv /\ StopInv
      BY DEF PoolInv
<1> USE DEF clientVars, maintainVars, connVars
<1>1. CASE pool \notin {"clearing", "destroyed"}
  <2>1. CASE Clear
        BY <2>1 DEF Clear, StopInv
  <2>2. CASE pool' \notin {"clearing", "destroyed"}
        BY <2>2 DEF StopInv
  <2> QED
    BY <1>1, <2>1, <2>2
       DEF Next, ConnectTask, LaunchConnect, GetPermit, PermitTimeout,
           Connected, ConnectFails, PushConnected, ReaderBreaks,
           ReaderEndsSilently, CloseTask, CloseReader, FinishClose, ClientStep,
           Acquire, BeginCall, NextCall, Return, TimeOut, UseAfterFree,
           StartMaintainTask, MaintainStart, MaintainRound, MaintainEnd,
           AcquireImmediate, PingAnswered, PingTimesOut, PingEscapes, Release,
           Destroy, Shutdown, StopMaintain, Destroyed, vars
<1>2. CASE pool \in {"clearing", "destroyed"}
  <2>1. /\ maintain = "off" /\ connections = <<>>
        /\ \A c \in Conns : task[c] = "done"
        BY <1>t, <1>2 DEF MaintainInv, StopInv
  <2>2. \/ UNCHANGED <<connections, task, object>> /\ (UNCHANGED pool \/ Destroyed)
        \/ \E c \in Conns : FinishClose(c)
        BY <1>2, <2>1
           DEF Next, ConnectTask, LaunchConnect, GetPermit, PermitTimeout,
               Connected, ConnectFails, PushConnected, ReaderBreaks,
               ReaderEndsSilently, CloseTask, CloseReader, ClientStep,
               Acquire, BeginCall, NextCall, Return, TimeOut, UseAfterFree,
               StartMaintainTask, MaintainStart, MaintainRound, MaintainEnd,
               AcquireImmediate, PingAnswered, PingTimesOut, PingEscapes,
               Release, Destroy, Shutdown, StopMaintain, Clear, Destroyed, vars
  <2>3. ASSUME NEW c \in Conns, FinishClose(c) PROVE StopInv'
        BY <1>t, <2>3 DEF FinishClose, StopInv, TypeOK
  <2> QED  BY <1>t, <2>1, <2>2, <2>3 DEF Destroyed, StopInv
<1> QED  BY <1>1, <1>2

LEMMA PoolInvariant == Spec => []PoolInv
<1>1. PoolInv /\ [Next]_vars => PoolInv'
      BY TypeStep, OwnerStep, LifeStep, BorrowStep, MaintainStep, StopStep
         DEF PoolInv
<1> QED  BY InitInv, <1>1, PTL DEF Spec

-----------------------------------------------------------------------------
(* The theorems.                                                            *)

(* Every variable of the pool keeps its type, and Maintain has a captured   *)
(* connection exactly while it pings or releases one.                       *)
THEOREM TypeCorrect == Spec => []TypeOK
  BY PoolInvariant, PTL DEF PoolInv

(* Raw pointers are owned as unique_ptr would: a connection that exists has *)
(* exactly one owner (connect task, vector or Maintain), one that has been  *)
(* deleted has none, for any number of connections and clients.             *)
THEOREM EveryConnectionHasOneOwner == Spec => []OneOwner
<1>1. PoolInv => OneOwner
  <2> SUFFICES ASSUME PoolInv, NEW c \in Conns
               PROVE  Cardinality(Owners(c)) = IF object[c] = "alive" THEN 1 ELSE 0
      BY DEF OneOwner
  <2>t. TypeOK /\ OwnerInv
        BY DEF PoolInv
  <2> DEFINE places == {i \in DOMAIN connections : connections[i] = c}
  <2>o. Owners(c) = (IF task[c] = "push" THEN {<<"task">>} ELSE {})
                       \cup {<<"vector", i>> : i \in places}
                       \cup (IF captured = c THEN {<<"maintain">>} ELSE {})
        BY DEF Owners
  <2>m. c \in Range(connections) <=> places # {}
        BY DEF Range
  <2>1. CASE object[c] # "alive"
    <3>1. Owners(c) = {}
          BY <2>t, <2>o, <2>m, <2>1 DEF OwnerInv
    <3> QED  BY <2>1, <3>1, FS_EmptySet
  <2>2. CASE object[c] = "alive" /\ c \in Range(connections)
    <3>1. PICK i \in places : TRUE
          BY <2>2, <2>m
    <3>2. places = {i}
          BY <2>t, <3>1 DEF OwnerInv, IsInjective
    <3>3. task[c] # "push" /\ captured # c
          BY <2>t, <2>2, NullAssumption DEF OwnerInv
    <3>4. Owners(c) = {<<"vector", i>>}
          BY <2>o, <3>2, <3>3
    <3> QED  BY <2>2, <3>4, FS_Singleton
  <2>3. CASE object[c] = "alive" /\ c \notin Range(connections)
    <3>1. places = {}
          BY <2>3, <2>m
    <3>2. \/ task[c] = "push" /\ captured # c
          \/ task[c] # "push" /\ captured = c
          BY <2>t, <2>3, NullAssumption DEF OwnerInv
    <3>3. Owners(c) = {<<"task">>} \/ Owners(c) = {<<"maintain">>}
          BY <2>o, <3>1, <3>2
    <3> QED  BY <2>3, <3>3, FS_Singleton
  <2> QED  BY <2>1, <2>2, <2>3
<1> QED  BY <1>1, PoolInvariant, PTL

(* A permit of _size_semaphore is held from the start of a connection       *)
(* attempt until the close task is over and never lost, and there are never *)
(* more than connecting_limit of them.                                      *)
THEOREM PermitsAreAccountedFor == Spec => []PermitAccounting
  BY PoolInvariant, PTL DEF PoolInv

(* A connection is deleted under a client that has borrowed it from Acquire *)
(* only if it has been marked broken: neither Maintain nor the destructor   *)
(* takes away a connection that works.                                      *)
THEOREM OnlyBrokenDangle == Spec => []DanglingOnlyIfBroken
<1>1. PoolInv => DanglingOnlyIfBroken
      BY DEF PoolInv, BorrowInv, DanglingOnlyIfBroken, Dangling
<1> QED  BY <1>1, PoolInvariant, PTL

(* When ~ConnectionPool is over nothing is left: no connection, no receiver *)
(* that would use one, no permit.                                           *)
THEOREM DestructorLeavesNothing == Spec => []DestroyedIsClean
<1>1. PoolInv => DestroyedIsClean
  <2> SUFFICES ASSUME PoolInv, pool = "destroyed"
               PROVE  /\ permits = {}
                      /\ \A c \in Conns : reader[c] # "running"
                      /\ \A c \in Conns : object[c] \in {"absent", "closed"}
      BY DEF DestroyedIsClean
  <2>1. /\ connections = <<>> /\ \A c \in Conns : task[c] = "done"
        /\ \A c \in Conns : object[c] # "deleted"
        /\ captured = nullptr
        BY DEF PoolInv, StopInv, MaintainInv, TypeOK
  <2>2. Range(connections) = {}
        BY <2>1 DEF Range
  <2>3. \A c \in Conns : object[c] \in {"absent", "closed"}
        BY <2>1, <2>2, NullAssumption DEF PoolInv, OwnerInv, TypeOK
  <2>4. \A c \in Conns : reader[c] # "running"
        BY <2>3 DEF PoolInv, LifeInv
  <2>5. permits = {}
        BY <2>1, <2>3 DEF PoolInv, PermitAccounting, TypeOK
  <2> QED  BY <2>3, <2>4, <2>5
<1> QED  BY <1>1, PoolInvariant, PTL
=============================================================================
