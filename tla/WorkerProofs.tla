---------------------------- MODULE WorkerProofs ----------------------------
(***************************************************************************)
(* Proofs about Worker, for any number of requests, proxy calls, threads   *)
(* and connections.                                                        *)
(*                                                                         *)
(* Where a client is says how many connections it holds. That alone shows  *)
(* that nothing leaks, that whoever is stuck holds at most one, and that a *)
(* dropped session loses one connection at most.                           *)
(***************************************************************************)
EXTENDS Worker, FiniteSetTheorems, TLAPS

\* The types of the variables, without the limit of the pool.
Types ==
  /\ pc \in [Clients -> Working \cup {"idle", "queued", "returned", "closing", "upstream"}]
  /\ held \in [Clients -> 0..2]
  /\ lost \in Nat
  /\ stage \in [Proxies -> {"input", "output"}]
  /\ blocked \in [Proxies -> BOOLEAN]
  /\ failed \in [Clients -> BOOLEAN]

\* What client x may hold where it is, and who can be there.
Holds(x) ==
  /\ pc[x] \in {"connect", "reread", "recount"} => held[x] = 0
  /\ pc[x] \in {"write", "read", "link"} => held[x] = 1
  /\ pc[x] = "seal" <=> held[x] = 2
  /\ pc[x] \in {"queued", "returned", "closing", "recount"} => x \in Requests
  /\ pc[x] = "upstream" => x \in Proxies
  /\ pc[x] \notin {"idle", "connect", "write"} => x # Cleaner
  /\ pc[x] \in {"idle", "queued"} /\ x # Cleaner => held[x] = 0
  /\ pc[x] \in {"idle", "upstream"} /\ held[x] > 0 => failed[x]

HoldInv == Types /\ \A x \in Clients : Holds(x)

\* Where a client goes when it is done with the database.
LEMMA AfterPlace ==
  ASSUME NEW x PROVE After(x) \in {"returned", "upstream", "idle"}
BY DEF After

\* Done and Thrown keep the types of what they assign.
TypedStep ==
  /\ pc' \in [Clients -> Working \cup {"idle", "queued", "returned", "closing", "upstream"}]
  /\ held' \in [Clients -> 0..2]
  /\ lost' \in Nat
  /\ failed' \in [Clients -> BOOLEAN]

LEMMA DoneTyped == ASSUME Types, NEW x \in Clients, Done(x) PROVE TypedStep
<1>1. pc' \in [Clients -> Working \cup {"idle", "queued", "returned", "closing", "upstream"}]
  BY AfterPlace DEF Types, Done, Goto
<1>2. (IF x \in Requests /\ held[x] > 0 THEN 1 ELSE 0) \in 0..2
  OBVIOUS
<1>3. held' \in [Clients -> 0..2]
  BY <1>2 DEF Types, Done, Hold
<1> QED
  BY <1>1, <1>3 DEF TypedStep, Types, Done, Failed

LEMMA DropTyped ==
  ASSUME Types, NEW x \in Clients, Drop(x)
  PROVE  held' \in [Clients -> 0..2] /\ lost' \in Nat
BY DEF Types, Drop, Hold

LEMMA ThrownTyped == ASSUME Types, NEW x \in Clients, Thrown(x) PROVE TypedStep
<1>1. pc' \in [Clients -> Working \cup {"idle", "queued", "returned", "closing", "upstream"}]
  BY AfterPlace DEF Types, Thrown, Goto
<1>2. held' \in [Clients -> 0..2] /\ lost' \in Nat
  BY DropTyped DEF Types, Thrown
<1> QED
  BY <1>1, <1>2 DEF TypedStep, Types, Thrown, Failed

LEMMA HoldInit == Init => HoldInv
BY ConstantsAssumption DEF Init, HoldInv, Types, Holds, Clients

LEMMA HoldStep == HoldInv /\ [Next]_vars => HoldInv'
<1> SUFFICES ASSUME HoldInv, [Next]_vars PROVE HoldInv'
  OBVIOUS
<1> USE ConstantsAssumption DEF Clients, Working, Wanting, Goto, Hold, Failed, Drop
<1>1. ASSUME NEW x \in Clients, Checkout(x) PROVE HoldInv'
  <2>1. Types'
    BY <1>1 DEF Checkout, Thence, HoldInv, Types, Holds
  <2>2. Holds(x)'
    BY <1>1 DEF Checkout, Thence, HoldInv, Types, Holds
  <2>3. ASSUME NEW y \in Clients, y # x PROVE Holds(y)'
    BY <1>1, <2>3 DEF Checkout, Thence, HoldInv, Types, Holds
  <2> QED
    BY <2>1, <2>2, <2>3 DEF HoldInv
<1>2. ASSUME NEW x \in Clients, TimesOut(x) PROVE HoldInv'
  <2>1. Types'
    BY <1>2, DoneTyped, ThrownTyped DEF TimesOut, HoldInv, Types, TypedStep
  <2>2. Holds(x)'
    BY <1>2 DEF TimesOut, Done, Thrown, After, HoldInv, Types, Holds
  <2>3. ASSUME NEW y \in Clients, y # x PROVE Holds(y)'
    BY <1>2, <2>3 DEF TimesOut, Done, Thrown, HoldInv, Types, Holds
  <2> QED
    BY <2>1, <2>2, <2>3 DEF HoldInv
<1>3. ASSUME NEW x \in Clients, Commit(x) PROVE HoldInv'
  <2>1. Types'
    BY <1>3 DEF Commit, HoldInv, Types, Holds
  <2>2. Holds(x)'
    BY <1>3 DEF Commit, HoldInv, Types, Holds
  <2>3. ASSUME NEW y \in Clients, y # x PROVE Holds(y)'
    BY <1>3, <2>3 DEF Commit, HoldInv, Types, Holds
  <2> QED
    BY <2>1, <2>2, <2>3 DEF HoldInv
<1>4. ASSUME NEW x \in Clients, Fail(x) PROVE HoldInv'
  <2>1. Types'
    BY <1>4, ThrownTyped DEF Fail, HoldInv, Types, TypedStep
  <2>2. Holds(x)'
    BY <1>4 DEF Fail, Thrown, After, HoldInv, Types, Holds
  <2>3. ASSUME NEW y \in Clients, y # x PROVE Holds(y)'
    BY <1>4, <2>3 DEF Fail, Thrown, HoldInv, Types, Holds
  <2> QED
    BY <2>1, <2>2, <2>3 DEF HoldInv
<1>5. ASSUME NEW x \in Clients, ReadLastId(x) PROVE HoldInv'
  <2>1. Types'
    BY <1>5, DoneTyped DEF ReadLastId, HoldInv, Types, TypedStep
  <2>2. Holds(x)'
    BY <1>5 DEF ReadLastId, Done, After, HoldInv, Types, Holds
  <2>3. ASSUME NEW y \in Clients, y # x PROVE Holds(y)'
    BY <1>5, <2>3 DEF ReadLastId, Done, HoldInv, Types, Holds
  <2> QED
    BY <2>1, <2>2, <2>3 DEF HoldInv
<1>6. ASSUME NEW x \in Clients, Seal(x) PROVE HoldInv'
  <2>1. Types'
    BY <1>6, DoneTyped DEF Seal, HoldInv, Types, TypedStep
  <2>2. Holds(x)'
    BY <1>6 DEF Seal, Done, After, HoldInv, Types, Holds
  <2>3. ASSUME NEW y \in Clients, y # x PROVE Holds(y)'
    BY <1>6, <2>3 DEF Seal, Done, HoldInv, Types, Holds
  <2> QED
    BY <2>1, <2>2, <2>3 DEF HoldInv
<1>7. ASSUME NEW r \in Requests, Arrive(r) PROVE HoldInv'
  BY <1>7 DEF Arrive, HoldInv, Types, Holds
<1>8. ASSUME NEW r \in Requests, Begin(r) PROVE HoldInv'
  BY <1>8 DEF Begin, HoldInv, Types, Holds
<1>9. ASSUME NEW r \in Requests, Return(r) PROVE HoldInv'
  BY <1>9 DEF Return, HoldInv, Types, Holds
<1>10. ASSUME NEW r \in Requests, Close(r) PROVE HoldInv'
  BY <1>10 DEF Close, HoldInv, Types, Holds
<1>11. ASSUME NEW p \in Proxies, UpstreamFails(p) PROVE HoldInv'
  BY <1>11 DEF UpstreamFails, HoldInv, Types, Holds
<1>12. ASSUME NEW p \in Proxies, NEW found \in BOOLEAN, UpstreamAnswers(p, found) PROVE HoldInv'
  BY <1>12 DEF UpstreamAnswers, HoldInv, Types, Holds
<1>13. ASSUME NEW p \in Proxies, NEW found \in BOOLEAN, NEW block \in BOOLEAN, Call(p, found, block) PROVE HoldInv'
  BY <1>13 DEF Call, HoldInv, Types, Holds
<1>14. ASSUME Wake PROVE HoldInv'
  BY <1>14 DEF Wake, HoldInv, Types, Holds
<1>15. ASSUME Cleanup PROVE HoldInv'
  BY <1>15 DEF Cleanup, Done, After, HoldInv, Types, Holds
<1>16. ASSUME NEW r \in Requests, CommitNothing(r) PROVE HoldInv'
  BY <1>16 DEF CommitNothing, HoldInv, Types, Holds
<1>17. ASSUME Collect PROVE HoldInv'
  BY <1>17 DEF Collect, HoldInv, Types, Holds
<1>18. CASE UNCHANGED vars
  BY <1>18 DEF vars, HoldInv, Types, Holds
<1> QED
  BY <1>1, <1>2, <1>3, <1>4, <1>5, <1>6, <1>7, <1>8, <1>9, <1>10,
     <1>11, <1>12, <1>13, <1>14, <1>15, <1>16, <1>17, <1>18 DEF Next, Get, Work

\* A request that was answered holds nothing, and what else holds a connection
\* without working has failed to log or to clean up.
THEOREM ConnectionsComeBack == Spec => []NothingLeaks
<1>1. HoldInv => NothingLeaks
  BY ConstantsAssumption DEF HoldInv, Types, Holds, NothingLeaks, Clients
<1> QED
  BY <1>1, HoldInit, HoldStep, PTL DEF Spec

-----------------------------------------------------------------------------
(***************************************************************************)
(* The limit of the pool. Only a checkout adds a connection, and there is  *)
(* one free then; every other step gives back, keeps or loses what is held.*)
(***************************************************************************)
LEMMA PairsAreFinite ==
  ASSUME NEW T \in SUBSET (Clients \X {1, 2})
  PROVE  IsFiniteSet(T)
<1>1. IsFiniteSet({1})
  BY FS_Singleton
<1>2. IsFiniteSet({1} \cup {2})
  BY <1>1, FS_AddElement
<1>3. {1} \cup {2} = {1, 2}
  OBVIOUS
<1>4. IsFiniteSet(Clients \X {1, 2})
  BY <1>2, <1>3, FS_Product, ConstantsAssumption
<1> QED
  BY <1>4, FS_Subset

LEMMA OutIsFinite ==
  ASSUME Types
  PROVE  IsFiniteSet(Out) /\ Cardinality(Out) \in Nat /\ InUse \in Nat
<1>1. Out \in SUBSET (Clients \X {1, 2})
  BY DEF Out
<1>2. IsFiniteSet(Out)
  BY <1>1, PairsAreFinite
<1> QED
  BY <1>2, FS_CardinalityType DEF InUse, Types

LEMMA FewerInUse ==
  ASSUME Types, Types', \A x \in Clients : held'[x] <= held[x], lost' <= lost
  PROVE  InUse' <= InUse
<1>1. Out' \in SUBSET Out
  BY DEF Out, Types
<1>2. Cardinality(Out') <= Cardinality(Out) /\ Cardinality(Out') \in Nat
  BY <1>1, OutIsFinite, FS_Subset, FS_CardinalityType
<1> QED
  BY <1>2, OutIsFinite DEF InUse, Types

\* What a dropped session held is lost, not given back.
LEMMA DroppedInUse ==
  ASSUME Types, NEW x \in Clients, Drop(x), held[x] <= 1
  PROVE  InUse' <= InUse
<1> DEFINE rest == Out \ {<<x, 1>>}
<1>1. \A y \in Clients : held'[y] = IF y = x THEN 0 ELSE held[y]
  BY DEF Drop, Hold, Types
<1>2. Out' \in SUBSET rest
  <2> SUFFICES ASSUME NEW c \in Out' PROVE c \in rest
    OBVIOUS
  <2>1. PICK y \in Clients, n \in {1, 2} : c = <<y, n>> /\ n <= held'[y]
    BY DEF Out
  <2>2. y # x
    BY <1>1, <2>1
  <2> QED
    BY <1>1, <2>1, <2>2 DEF Out
<1>3. /\ IsFiniteSet(rest)
      /\ Cardinality(rest) = IF <<x, 1>> \in Out THEN Cardinality(Out) - 1
                                                ELSE Cardinality(Out)
  BY OutIsFinite, FS_RemoveElement
<1>4. held[x] = 1 => <<x, 1>> \in Out
  BY DEF Out
<1> HIDE DEF rest
<1>5. /\ Cardinality(Out') <= Cardinality(rest)
      /\ Cardinality(Out') \in Nat /\ Cardinality(rest) \in Nat
  BY <1>2, <1>3, FS_Subset, FS_CardinalityType
<1>6. held[x] \in {0, 1} /\ lost' = lost + held[x] /\ lost \in Nat
  BY DEF Types, Drop
<1> QED
  BY <1>3, <1>4, <1>5, <1>6, OutIsFinite DEF InUse

LEMMA OneMoreInUse ==
  ASSUME Types, NEW x \in Clients, Hold(x, held[x] + 1), lost' = lost
  PROVE  InUse' <= InUse + 1
<1>0. PICK e : e = <<x, held[x] + 1>>
  OBVIOUS
<1> DEFINE more == Out \cup {e}
<1>1. IsFiniteSet(more) /\ Cardinality(more) <= Cardinality(Out) + 1
  <2>1. IsFiniteSet(more) /\ Cardinality(more) = IF e \in Out THEN Cardinality(Out) ELSE Cardinality(Out) + 1
    BY OutIsFinite, FS_AddElement
  <2> QED
    BY <2>1, OutIsFinite
<1>2. Out' \in SUBSET more
  <2>1. \A y \in Clients : held'[y] = IF y = x THEN held[x] + 1 ELSE held[y]
    BY DEF Hold, Types
  <2>2. ASSUME NEW c \in Out'
        PROVE  c \in more
    <3>1. PICK y \in Clients, n \in {1, 2} : c = <<y, n>> /\ n <= held'[y]
      BY <2>2 DEF Out
    <3>2. CASE y # x
      BY <2>1, <3>1, <3>2 DEF Out
    <3>3. CASE y = x
      <4>1. n <= held[x] \/ n = held[x] + 1
        BY <2>1, <3>1, <3>3 DEF Types
      <4> QED
        BY <1>0, <3>1, <3>3, <4>1 DEF Out
    <3> QED
      BY <3>2, <3>3
  <2> QED
    BY <2>2
<1> HIDE DEF more
<1>3. Cardinality(Out') <= Cardinality(more)
  BY <1>1, <1>2, FS_Subset
<1>4. Cardinality(Out') \in Nat /\ Cardinality(more) \in Nat
  BY <1>1, <1>2, FS_Subset, FS_CardinalityType
<1> QED
  BY <1>1, <1>3, <1>4, OutIsFinite DEF InUse, Types

LEMMA LimitInit == Init => InUse <= Capacity
<1>1. Init => Out = {} /\ lost = 0
  BY DEF Init, Out
<1> QED
  BY <1>1, FS_EmptySet, ConstantsAssumption DEF InUse

\* A step that checks out nothing gives back what some client holds, or drops it.
Lets(x) == Done(x) \/ Thrown(x) \/ (Hold(x, 0) /\ UNCHANGED lost) \/ Drop(x)

LEMMA LimitStep == HoldInv /\ InUse <= Capacity /\ [Next]_vars => (InUse <= Capacity)'
<1> SUFFICES ASSUME HoldInv, InUse <= Capacity, [Next]_vars PROVE InUse' <= Capacity
  OBVIOUS
<1>1. Types /\ Types'
  BY HoldStep DEF HoldInv
<1>2. InUse \in Nat /\ InUse' \in Nat /\ Capacity \in Nat
  <2>1. Out' \in SUBSET (Clients \X {1, 2})
    BY DEF Out
  <2>2. Cardinality(Out') \in Nat
    BY <2>1, PairsAreFinite, FS_CardinalityType
  <2> QED
    BY <1>1, <2>2, OutIsFinite, ConstantsAssumption DEF InUse, Types
<1>3. ASSUME NEW x \in Clients, Checkout(x)
      PROVE  InUse' <= Capacity
  <2>1. InUse < Capacity /\ Hold(x, held[x] + 1) /\ lost' = lost
    BY <1>3 DEF Checkout
  <2> QED
    BY <1>1, <1>2, <2>1, OneMoreInUse
<1>4. ASSUME NEW x \in Clients, NEW n, Hold(x, n), n <= held[x], lost' <= lost
      PROVE  InUse' <= InUse
  <2>1. \A y \in Clients : held'[y] <= held[y]
    BY <1>1, <1>4 DEF Hold, Types
  <2> QED
    BY <1>1, <1>4, <2>1, FewerInUse
<1>5. ASSUME UNCHANGED held, lost' <= lost
      PROVE  InUse' <= InUse
  <2>1. \A y \in Clients : held'[y] <= held[y]
    BY <1>1, <1>5 DEF Types
  <2> QED
    BY <1>1, <1>5, <2>1, FewerInUse
<1>6. ASSUME NEW x \in Clients, Lets(x), held[x] <= 1 \/ ~Drop(x)
      PROVE  InUse' <= InUse
  <2>1. held[x] \in Nat /\ lost \in Nat
    BY <1>1 DEF Types
  <2>2. CASE Drop(x)
    BY <1>1, <1>6, <2>2, DroppedInUse
  <2>3. CASE ~Drop(x)
    <3>1. /\ Hold(x, 0) \/ (Hold(x, 1) /\ held[x] > 0) \/ UNCHANGED held
          /\ UNCHANGED lost
      BY <1>6, <2>3 DEF Lets, Done, Thrown
    <3> QED
      BY <1>4, <1>5, <2>1, <3>1
  <2> QED
    BY <2>2, <2>3
<1>7. ASSUME ~\E x \in Clients : Checkout(x)
      PROVE  \/ UNCHANGED held /\ lost' <= lost
             \/ \E x \in Clients : Lets(x) /\ (held[x] <= 1 \/ ~Drop(x))
  <2>1. ASSUME NEW x \in Clients, TimesOut(x) \/ Work(x)
        PROVE  (UNCHANGED <<held, lost>>) \/ (Lets(x) /\ (held[x] <= 1 \/ ~Drop(x)))
    <3>1. TimesOut(x) \/ Fail(x) => held[x] <= 1 \/ ~Thrown(x)
      BY DEF TimesOut, Fail, HoldInv, Types, Holds, Wanting
    <3>2. CASE Thrown(x) /\ held[x] <= 1
      BY <3>2 DEF Lets
    <3>3. CASE Done(x)
      <4>1. held[x] <= 1 \/ ~Drop(x)
        BY <1>1, <3>3 DEF Done, Drop, Types
      <4> QED
        BY <3>3, <4>1 DEF Lets
    <3>4. CASE Commit(x)
      <4>1. pc[x] = "write"
        BY <3>4 DEF Commit
      <4>2. held[x] <= 1
        BY <4>1 DEF HoldInv, Holds
      <4> QED
        BY <3>4, <4>2 DEF Commit, Lets
    <3> QED
      BY <2>1, <3>1, <3>2, <3>3, <3>4 DEF TimesOut, Work, Fail, ReadLastId, Seal
  <2>2. ASSUME NEW r \in Requests, Arrive(r) \/ Begin(r) \/ CommitNothing(r) \/ Return(r) \/ Close(r)
        PROVE  (UNCHANGED <<held, lost>>) \/ (Lets(r) /\ (held[r] <= 1 \/ ~Drop(r)))
    <3>1. CASE Close(r)
      <4>1. pc[r] = "closing" /\ r \in Clients
        BY <3>1 DEF Close, Clients
      <4>2. held[r] <= 1
        BY <4>1 DEF HoldInv, Types, Holds
      <4> QED
        BY <3>1, <4>2 DEF Close, Lets
    <3> QED
      BY <2>2, <3>1 DEF Arrive, Begin, CommitNothing, Return
  <2>3. ASSUME NEW p \in Proxies,
               \/ UpstreamFails(p)
               \/ \E found \in BOOLEAN : UpstreamAnswers(p, found)
               \/ \E found, block \in BOOLEAN : Call(p, found, block)
        PROVE  (UNCHANGED <<held, lost>>) \/ (Lets(p) /\ (held[p] <= 1 \/ ~Drop(p)))
    <3>1. ASSUME pc[p] = "upstream", Drop(p)
          PROVE  Lets(p) /\ held[p] <= 1
      <4>1. held[p] # 2 /\ held[p] \in 0..2
        BY <3>1 DEF HoldInv, Types, Holds, Clients
      <4> QED
        BY <3>1, <4>1 DEF Lets
    <3> QED
      BY <2>3, <3>1 DEF UpstreamFails, UpstreamAnswers, Call
  <2>4. CASE Wake \/ Cleanup
    <3>1. Cleaner \in Clients
      BY DEF Clients
    <3>2. held[Cleaner] <= 1
      BY <2>4, <3>1 DEF Wake, Cleanup, HoldInv, Types, Holds
    <3>3. Lets(Cleaner)
      BY <2>4 DEF Wake, Cleanup, Lets
    <3> QED
      BY <3>1, <3>2, <3>3
  <2>5. CASE Collect
    BY <1>1, <2>5 DEF Collect, Types
  <2>6. CASE UNCHANGED vars
    BY <1>1, <2>6 DEF vars, Types
  <2>7. Requests \subseteq Clients /\ Proxies \subseteq Clients
    BY DEF Clients
  <2>8. lost \in Nat
    BY <1>1 DEF Types
  <2> QED
    BY <1>7, <2>1, <2>2, <2>3, <2>4, <2>5, <2>6, <2>7, <2>8 DEF Next, Get
<1>8. CASE ~\E x \in Clients : Checkout(x)
  <2>1. InUse' <= InUse
    BY <1>5, <1>6, <1>7, <1>8
  <2> QED
    BY <1>2, <2>1
<1> QED
  BY <1>3, <1>8

\* The variables hold what they should, and no more connections are checked
\* out than the pool may have, whoever fails or times out with them.
THEOREM PoolKeepsLimit == Spec => []TypeOK
<1>1. HoldInv /\ InUse <= Capacity => TypeOK
  BY DEF HoldInv, Types, TypeOK
<1>2. Spec => []HoldInv
  BY HoldInit, HoldStep, PTL DEF Spec
<1> QED
  BY <1>1, <1>2, LimitInit, LimitStep, PTL DEF Spec

\* With every connection out and none coming back, the holders and what was
\* lost make up all connections: whoever is stuck holds at most one.
LEMMA HoldersAreMany ==
  ASSUME HoldInv PROVE GridlockNeedsCapacity
<1> DEFINE Holders == {x \in Clients : held[x] > 0}
<1>1. SUFFICES ASSUME InUse = Capacity, \A x \in Clients : held[x] > 0 => Stuck(x)
               PROVE  Cardinality(Holders) + lost >= Capacity
  BY DEF GridlockNeedsCapacity
<1>2. \A x \in Clients : Stuck(x) => held[x] <= 1
  BY DEF HoldInv, Types, Holds, Stuck, Wanting
<1>3. IsFiniteSet(Holders)
  BY FS_Subset, ConstantsAssumption
<1>4. \A c \in Out : c[1] \in Holders /\ c = <<c[1], 1>>
  <2> TAKE c \in Out
  <2>1. PICK x \in Clients, n \in {1, 2} : c = <<x, n>> /\ n <= held[x]
    BY DEF Out
  <2>2. held[x] \in 0..2
    BY DEF HoldInv, Types
  <2>3. held[x] > 0 /\ Stuck(x)
    BY <1>1, <2>1, <2>2
  <2> QED
    BY <1>2, <2>1, <2>2, <2>3
<1> HIDE DEF Holders
<1>5. [c \in Out |-> c[1]] \in Injection(Out, Holders)
  BY <1>4 DEF Injection, IsInjective
<1>6. Cardinality(Out) <= Cardinality(Holders)
  BY <1>3, <1>5, FS_Injection
<1>7. Cardinality(Holders) \in Nat /\ lost \in Nat /\ Cardinality(Out) \in Nat
  BY <1>3, FS_CardinalityType, OutIsFinite DEF HoldInv, Types
<1> QED
  BY <1>1, <1>6, <1>7, ConstantsAssumption DEF InUse

\* A gridlock of the pool takes as many clients as the pool has connections,
\* less those that dropped sessions keep from it.
THEOREM GridlockIsRare == Spec => []GridlockNeedsCapacity
<1>1. HoldInv => GridlockNeedsCapacity
  BY HoldersAreMany
<1> QED
  BY <1>1, HoldInit, HoldStep, PTL DEF Spec

\* When all connections are out and there are more than clients and lost ones
\* together, somebody gives one back without a timeout or a collection.
SomebodyReturns ==
  InUse = Capacity /\ Cardinality(Clients) + lost < Capacity
    => \E x \in Clients : held[x] > 0 /\ ~Stuck(x)

\* pool_size + max_overflow: requests that seal while they hold a connection,
\* and calls that block the loop, can never bring the pool to a standstill while
\* there are fewer of them than connections that were not lost.
THEOREM FewClientsNeverGridlock == Spec => []SomebodyReturns
<1>1. HoldInv /\ GridlockNeedsCapacity => SomebodyReturns
  <2> DEFINE Holders == {x \in Clients : held[x] > 0}
  <2> SUFFICES ASSUME HoldInv, GridlockNeedsCapacity, InUse = Capacity,
                      Cardinality(Clients) + lost < Capacity,
                      \A x \in Clients : held[x] > 0 => Stuck(x)
               PROVE  FALSE
    BY DEF SomebodyReturns
  <2>1. Cardinality(Holders) + lost >= Capacity
    BY DEF GridlockNeedsCapacity
  <2>2. /\ Cardinality(Holders) \in Nat /\ Cardinality(Clients) \in Nat
        /\ Cardinality(Holders) <= Cardinality(Clients)
    BY FS_Subset, FS_CardinalityType, ConstantsAssumption
  <2>3. lost \in Nat
    BY DEF HoldInv, Types
  <2> QED
    BY <2>1, <2>2, <2>3, ConstantsAssumption
<1> QED
  BY <1>1, HoldInit, HoldStep, GridlockIsRare, PTL DEF Spec

\* Whoever cannot give back what it holds, for want of a connection or of the
\* event loop, holds one connection at most: a gridlock of the pool takes a
\* client for every connection that is not lost.
THEOREM StuckHoldOne == Spec => [](\A x \in Clients : Stuck(x) => held[x] <= 1)
<1>1. HoldInv => \A x \in Clients : Stuck(x) => held[x] <= 1
  BY DEF HoldInv, Types, Holds, Stuck, Wanting
<1> QED
  BY <1>1, HoldInit, HoldStep, PTL DEF Spec

-----------------------------------------------------------------------------
(***************************************************************************)
(* Blocked inputs. The verdict is kept beside the attempts to log it.      *)
(***************************************************************************)
LEMMA BlockedInit == Init => BlockedStaysHere
BY DEF Init, BlockedStaysHere, Clients

LEMMA BlockedStep == HoldInv /\ BlockedStaysHere /\ [Next]_vars => BlockedStaysHere'
<1> SUFFICES ASSUME HoldInv, BlockedStaysHere, [Next]_vars PROVE BlockedStaysHere'
  OBVIOUS
<1> USE ConstantsAssumption DEF Clients, Working, Wanting, Goto, Hold, Failed, Drop
<1>1. ASSUME NEW x \in Clients, Checkout(x) PROVE BlockedStaysHere'
  BY <1>1 DEF Checkout, Thence, HoldInv, Types, BlockedStaysHere
<1>2. ASSUME NEW x \in Clients, TimesOut(x) PROVE BlockedStaysHere'
  BY <1>2 DEF TimesOut, Done, Thrown, After, HoldInv, Types, BlockedStaysHere
<1>3. ASSUME NEW x \in Clients, Commit(x) PROVE BlockedStaysHere'
  BY <1>3 DEF Commit, HoldInv, Types, BlockedStaysHere
<1>4. ASSUME NEW x \in Clients, Fail(x) PROVE BlockedStaysHere'
  BY <1>4 DEF Fail, Thrown, After, HoldInv, Types, BlockedStaysHere
<1>5. ASSUME NEW x \in Clients, ReadLastId(x) PROVE BlockedStaysHere'
  BY <1>5 DEF ReadLastId, Done, After, HoldInv, Types, BlockedStaysHere
<1>6. ASSUME NEW x \in Clients, Seal(x) PROVE BlockedStaysHere'
  BY <1>6 DEF Seal, Done, After, HoldInv, Types, BlockedStaysHere
<1>7. ASSUME NEW r \in Requests, Arrive(r) PROVE BlockedStaysHere'
  BY <1>7 DEF Arrive, HoldInv, Types, BlockedStaysHere
<1>8. ASSUME NEW r \in Requests, Begin(r) PROVE BlockedStaysHere'
  BY <1>8 DEF Begin, HoldInv, Types, BlockedStaysHere
<1>9. ASSUME NEW r \in Requests, Return(r) PROVE BlockedStaysHere'
  BY <1>9 DEF Return, HoldInv, Types, BlockedStaysHere
<1>10. ASSUME NEW r \in Requests, Close(r) PROVE BlockedStaysHere'
  BY <1>10 DEF Close, HoldInv, Types, BlockedStaysHere
<1>11. ASSUME NEW p \in Proxies, UpstreamFails(p) PROVE BlockedStaysHere'
  BY <1>11 DEF UpstreamFails, HoldInv, Types, BlockedStaysHere
<1>12. ASSUME NEW p \in Proxies, NEW found \in BOOLEAN, UpstreamAnswers(p, found) PROVE BlockedStaysHere'
  BY <1>12 DEF UpstreamAnswers, HoldInv, Types, BlockedStaysHere
<1>13. ASSUME NEW p \in Proxies, NEW found \in BOOLEAN, NEW block \in BOOLEAN, Call(p, found, block) PROVE BlockedStaysHere'
  BY <1>13 DEF Call, HoldInv, Types, BlockedStaysHere
<1>14. ASSUME Wake PROVE BlockedStaysHere'
  BY <1>14 DEF Wake, HoldInv, Types, BlockedStaysHere
<1>15. ASSUME Cleanup PROVE BlockedStaysHere'
  BY <1>15 DEF Cleanup, Done, After, HoldInv, Types, BlockedStaysHere
<1>16. ASSUME NEW r \in Requests, CommitNothing(r) PROVE BlockedStaysHere'
  BY <1>16 DEF CommitNothing, HoldInv, Types, BlockedStaysHere
<1>17. ASSUME Collect PROVE BlockedStaysHere'
  BY <1>17 DEF Collect, HoldInv, Types, BlockedStaysHere
<1>18. CASE UNCHANGED vars
  BY <1>18 DEF vars, HoldInv, Types, BlockedStaysHere
<1> QED
  BY <1>1, <1>2, <1>3, <1>4, <1>5, <1>6, <1>7, <1>8, <1>9, <1>10,
     <1>11, <1>12, <1>13, <1>14, <1>15, <1>16, <1>17, <1>18 DEF Next, Get, Work

\* Nothing that fails, times out or waits lets a blocked input pass.
THEOREM BlockedNeverForwarded == Spec => []BlockedStaysHere
<1>1. Spec => []HoldInv
  BY HoldInit, HoldStep, PTL DEF Spec
<1> QED
  BY <1>1, BlockedInit, BlockedStep, PTL DEF Spec
=============================================================================
