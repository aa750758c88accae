------------------------- MODULE UserBehaviorProofs -------------------------
(***************************************************************************)
(* Theorems about UserBehavior for every set of users and requests.        *)
(***************************************************************************)
EXTENDS UserBehavior, TLAPS

-----------------------------------------------------------------------------
(***************************************************************************)
(* Type correctness, and which requests have a user to count.              *)
(***************************************************************************)
Counting(r) == pc[r] = "count" /\ ~unsaved[r]

NamedInv == \A r \in Requests :
  pc[r] \notin {"idle", "count"} \/ Counting(r) \/ inserted[r] # {}
     => job[r].user \in Users

LEMMA TypeInit == Init => TypeOK /\ NamedInv
BY BoundsAssumption DEF Init, TypeOK, NamedInv, Counting, Zero, Counters, Days, NoJob

\* What a commit writes are counters again.
LEMMA WrittenTyped ==
  ASSUME TypeOK, NEW r \in Requests, NEW b \in BOOLEAN
  PROVE  /\ Plus(held[r], b) \in Counters
         /\ Written(r) \in Counters
         /\ \A k \in Users \X Days : Plus(events[k], b) \in Counters
<1>1. \A c \in Counters, d \in BOOLEAN : Plus(c, d) \in Counters
  BY DEF Plus, Counters
<1>2. \A c \in Counters, d \in Counters : [c EXCEPT !.blocked = d.blocked] \in Counters
  BY DEF Counters
<1>3. held[r] \in Counters /\ job[r].blocked \in BOOLEAN
      /\ (Key(r) \in DOMAIN rows => rows[Key(r)] \in Counters)
  BY DEF TypeOK
<1> QED
  BY <1>1, <1>2, <1>3 DEF TypeOK, Written

\* A request that is over holds nothing that needs a type.
LEMMA CloseTyped ==
  ASSUME TypeOK, NamedInv, NEW r \in Requests, Close(r), UNCHANGED <<dbVars, histVars>>
  PROVE  TypeOK' /\ NamedInv'
<1>1. Zero \in Counters /\ 0 \in Days
      /\ NoJob \in [user : Users \cup {"none"}, review : BOOLEAN, blocked : BOOLEAN]
  BY BoundsAssumption DEF Zero, Counters, Days, NoJob
<1>2. TypeOK'
  BY <1>1 DEF Close, TypeOK, dbVars, histVars
<1>3. NamedInv'
  BY DEF Close, TypeOK, NamedInv, Counting
<1> QED
  BY <1>2, <1>3

LEMMA TypeStep == TypeOK /\ NamedInv /\ [Next]_vars => TypeOK' /\ NamedInv'
<1> SUFFICES ASSUME TypeOK, NamedInv, [Next]_vars PROVE TypeOK' /\ NamedInv'
  OBVIOUS
<1> USE BoundsAssumption DEF dbVars, reqVars, histVars, Counting
<1>1. ASSUME NEW r \in Requests, NEW u \in Users, NEW review \in BOOLEAN,
             NEW blocked \in BOOLEAN, NEW findings \in BOOLEAN,
             Start(r, u, review, blocked, findings)
      PROVE  TypeOK' /\ NamedInv'
  BY <1>1 DEF Start, TypeOK, NamedInv
<1>2. ASSUME NEW r \in Requests, StartAnonymous(r) PROVE TypeOK' /\ NamedInv'
  BY <1>2 DEF StartAnonymous, TypeOK, NamedInv
<1>3. ASSUME NEW r \in Requests, FindUser(r) PROVE TypeOK' /\ NamedInv'
  BY <1>3 DEF FindUser, TypeOK, NamedInv
<1>4. ASSUME NEW r \in Requests, AddUser(r) PROVE TypeOK' /\ NamedInv'
  <2>1. CASE Close(r)
    BY <1>4, <2>1, CloseTyped DEF AddUser
  <2>2. CASE ~Close(r)
    <3>1. inserted[r] \cup {"user"} \in SUBSET {"user", "row"}
      BY DEF TypeOK
    <3>2. inserted' \in [Requests -> SUBSET {"user", "row"}]
      BY <1>4, <2>2, <3>1 DEF AddUser, TypeOK
    <3>3. NamedInv'
      BY <1>4, <2>2 DEF AddUser, TypeOK, NamedInv
    <3> QED
      BY <1>4, <2>2, <3>2, <3>3 DEF AddUser, TypeOK, Zero, Counters
  <2> QED
    BY <2>1, <2>2
<1>5. ASSUME NEW r \in Requests, FindRow(r) PROVE TypeOK' /\ NamedInv'
  BY <1>5 DEF FindRow, TypeOK, NamedInv
<1>6. ASSUME NEW r \in Requests, AddRow(r) PROVE TypeOK' /\ NamedInv'
  <2>1. CASE Close(r)
    BY <1>6, <2>1, CloseTyped DEF AddRow
  <2>2. CASE ~Close(r)
    <3>1. inserted[r] \cup {"row"} \in SUBSET {"user", "row"}
      BY DEF TypeOK
    <3>2. inserted' \in [Requests -> SUBSET {"user", "row"}]
      BY <1>6, <2>2, <3>1 DEF AddRow, TypeOK
    <3>3. NamedInv'
      BY <1>6, <2>2 DEF AddRow, TypeOK, NamedInv
    <3>4. Zero \in Counters
      BY DEF Zero, Counters
    <3>5. held' \in [Requests -> Counters]
      BY <1>6, <2>2, <3>4 DEF AddRow, TypeOK
    <3> QED
      BY <1>6, <2>2, <3>2, <3>3, <3>5 DEF AddRow, TypeOK
  <2> QED
    BY <2>1, <2>2
<1>7. ASSUME NEW r \in Requests, Commit(r) PROVE TypeOK' /\ NamedInv'
  <2>1. job[r].user \in Users /\ Key(r) \in Users \X Days
    BY <1>7 DEF Commit, TypeOK, NamedInv, Key
  <2>2. DOMAIN rows' = DOMAIN rows \cup {Key(r)}
    BY <1>7 DEF Commit
  <2>3. \A k \in DOMAIN rows' : rows'[k] \in Counters
    BY <1>7, <2>2, WrittenTyped DEF Commit, TypeOK
  <2>4. events' \in [Users \X Days -> Counters]
    BY <1>7, <2>1, WrittenTyped DEF Commit, TypeOK
  <2>5. users' \subseteq Users /\ named' \in Nat /\ day' \in Days
    BY <1>7, <2>1 DEF Commit, TypeOK
  <2>6. CASE ~job[r].review
    <3>1. Zero \in Counters /\ 0 \in Days
          /\ NoJob \in [user : Users \cup {"none"}, review : BOOLEAN, blocked : BOOLEAN]
      BY DEF Zero, Counters, Days, NoJob
    <3>2. Close(r)
      BY <1>7, <2>6 DEF Commit
    <3>3. NamedInv'
      BY <3>2 DEF Close, TypeOK, NamedInv
    <3> QED
      BY <2>1, <2>2, <2>3, <2>4, <2>5, <3>1, <3>2, <3>3 DEF Close, TypeOK
  <2>7. CASE job[r].review
    BY <1>7, <2>1, <2>2, <2>3, <2>4, <2>5, <2>7 DEF Commit, TypeOK, NamedInv
  <2> QED
    BY <2>6, <2>7
<1>8. ASSUME NEW r \in Requests, Leave(r) PROVE TypeOK' /\ NamedInv'
  BY <1>8, CloseTyped DEF Leave
<1>9. ASSUME NEW r \in Requests, Fail(r) PROVE TypeOK' /\ NamedInv'
  BY <1>9, CloseTyped DEF Fail
<1>10. CASE Midnight
  BY <1>10 DEF Midnight, TypeOK, NamedInv, Days
<1>11. CASE UNCHANGED vars
  BY <1>11 DEF vars, TypeOK, NamedInv
<1> QED
  BY <1>1, <1>2, <1>3, <1>4, <1>5, <1>6, <1>7, <1>8, <1>9, <1>10, <1>11
  DEF Next, Step

\* In every reachable state the variables hold what the code's rows and
\* locals hold.
THEOREM TypeCorrect == Spec => []TypeOK
<1>1. Spec => [](TypeOK /\ NamedInv)
  BY TypeInit, TypeStep, PTL DEF Spec
<1> QED
  BY <1>1, PTL

-----------------------------------------------------------------------------
(***************************************************************************)
(* Every row has its user. A request past FindUser has found the user, or  *)
(* commits the user in the transaction that commits the row.               *)
(***************************************************************************)
UserInv ==
  /\ RowsHaveUsers
  /\ \A r \in Requests : pc[r] \in {"find_row", "add_row"} \/ Counting(r)
        => job[r].user \in users \/ "user" \in inserted[r]

LEMMA UserInit == Init => UserInv
BY DEF Init, UserInv, RowsHaveUsers, Counting

LEMMA UserStep == TypeOK /\ UserInv /\ [Next]_vars => UserInv'
<1> SUFFICES ASSUME TypeOK, UserInv, [Next]_vars PROVE UserInv'
  OBVIOUS
<1> USE DEF dbVars, reqVars, histVars, Counting
<1>1. ASSUME NEW r \in Requests, NEW u \in Users, NEW review \in BOOLEAN,
             NEW blocked \in BOOLEAN, NEW findings \in BOOLEAN,
             Start(r, u, review, blocked, findings)
      PROVE  UserInv'
  BY <1>1 DEF Start, TypeOK, UserInv, RowsHaveUsers
<1>2. ASSUME NEW r \in Requests, StartAnonymous(r) PROVE UserInv'
  BY <1>2 DEF StartAnonymous, TypeOK, UserInv, RowsHaveUsers
<1>3. ASSUME NEW r \in Requests, FindUser(r) PROVE UserInv'
  BY <1>3 DEF FindUser, TypeOK, UserInv, RowsHaveUsers
<1>4. ASSUME NEW r \in Requests, AddUser(r) PROVE UserInv'
  BY <1>4 DEF AddUser, Close, TypeOK, UserInv, RowsHaveUsers
<1>5. ASSUME NEW r \in Requests, FindRow(r) PROVE UserInv'
  BY <1>5 DEF FindRow, TypeOK, UserInv, RowsHaveUsers
<1>6. ASSUME NEW r \in Requests, AddRow(r) PROVE UserInv'
  BY <1>6 DEF AddRow, Close, TypeOK, UserInv, RowsHaveUsers
<1>7. ASSUME NEW r \in Requests, Commit(r) PROVE UserInv'
  <2>1. job[r].user \in users' /\ users \subseteq users'
    BY <1>7 DEF Commit, UserInv
  <2>2. RowsHaveUsers'
    BY <1>7, <2>1 DEF Commit, UserInv, RowsHaveUsers, Key
  <2>3. \A q \in Requests \ {r} : /\ pc'[q] = pc[q] /\ unsaved'[q] = unsaved[q]
                                  /\ job'[q] = job[q] /\ inserted'[q] = inserted[q]
    BY <1>7 DEF Commit, Close, TypeOK
  <2>4. pc'[r] \in {"idle", "find_user"}
    BY <1>7 DEF Commit, Close, TypeOK
  <2> QED
    BY <2>1, <2>2, <2>3, <2>4 DEF UserInv
<1>8. ASSUME NEW r \in Requests, Leave(r) PROVE UserInv'
  BY <1>8 DEF Leave, Close, TypeOK, UserInv, RowsHaveUsers
<1>9. ASSUME NEW r \in Requests, Fail(r) PROVE UserInv'
  BY <1>9 DEF Fail, Close, TypeOK, UserInv, RowsHaveUsers
<1>10. CASE Midnight
  BY <1>10 DEF Midnight, TypeOK, UserInv, RowsHaveUsers
<1>11. CASE UNCHANGED vars
  BY <1>11 DEF vars, TypeOK, UserInv, RowsHaveUsers
<1> QED
  BY <1>1, <1>2, <1>3, <1>4, <1>5, <1>6, <1>7, <1>8, <1>9, <1>10, <1>11
  DEF Next, Step

\* Whatever requests race, fail or are rolled back, nobody has counters
\* without being in the table of users.
THEOREM CountersHaveUsers == Spec => []RowsHaveUsers
<1>1. Spec => [](TypeOK /\ NamedInv)
  BY TypeInit, TypeStep, PTL DEF Spec
<1>2. Spec => []UserInv
  BY <1>1, UserInit, UserStep, PTL DEF Spec
<1>3. UserInv => RowsHaveUsers
  BY DEF UserInv
<1> QED
  BY <1>2, <1>3, PTL

-----------------------------------------------------------------------------
(***************************************************************************)
(* Counters are never too high. What a request holds was committed before. *)
(***************************************************************************)
HeldInv ==
  /\ NeverOvercounts
  /\ \A r \in Requests : Counting(r) =>
        /\ held[r].total <= events[Key(r)].total
        /\ held[r].blocked <= events[Key(r)].blocked

LEMMA HeldInit == Init => HeldInv
BY DEF Init, HeldInv, NeverOvercounts, Counting

LEMMA HeldStep ==
  TypeOK /\ NamedInv /\ HeldInv /\ [Next]_vars => HeldInv'
<1> SUFFICES ASSUME TypeOK, NamedInv, HeldInv, [Next]_vars PROVE HeldInv'
  OBVIOUS
<1> USE DEF dbVars, reqVars, histVars, Counting
<1>1. ASSUME NEW r \in Requests, NEW u \in Users, NEW review \in BOOLEAN,
             NEW blocked \in BOOLEAN, NEW findings \in BOOLEAN,
             Start(r, u, review, blocked, findings)
      PROVE  HeldInv'
  BY <1>1 DEF Start, TypeOK, HeldInv, NeverOvercounts, Key
<1>2. ASSUME NEW r \in Requests, StartAnonymous(r) PROVE HeldInv'
  BY <1>2 DEF StartAnonymous, TypeOK, HeldInv, NeverOvercounts, Key
<1>3. ASSUME NEW r \in Requests, FindUser(r) PROVE HeldInv'
  BY <1>3 DEF FindUser, TypeOK, HeldInv, NeverOvercounts, Key
<1>4. ASSUME NEW r \in Requests, AddUser(r) PROVE HeldInv'
  BY <1>4 DEF AddUser, Close, TypeOK, HeldInv, NeverOvercounts, Key
<1>5. ASSUME NEW r \in Requests, FindRow(r) PROVE HeldInv'
  BY <1>5 DEF FindRow, TypeOK, HeldInv, NeverOvercounts, Key
<1>6. ASSUME NEW r \in Requests, AddRow(r) PROVE HeldInv'
  <2>1. events[Key(r)].total \in Nat /\ events[Key(r)].blocked \in Nat
    BY <1>6 DEF AddRow, TypeOK, NamedInv, Key, Counters
  <2> QED
    <3>1. NeverOvercounts'
      BY <1>6 DEF AddRow, HeldInv, NeverOvercounts
    <3>2. \A q \in Requests \ {r} : Counting(q)' =>
            Counting(q) /\ held'[q] = held[q] /\ Key(q)' = Key(q)
      BY <1>6 DEF AddRow, Close, TypeOK, Key
    <3>3. Counting(r)' => held'[r] = Zero /\ Key(r)' = Key(r)
      BY <1>6 DEF AddRow, Close, TypeOK, Key
    <3>4. events' = events
      BY <1>6 DEF AddRow
    <3> QED
      BY <2>1, <3>1, <3>2, <3>3, <3>4 DEF HeldInv, Zero
<1>7. ASSUME NEW r \in Requests, Commit(r) PROVE HeldInv'
  <2> DEFINE k == Key(r)
  <2>1. k \in Users \X Days /\ events[k] \in Counters /\ held[r] \in Counters
        /\ job[r].blocked \in BOOLEAN /\ (k \in DOMAIN rows => rows[k] \in Counters)
    BY <1>7 DEF Commit, TypeOK, NamedInv, Key
  <2>2. events'[k] = Plus(events[k], job[r].blocked)
        /\ \A j \in Users \X Days : j # k => events'[j] = events[j]
    BY <1>7, <2>1 DEF Commit, TypeOK
  <2>3. /\ held[r].total <= events[k].total /\ held[r].blocked <= events[k].blocked
        /\ (k \in DOMAIN rows => rows[k].blocked <= events[k].blocked)
    BY <1>7 DEF Commit, HeldInv, NeverOvercounts
  <2>4. Written(r).total <= events'[k].total /\ Written(r).blocked <= events'[k].blocked
    BY <2>1, <2>2, <2>3 DEF Written, Plus, Counters
  <2>5. NeverOvercounts'
    BY <1>7, <2>1, <2>2, <2>4 DEF Commit, TypeOK, HeldInv, NeverOvercounts
  <2>6. \A j \in Users \X Days : /\ events[j].total <= events'[j].total
                                 /\ events[j].blocked <= events'[j].blocked
    BY <2>1, <2>2 DEF TypeOK, Plus, Counters
  <2>7. \A q \in Requests : Counting(q)' => q # r /\ Counting(q)
           /\ held'[q] = held[q] /\ Key(q)' = Key(q) /\ Key(q) \in Users \X Days
    BY <1>7 DEF Commit, Close, TypeOK, NamedInv, Key
  <2>8. ASSUME NEW q \in Requests, Counting(q)'
        PROVE  /\ held'[q].total <= events'[Key(q)'].total
               /\ held'[q].blocked <= events'[Key(q)'].blocked
    <3>1. /\ held[q].total <= events[Key(q)].total
          /\ held[q].blocked <= events[Key(q)].blocked
      BY <2>7, <2>8 DEF HeldInv
    <3>2. /\ held[q] \in Counters /\ Key(q) \in Users \X Days
          /\ events[Key(q)] \in Counters /\ events'[Key(q)] \in Counters
      <4>1. held[q] \in Counters /\ Key(q) \in Users \X Days
            /\ events[Key(q)] \in Counters
        BY <2>7, <2>8 DEF TypeOK
      <4>2. \A c \in Counters, b \in BOOLEAN : Plus(c, b) \in Counters
        BY DEF Plus, Counters
      <4>3. events'[k] \in Counters
        BY <2>1, <2>2, <4>2
      <4> QED
        BY <2>2, <4>1, <4>3
    <3> QED
      BY <2>6, <2>7, <2>8, <3>1, <3>2 DEF Counters
  <2> QED
    BY <2>5, <2>8 DEF HeldInv
<1>8. ASSUME NEW r \in Requests, Leave(r) PROVE HeldInv'
  BY <1>8 DEF Leave, Close, TypeOK, HeldInv, NeverOvercounts, Key
<1>9. ASSUME NEW r \in Requests, Fail(r) PROVE HeldInv'
  BY <1>9 DEF Fail, Close, TypeOK, HeldInv, NeverOvercounts, Key
<1>10. CASE Midnight
  BY <1>10 DEF Midnight, TypeOK, HeldInv, NeverOvercounts, Key
<1>11. CASE UNCHANGED vars
  BY <1>11 DEF vars, TypeOK, HeldInv, NeverOvercounts, Key
<1> QED
  BY <1>1, <1>2, <1>3, <1>4, <1>5, <1>6, <1>7, <1>8, <1>9, <1>10, <1>11
  DEF Next, Step

\* Lost updates only ever lose: the counters of a user and day are at most
\* the number of requests, and of blocked ones, that were committed.
THEOREM CountersNeverTooHigh == Spec => []NeverOvercounts
<1>1. Spec => [](TypeOK /\ NamedInv)
  BY TypeInit, TypeStep, PTL DEF Spec
<1>2. Spec => []HeldInv
  BY <1>1, HeldInit, HeldStep, PTL DEF Spec
<1>3. HeldInv => NeverOvercounts
  BY DEF HeldInv
<1> QED
  BY <1>2, <1>3, PTL

-----------------------------------------------------------------------------
(***************************************************************************)
(* Counters are exact unless raced. Somebody who holds a row holds it as   *)
(* it is, or the key is raced; somebody who inserted one is the only one,  *)
(* and nobody has committed it.                                            *)
(***************************************************************************)
Current(k) == IF k \in DOMAIN rows THEN rows[k] ELSE Zero

HasRow(r) == "row" \in inserted[r]

RowInv ==
  /\ \A r \in Requests : HasRow(r) => pc[r] = "count" /\ Key(r) \notin DOMAIN rows
  /\ \A r \in Requests : Counting(r) => Key(r) \in DOMAIN rows \/ HasRow(r)
  /\ \A r, q \in Requests : HasRow(r) /\ HasRow(q) /\ r # q => Key(r) # Key(q)

ExactInv ==
  /\ \A k \in Users \X Days : k \notin raced => events[k] = Current(k)
  /\ \A r \in Requests : Counting(r) /\ Key(r) \notin raced
        => held[r] = Current(Key(r))

LEMMA ExactInit == Init => RowInv /\ ExactInv
BY DEF Init, RowInv, ExactInv, HasRow, Counting, Current

LEMMA RowStep == TypeOK /\ RowInv /\ [Next]_vars => RowInv'
<1> SUFFICES ASSUME TypeOK, RowInv, [Next]_vars PROVE RowInv'
  OBVIOUS
<1> USE DEF dbVars, reqVars, histVars, Counting, HasRow
<1>1. ASSUME NEW r \in Requests, NEW u \in Users, NEW review \in BOOLEAN,
             NEW blocked \in BOOLEAN, NEW findings \in BOOLEAN,
             Start(r, u, review, blocked, findings)
      PROVE  RowInv'
  BY <1>1 DEF Start, TypeOK, RowInv, Key
<1>2. ASSUME NEW r \in Requests, StartAnonymous(r) PROVE RowInv'
  BY <1>2 DEF StartAnonymous, TypeOK, RowInv, Key
<1>3. ASSUME NEW r \in Requests, FindUser(r) PROVE RowInv'
  BY <1>3 DEF FindUser, TypeOK, RowInv, Key
<1>4. ASSUME NEW r \in Requests, AddUser(r) PROVE RowInv'
  <2>1. CASE Close(r)
    BY <1>4, <2>1 DEF AddUser, Close, TypeOK, RowInv, Key
  <2>2. CASE ~Close(r)
    <3>1. /\ \A q \in Requests : Key(q)' = Key(q) /\ HasRow(q)' = HasRow(q)
                               /\ unsaved'[q] = unsaved[q]
          /\ \A q \in Requests \ {r} : pc'[q] = pc[q]
          /\ pc[r] # "count" /\ pc'[r] # "count" /\ rows' = rows
      BY <1>4, <2>2 DEF AddUser, TypeOK, Key
    <3> QED
      BY <3>1 DEF RowInv
  <2> QED
    BY <2>1, <2>2
<1>5. ASSUME NEW r \in Requests, FindRow(r) PROVE RowInv'
  BY <1>5 DEF FindRow, TypeOK, RowInv, Key
<1>6. ASSUME NEW r \in Requests, AddRow(r) PROVE RowInv'
  <2>1. CASE Close(r)
    BY <1>6, <2>1 DEF AddRow, Close, TypeOK, RowInv, Key
  <2>2. CASE ~Close(r)
    <3>1. /\ \A q \in Requests : Key(q)' = Key(q) /\ unsaved'[q] = unsaved[q]
          /\ \A q \in Requests \ {r} : pc'[q] = pc[q] /\ HasRow(q)' = HasRow(q)
          /\ pc'[r] = "count" /\ HasRow(r)' /\ rows' = rows
      BY <1>6, <2>2 DEF AddRow, TypeOK, Key
    <3>2. /\ Key(r) \notin DOMAIN rows
          /\ \A q \in Requests : HasRow(q) => Key(q) # Key(r)
      BY <1>6, <2>2 DEF AddRow
    <3> QED
      BY <3>1, <3>2 DEF RowInv
  <2> QED
    BY <2>1, <2>2
<1>7. ASSUME NEW r \in Requests, Commit(r) PROVE RowInv'
  <2>1. \A q \in Requests \ {r} : /\ pc'[q] = pc[q] /\ unsaved'[q] = unsaved[q]
                                  /\ Key(q)' = Key(q) /\ inserted'[q] = inserted[q]
    BY <1>7 DEF Commit, Close, TypeOK, Key
  <2>2. inserted'[r] = {} /\ pc'[r] # "count"
    BY <1>7 DEF Commit, Close, TypeOK
  <2>3. \A q \in Requests \ {r} : HasRow(q) => Key(q) # Key(r)
    BY <1>7 DEF Commit, RowInv
  <2>4. DOMAIN rows' = DOMAIN rows \cup {Key(r)}
    BY <1>7 DEF Commit
  <2> QED
    BY <2>1, <2>2, <2>3, <2>4 DEF RowInv
<1>8. ASSUME NEW r \in Requests, Leave(r) PROVE RowInv'
  BY <1>8 DEF Leave, Close, TypeOK, RowInv, Key
<1>9. ASSUME NEW r \in Requests, Fail(r) PROVE RowInv'
  BY <1>9 DEF Fail, Close, TypeOK, RowInv, Key
<1>10. CASE Midnight
  BY <1>10 DEF Midnight, TypeOK, RowInv, Key
<1>11. CASE UNCHANGED vars
  BY <1>11 DEF vars, TypeOK, RowInv, Key
<1> QED
  BY <1>1, <1>2, <1>3, <1>4, <1>5, <1>6, <1>7, <1>8, <1>9, <1>10, <1>11
  DEF Next, Step

LEMMA ExactStep ==
  TypeOK /\ NamedInv /\ RowInv /\ ExactInv /\ [Next]_vars => ExactInv'
<1> SUFFICES ASSUME TypeOK, NamedInv, RowInv, ExactInv, [Next]_vars PROVE ExactInv'
  OBVIOUS
<1> USE DEF dbVars, reqVars, histVars, Counting
<1>1. ASSUME NEW r \in Requests, NEW u \in Users, NEW review \in BOOLEAN,
             NEW blocked \in BOOLEAN, NEW findings \in BOOLEAN,
             Start(r, u, review, blocked, findings)
      PROVE  ExactInv'
  BY <1>1 DEF Start, TypeOK, ExactInv, Key, Current
<1>2. ASSUME NEW r \in Requests, StartAnonymous(r) PROVE ExactInv'
  BY <1>2 DEF StartAnonymous, TypeOK, ExactInv, Key, Current
<1>3. ASSUME NEW r \in Requests, FindUser(r) PROVE ExactInv'
  BY <1>3 DEF FindUser, TypeOK, ExactInv, Key, Current
<1>4. ASSUME NEW r \in Requests, AddUser(r) PROVE ExactInv'
  <2>1. /\ \A q \in Requests : Counting(q)' =>
              Counting(q) /\ held'[q] = held[q] /\ Key(q)' = Key(q)
        /\ rows' = rows /\ events' = events /\ raced' = raced
    BY <1>4 DEF AddUser, Close, TypeOK, Key
  <2> QED
    BY <2>1 DEF ExactInv, Current
<1>5. ASSUME NEW r \in Requests, FindRow(r) PROVE ExactInv'
  <2>1. /\ \A q \in Requests \ {r} : Counting(q)' =>
              Counting(q) /\ held'[q] = held[q] /\ Key(q)' = Key(q)
        /\ rows' = rows /\ events' = events /\ raced' = raced
    BY <1>5 DEF FindRow, TypeOK, Key
  <2>2. Counting(r)' => Key(r)' \in DOMAIN rows /\ held'[r] = rows[Key(r)']
    BY <1>5 DEF FindRow, TypeOK, Key
  <2> QED
    BY <2>1, <2>2 DEF ExactInv, Current
<1>6. ASSUME NEW r \in Requests, AddRow(r) PROVE ExactInv'
  <2>1. /\ \A q \in Requests \ {r} : Counting(q)' =>
              Counting(q) /\ held'[q] = held[q] /\ Key(q)' = Key(q)
        /\ rows' = rows /\ events' = events /\ raced' = raced
    BY <1>6 DEF AddRow, Close, TypeOK, Key
  <2>2. Counting(r)' => Key(r)' \notin DOMAIN rows /\ held'[r] = Zero
    BY <1>6 DEF AddRow, Close, TypeOK, Key
  <2> QED
    BY <2>1, <2>2 DEF ExactInv, Current
<1>7. ASSUME NEW r \in Requests, Commit(r) PROVE ExactInv'
  <2>0. PICK k : k = Key(r)
    OBVIOUS
  <2>1. k \in Users \X Days /\ held[r] \in Counters /\ Counting(r)
    BY <1>7, <2>0 DEF Commit, TypeOK, NamedInv, Key
  <2>2. /\ events'[k] = Plus(events[k], job[r].blocked)
        /\ \A j \in Users \X Days : j # k => events'[j] = events[j]
        /\ raced \subseteq raced' /\ raced' \subseteq raced \cup {k}
    BY <1>7, <2>0, <2>1 DEF Commit, TypeOK
  <2>3. /\ DOMAIN rows' = DOMAIN rows \cup {k} /\ rows'[k] = Written(r)
        /\ \A j \in DOMAIN rows : j # k => rows'[j] = rows[j]
    BY <1>7, <2>0 DEF Commit
  <2>4. \A j \in Users \X Days : j # k => Current(j)' = Current(j)
    BY <2>3 DEF Current
  <2>5. ASSUME k \notin raced PROVE events'[k] = Current(k)'
    <3>1. held[r] = Current(k) /\ events[k] = Current(k)
      BY <2>0, <2>1, <2>5 DEF ExactInv
    <3>2. Written(r) = Plus(held[r], job[r].blocked)
      <4>1. CASE k \notin DOMAIN rows
        BY <2>0, <4>1 DEF Written
      <4>2. CASE k \in DOMAIN rows
        <5>1. rows[k] = held[r]
          BY <3>1, <4>2 DEF Current
        <5>2. Plus(held[r], job[r].blocked) \in Counters
          BY <2>1 DEF Plus, Counters
        <5>3. \A c \in Counters, n \in Nat :
                c.blocked = n => [c EXCEPT !.blocked = n] = c
          BY DEF Counters
        <5> QED
          BY <2>0, <2>1, <4>2, <5>1, <5>2, <5>3 DEF Written, Counters
      <4> QED
        BY <4>1, <4>2
    <3>3. Current(k)' = Written(r)
      BY <2>3 DEF Current
    <3> QED
      BY <2>2, <3>1, <3>2, <3>3
  <2>6. \A j \in Users \X Days : j \notin raced' => events'[j] = Current(j)'
    BY <2>2, <2>4, <2>5 DEF ExactInv
  <2>7. \A q \in Requests : Counting(q)' => q # r /\ Counting(q)
           /\ held'[q] = held[q] /\ Key(q)' = Key(q) /\ Key(q) \in Users \X Days
    BY <1>7 DEF Commit, Close, TypeOK, NamedInv, Key
  <2>8. \A q \in Requests \ {r} : Counting(q) /\ Key(q) = k => k \in raced'
    BY <1>7, <2>0 DEF Commit
  <2>9. ASSUME NEW q \in Requests, Counting(q)', Key(q)' \notin raced'
        PROVE  (held[q] = Current(Key(q)))'
    <3>1. PICK j : j = Key(q) /\ j = Key(q)'
      BY <2>7, <2>9
    <3>2. j # k /\ j \notin raced
      BY <2>2, <2>7, <2>8, <2>9, <3>1
    <3>3. held[q] = Current(j)
      BY <2>7, <2>9, <3>1, <3>2 DEF ExactInv
    <3>4. Current(j)' = Current(j)
      BY <2>3, <3>2 DEF Current
    <3> QED
      BY <2>7, <2>9, <3>1, <3>3, <3>4 DEF Current
  <2> QED
    BY <2>6, <2>9 DEF ExactInv
<1>8. ASSUME NEW r \in Requests, Leave(r) PROVE ExactInv'
  BY <1>8 DEF Leave, Close, TypeOK, ExactInv, Key, Current
<1>9. ASSUME NEW r \in Requests, Fail(r) PROVE ExactInv'
  BY <1>9 DEF Fail, Close, TypeOK, ExactInv, Key, Current
<1>10. CASE Midnight
  BY <1>10 DEF Midnight, TypeOK, ExactInv, Key, Current
<1>11. CASE UNCHANGED vars
  BY <1>11 DEF vars, TypeOK, ExactInv, Key, Current
<1> QED
  BY <1>1, <1>2, <1>3, <1>4, <1>5, <1>6, <1>7, <1>8, <1>9, <1>10, <1>11
  DEF Next, Step

\* As long as nobody commits a row while somebody else holds it, counters and
\* requests agree exactly, whatever fails, races to insert or passes midnight.
THEOREM CountersExact == Spec => []ExactUnlessRaced
<1>1. Spec => [](TypeOK /\ NamedInv)
  BY TypeInit, TypeStep, PTL DEF Spec
<1>2. Spec => []RowInv
  BY <1>1, ExactInit, RowStep, PTL DEF Spec
<1>3. Spec => []ExactInv
  BY <1>1, <1>2, ExactInit, ExactStep, PTL DEF Spec
<1>4. ExactInv => ExactUnlessRaced
  BY DEF ExactInv, ExactUnlessRaced, Current
<1> QED
  BY <1>3, <1>4, PTL

-----------------------------------------------------------------------------
(***************************************************************************)
(* Waiting for the inserts of others.                                      *)
(***************************************************************************)
\* r waits for the transaction of q, which has inserted what r is to insert.
WaitsFor(r, q) ==
  \/ pc[r] = "add_user" /\ "user" \in inserted[q] /\ job[q].user = job[r].user
  \/ pc[r] = "add_row"  /\ "row" \in inserted[q] /\ Key(q) = Key(r)

\* Whoever a request waits for waits at most for a request that does not wait:
\* there is no circle of requests, however many there are.
NoCircle ==
  \A r, q, t \in Requests : WaitsFor(r, q) /\ WaitsFor(q, t) =>
    \A s \in Requests : ~WaitsFor(t, s)

\* Users are inserted before rows, and a row only just before the commit.
OrderInv ==
  \A r \in Requests :
    /\ pc[r] \in {"idle", "find_user", "add_user"} => inserted[r] = {}
    /\ "row" \in inserted[r] => pc[r] = "count"

LEMMA OrderInit == Init => OrderInv
BY DEF Init, OrderInv

LEMMA OrderStep == TypeOK /\ OrderInv /\ [Next]_vars => OrderInv'
<1> SUFFICES ASSUME TypeOK, OrderInv, [Next]_vars PROVE OrderInv'
  OBVIOUS
<1> USE DEF dbVars, reqVars, histVars
<1>1. ASSUME NEW r \in Requests, Close(r) PROVE OrderInv'
  BY <1>1 DEF Close, TypeOK, OrderInv
<1>2. ASSUME NEW r \in Requests, NEW u \in Users, NEW review \in BOOLEAN,
             NEW blocked \in BOOLEAN, NEW findings \in BOOLEAN,
             Start(r, u, review, blocked, findings)
      PROVE  OrderInv'
  BY <1>2 DEF Start, TypeOK, OrderInv
<1>3. ASSUME NEW r \in Requests, StartAnonymous(r) \/ FindUser(r) \/ FindRow(r) PROVE OrderInv'
  BY <1>3 DEF StartAnonymous, FindUser, FindRow, TypeOK, OrderInv
<1>4. ASSUME NEW r \in Requests, AddUser(r) PROVE OrderInv'
  BY <1>1, <1>4 DEF AddUser, TypeOK, OrderInv
<1>5. ASSUME NEW r \in Requests, AddRow(r) PROVE OrderInv'
  BY <1>1, <1>5 DEF AddRow, TypeOK, OrderInv
<1>6. ASSUME NEW r \in Requests, Commit(r) PROVE OrderInv'
  BY <1>1, <1>6 DEF Commit, TypeOK, OrderInv
<1>7. ASSUME NEW r \in Requests, Leave(r) \/ Fail(r) PROVE OrderInv'
  BY <1>1, <1>7 DEF Leave, Fail
<1>8. CASE Midnight \/ UNCHANGED vars
  BY <1>8 DEF Midnight, vars, OrderInv
<1> QED
  BY <1>2, <1>3, <1>4, <1>5, <1>6, <1>7, <1>8 DEF Next, Step

\* _update_user_behavior flushes the user before the row: requests that wait
\* for each other's inserts never wait in a circle, so that PostgreSQL has no
\* deadlock to resolve.
THEOREM InsertsNeverDeadlock == Spec => []NoCircle
<1>1. Spec => []TypeOK
  BY TypeCorrect
<1>2. OrderInv => NoCircle
  BY DEF OrderInv, NoCircle, WaitsFor
<1> QED
  BY <1>1, <1>2, OrderInit, OrderStep, PTL DEF Spec

-----------------------------------------------------------------------------
(***************************************************************************)
(* Rows that nobody raced for.                                             *)
(***************************************************************************)
\* No row claims more blocked requests than requests, unless it was raced for.
RateSound == \A k \in DOMAIN rows : k \notin raced => rows[k].blocked <= rows[k].total

\* Nor do the requests themselves.
EventInv == \A k \in Users \X Days : events[k].blocked <= events[k].total

LEMMA EventStep == TypeOK /\ NamedInv /\ EventInv /\ [Next]_vars => EventInv'
<1> SUFFICES ASSUME TypeOK, NamedInv, EventInv, [Next]_vars PROVE EventInv'
  OBVIOUS
<1> USE DEF dbVars, reqVars, histVars
<1>1. CASE UNCHANGED events
  BY <1>1 DEF EventInv
<1>2. ASSUME NEW r \in Requests, Commit(r) PROVE EventInv'
  <2>1. Key(r) \in Users \X Days
    BY <1>2 DEF Commit, TypeOK, NamedInv, Counting, Key
  <2>2. events' = [events EXCEPT ![Key(r)] = Plus(@, job[r].blocked)]
    BY <1>2 DEF Commit
  <2>3. /\ Plus(events[Key(r)], job[r].blocked).blocked
             <= Plus(events[Key(r)], job[r].blocked).total
        /\ \A k \in Users \X Days : k # Key(r) => events'[k] = events[k]
        /\ events'[Key(r)] = Plus(events[Key(r)], job[r].blocked)
    BY <2>1, <2>2 DEF TypeOK, EventInv, Plus, Counters
  <2> QED
    BY <2>3 DEF EventInv
<1>3. ASSUME NEW r \in Requests, Step(r), ~Commit(r) PROVE UNCHANGED events
  BY <1>3 DEF Step, Start, StartAnonymous, FindUser, AddUser, FindRow, AddRow, Leave, Fail
<1> QED
  BY <1>1, <1>2, <1>3 DEF Next, Midnight, vars

\* Of a row that nobody raced for, the dashboard's rate is a percentage: it is
\* the lost updates that take the rate beyond 100, and nothing else.
THEOREM RatesSoundUnlessRaced == Spec => []RateSound
<1>1. Spec => [](TypeOK /\ NamedInv)
  BY TypeInit, TypeStep, PTL DEF Spec
<1>2. Init => EventInv
  BY DEF Init, EventInv, Zero
<1>3. Spec => []EventInv
  BY <1>1, <1>2, EventStep, PTL DEF Spec
<1>4. TypeOK /\ EventInv /\ ExactUnlessRaced => RateSound
  BY DEF TypeOK, EventInv, ExactUnlessRaced, RateSound
<1> QED
  BY <1>1, <1>3, <1>4, CountersExact, PTL

\* The counters are what was committed.
Exact == \A k \in Users \X Days : events[k] = IF k \in DOMAIN rows THEN rows[k] ELSE Zero

Unraced == raced = {}

\* Nobody races with himself: with one request at a time the counters are
\* exact, whatever fails, is rolled back or passes midnight.
THEOREM SerialCountersExact ==
  ASSUME \A r, q \in Requests : r = q
  PROVE  Spec => []Exact
<1>1. Init => Unraced
  BY DEF Init, Unraced
<1>2. Unraced /\ [Next]_vars => Unraced'
  BY DEF Unraced, Next, Step, Start, StartAnonymous, FindUser, AddUser, FindRow, AddRow, Commit,
     Leave, Fail, Midnight, vars, histVars
<1>3. Unraced /\ ExactUnlessRaced => Exact
  BY DEF Unraced, ExactUnlessRaced, Exact
<1> QED
  BY <1>1, <1>2, <1>3, CountersExact, PTL DEF Spec
=============================================================================
