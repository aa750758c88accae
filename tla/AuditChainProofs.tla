-------------------------- MODULE AuditChainProofs --------------------------
(***************************************************************************)
(* Theorems about AuditChain for every set of requests and every bound.    *)
(***************************************************************************)
EXTENDS AuditChain, FiniteSetTheorems, WellFoundedInduction, TLAPS

USE DEF Requests

-----------------------------------------------------------------------------
(***************************************************************************)
(* Type correctness.                                                       *)
(***************************************************************************)
LEMMA TypeInit == Init => TypeOK
<1> SUFFICES ASSUME Init PROVE TypeOK
  OBVIOUS
<1>1. NoBlock.id \in Nat /\ NoBlock.last_log_id \in Nat
  BY DEF NoBlock
<1>2. /\ pc \in [Requests -> {"idle", "writing", "logged", "sealing", "linked",
                           "inserted"}]
      /\ since \in [Requests -> Nat] /\ todo \in [Requests -> Nat]
      /\ batch \in [Requests -> SUBSET Nat]
      /\ lastId \in [Requests -> Nat]
      /\ DOMAIN prevHash = Requests /\ DOMAIN block = Requests
  BY DEF Init
<1>3. \A r \in Requests : block[r] = NoBlock
  BY DEF Init
<1>4. /\ detections \in Nat /\ day \in Nat
      /\ nextLog \in Nat \ {0} /\ nextBlock \in Nat \ {0}
      /\ logs = {} /\ chain = {} /\ committed = {} /\ overlap = FALSE
  BY DEF Init
<1> QED
  BY <1>1, <1>2, <1>3, <1>4 DEF TypeOK

\* The rows a commit makes visible have the type of a row.
LEMMA NewRowsTyped ==
  ASSUME TypeOK, NEW r \in Requests,
         logs' = logs \cup {[id |-> i, day |-> since[r]] : i \in batch[r]}
  PROVE  \A l \in logs' : l.id \in Nat /\ l.day \in Nat
<1> TAKE l \in logs'
<1>1. CASE l \in logs
  BY <1>1 DEF TypeOK
<1>2. ASSUME NEW i \in batch[r], l = [id |-> i, day |-> since[r]]
      PROVE  l.id \in Nat /\ l.day \in Nat
  BY <1>2 DEF TypeOK
<1> QED
  BY <1>1, <1>2

\* The columns and locals keep their types through every step.
LEMMA TypeStep == TypeOK /\ [Next]_vars => TypeOK'
<1> SUFFICES ASSUME TypeOK, [Next]_vars PROVE TypeOK'
  OBVIOUS
<1> USE ConstantsAssumption DEF dbVars, reqVars, histVars
<1>1. ASSUME NEW r \in Requests, NEW n \in 0..MaxBatch, Detect(r, n) PROVE TypeOK'
  BY <1>1 DEF Detect, TypeOK
<1>2. ASSUME NEW r \in Requests, InsertLog(r) PROVE TypeOK'
  BY <1>2 DEF InsertLog, TypeOK
<1>3. ASSUME NEW r \in Requests, CommitLogs(r) PROVE TypeOK'
  BY <1>3, NewRowsTyped DEF CommitLogs, TypeOK
<1>4. ASSUME NEW r \in Requests, CommitReview(r) PROVE TypeOK'
  BY <1>4, NewRowsTyped DEF CommitReview, Finish, TypeOK, NoBlock
<1>5. ASSUME NEW r \in Requests, ReadLastId(r) PROVE TypeOK'
  BY <1>5 DEF ReadLastId, Finish, TypeOK, NoBlock, IsLast
<1>6. ASSUME NEW r \in Requests, ReadPrevHash(r) PROVE TypeOK'
  BY <1>6 DEF ReadPrevHash, TypeOK, Sealing
<1>7. ASSUME NEW r \in Requests, NEW at \in Instants, InsertBlock(r, at) PROVE TypeOK'
  BY <1>7 DEF InsertBlock, TypeOK
<1>8. ASSUME NEW r \in Requests, CommitBlock(r) PROVE TypeOK'
  BY <1>8 DEF CommitBlock, Finish, TypeOK, NoBlock
<1>9. ASSUME NEW r \in Requests, Fail(r) PROVE TypeOK'
  BY <1>9 DEF Fail, Finish, TypeOK, NoBlock
<1>10. CASE Cleanup
  BY <1>10 DEF Cleanup, Expired, TypeOK
<1>11. CASE Tick
  BY <1>11 DEF Tick, TypeOK
<1>12. CASE UNCHANGED vars
  BY <1>12 DEF vars, TypeOK
<1> QED
  BY <1>1, <1>2, <1>3, <1>4, <1>5, <1>6, <1>7, <1>8, <1>9, <1>10, <1>11, <1>12
  DEF Next, Calm, Step

\* In every reachable state the variables hold what the code's columns and
\* locals hold.
THEOREM TypeCorrect == Spec => []TypeOK
BY TypeInit, TypeStep, PTL DEF Spec

-----------------------------------------------------------------------------
(***************************************************************************)
(* Sealing follows committing. The inductive invariant says, of every      *)
(* request past its commit, that its rows are committed and, until it has  *)
(* read last_id, still in the table: retention is longer than a request.   *)
(***************************************************************************)
LogInv ==
  /\ \A l \in logs : l.id \in committed
  /\ \A r \in Requests : pc[r] # "idle" => day <= since[r] + Retention
  /\ \A r \in Requests :
       pc[r] \in {"logged", "sealing", "linked", "inserted"} => batch[r] \subseteq committed
  /\ \A r \in Requests : pc[r] = "logged" =>
       \A i \in batch[r] : \E l \in logs : l.id = i /\ l.day = since[r]

LEMMA LogInit == Init => LogInv
BY DEF Init, LogInv

LEMMA LogStep == TypeOK /\ LogInv /\ [Next]_vars => LogInv'
<1> SUFFICES ASSUME TypeOK, LogInv, [Next]_vars PROVE LogInv'
  OBVIOUS
<1> USE ConstantsAssumption DEF dbVars, reqVars, histVars
<1>1. ASSUME NEW r \in Requests, NEW n \in 0..MaxBatch, Detect(r, n) PROVE LogInv'
  BY <1>1 DEF Detect, TypeOK, LogInv
<1>2. ASSUME NEW r \in Requests, InsertLog(r) PROVE LogInv'
  BY <1>2 DEF InsertLog, TypeOK, LogInv
<1>3. ASSUME NEW r \in Requests, CommitLogs(r) PROVE LogInv'
  <2>1. \A i \in batch[r] : [id |-> i, day |-> since[r]] \in logs'
    BY <1>3 DEF CommitLogs
  <2>2. \A l \in logs' : l.id \in committed'
    BY <1>3 DEF CommitLogs, LogInv
  <2>3. \A i \in batch[r] : \E l \in logs' : l.id = i /\ l.day = since[r]
    <3> TAKE i \in batch[r]
    <3>1. [id |-> i, day |-> since[r]] \in logs'
      BY <2>1
    <3> QED
      BY <3>1
  <2>4. logs \subseteq logs'
    BY <1>3 DEF CommitLogs
  <2> QED
    BY <1>3, <2>2, <2>3, <2>4 DEF CommitLogs, TypeOK, LogInv
<1>4. ASSUME NEW r \in Requests, CommitReview(r) PROVE LogInv'
  <2>1. \A l \in logs' : l.id \in committed'
    BY <1>4 DEF CommitReview, LogInv
  <2>2. logs \subseteq logs'
    BY <1>4 DEF CommitReview
  <2> QED
    BY <1>4, <2>1, <2>2 DEF CommitReview, Finish, TypeOK, LogInv
<1>5. ASSUME NEW r \in Requests, ReadLastId(r) PROVE LogInv'
  BY <1>5 DEF ReadLastId, Finish, TypeOK, LogInv
<1>6. ASSUME NEW r \in Requests, ReadPrevHash(r) PROVE LogInv'
  BY <1>6 DEF ReadPrevHash, TypeOK, LogInv
<1>7. ASSUME NEW r \in Requests, NEW at \in Instants, InsertBlock(r, at) PROVE LogInv'
  BY <1>7 DEF InsertBlock, TypeOK, LogInv
<1>8. ASSUME NEW r \in Requests, CommitBlock(r) PROVE LogInv'
  BY <1>8 DEF CommitBlock, Finish, TypeOK, LogInv
<1>9. ASSUME NEW r \in Requests, Fail(r) PROVE LogInv'
  BY <1>9 DEF Fail, Finish, TypeOK, LogInv
<1>10. CASE Cleanup
  <2>1. \A r \in Requests, l \in logs : pc[r] = "logged" /\ l.day = since[r] => l \in logs'
    BY <1>10 DEF Cleanup, Expired, TypeOK, LogInv
  <2> QED
    BY <1>10, <2>1 DEF Cleanup, TypeOK, LogInv
<1>11. CASE Tick
  BY <1>11 DEF Tick, TypeOK, LogInv
<1>12. CASE UNCHANGED vars
  BY <1>12 DEF vars, LogInv
<1> QED
  BY <1>1, <1>2, <1>3, <1>4, <1>5, <1>6, <1>7, <1>8, <1>9, <1>10, <1>11, <1>12
  DEF Next, Calm, Step

-----------------------------------------------------------------------------
(***************************************************************************)
(* Ids of blocks are unique, also among blocks that are not committed yet, *)
(* and every committed block has its batch in `covered'.                   *)
(***************************************************************************)
IdInv ==
  /\ \A b \in chain : b.id < nextBlock /\ b.id \in DOMAIN covered
  /\ \A r \in Requests : pc[r] = "inserted" =>
       block[r].id < nextBlock /\ \A b \in chain : b.id # block[r].id
  /\ \A q, r \in Requests :
       pc[q] = "inserted" /\ pc[r] = "inserted" /\ q # r => block[q].id # block[r].id

LEMMA IdInit == Init => IdInv
BY DEF Init, IdInv

LEMMA IdStep == TypeOK /\ IdInv /\ [Next]_vars => IdInv'
<1> SUFFICES ASSUME TypeOK, IdInv, [Next]_vars PROVE IdInv'
  OBVIOUS
<1> USE DEF dbVars, reqVars, histVars
<1>1. ASSUME NEW r \in Requests, NEW n \in 0..MaxBatch, Detect(r, n) PROVE IdInv'
  BY <1>1 DEF Detect, TypeOK, IdInv
<1>2. ASSUME NEW r \in Requests, InsertLog(r) PROVE IdInv'
  BY <1>2 DEF InsertLog, TypeOK, IdInv
<1>3. ASSUME NEW r \in Requests, CommitLogs(r) PROVE IdInv'
  BY <1>3 DEF CommitLogs, TypeOK, IdInv
<1>4. ASSUME NEW r \in Requests, CommitReview(r) PROVE IdInv'
  BY <1>4 DEF CommitReview, Finish, TypeOK, IdInv
<1>5. ASSUME NEW r \in Requests, ReadLastId(r) PROVE IdInv'
  BY <1>5 DEF ReadLastId, Finish, TypeOK, IdInv
<1>6. ASSUME NEW r \in Requests, ReadPrevHash(r) PROVE IdInv'
  BY <1>6 DEF ReadPrevHash, TypeOK, IdInv
<1>7. ASSUME NEW r \in Requests, NEW at \in Instants, InsertBlock(r, at) PROVE IdInv'
  <2>1. /\ block'[r].id = nextBlock /\ nextBlock' = nextBlock + 1
        /\ \A q \in Requests \ {r} : block'[q] = block[q] /\ pc'[q] = pc[q]
        /\ UNCHANGED <<chain, covered>>
    BY <1>7 DEF InsertBlock, TypeOK
  <2> QED
    BY <2>1 DEF TypeOK, IdInv
<1>8. ASSUME NEW r \in Requests, CommitBlock(r) PROVE IdInv'
  BY <1>8 DEF CommitBlock, Finish, TypeOK, IdInv
<1>9. ASSUME NEW r \in Requests, Fail(r) PROVE IdInv'
  BY <1>9 DEF Fail, Finish, TypeOK, IdInv
<1>10. CASE Cleanup
  BY <1>10 DEF Cleanup, IdInv
<1>11. CASE Tick
  BY <1>11 DEF Tick, IdInv
<1>12. CASE UNCHANGED vars
  BY <1>12 DEF vars, IdInv
<1> QED
  BY <1>1, <1>2, <1>3, <1>4, <1>5, <1>6, <1>7, <1>8, <1>9, <1>10, <1>11, <1>12
  DEF Next, Calm, Step

-----------------------------------------------------------------------------
(***************************************************************************)
(* What a sealing request holds will do for a committed block: a committed *)
(* last_id that no row of its batch exceeds.                               *)
(***************************************************************************)
SealInv ==
  /\ \A r \in Requests : pc[r] \in {"sealing", "linked"} =>
       lastId[r] \in committed /\ \A i \in batch[r] : i <= lastId[r]
  /\ \A r \in Requests : pc[r] = "inserted" =>
       /\ block[r].last_log_id \in committed
       /\ \A i \in batch[r] : i <= block[r].last_log_id
  /\ SealsFollowCommits

LEMMA SealInit == Init => SealInv
BY DEF Init, SealInv, SealsFollowCommits

LEMMA SealStep == TypeOK /\ LogInv /\ IdInv /\ SealInv /\ [Next]_vars => SealInv'
<1> SUFFICES ASSUME TypeOK, LogInv, IdInv, SealInv, [Next]_vars PROVE SealInv'
  OBVIOUS
<1> USE DEF dbVars, reqVars, histVars
<1>1. ASSUME NEW r \in Requests, NEW n \in 0..MaxBatch, Detect(r, n) PROVE SealInv'
  BY <1>1 DEF Detect, TypeOK, SealInv, SealsFollowCommits
<1>2. ASSUME NEW r \in Requests, InsertLog(r) PROVE SealInv'
  BY <1>2 DEF InsertLog, TypeOK, SealInv, SealsFollowCommits
<1>3. ASSUME NEW r \in Requests, CommitLogs(r) PROVE SealInv'
  BY <1>3 DEF CommitLogs, TypeOK, SealInv, SealsFollowCommits
<1>4. ASSUME NEW r \in Requests, CommitReview(r) PROVE SealInv'
  BY <1>4 DEF CommitReview, Finish, TypeOK, SealInv, SealsFollowCommits
<1>5. ASSUME NEW r \in Requests, ReadLastId(r) PROVE SealInv'
  <2>1. CASE Finish(r)
    BY <1>5, <2>1 DEF ReadLastId, Finish, TypeOK, SealInv, SealsFollowCommits
  <2>2. ASSUME NEW l \in logs, IsLast(l, logs), lastId' = [lastId EXCEPT ![r] = l.id],
               pc' = [pc EXCEPT ![r] = "sealing"], UNCHANGED <<batch, block>>
        PROVE  SealInv'
    <3>1. l.id \in committed /\ \A i \in batch[r] : i <= l.id
      BY <1>5, <2>2 DEF ReadLastId, IsLast, LogInv
    <3> QED
      BY <1>5, <2>2, <3>1 DEF ReadLastId, TypeOK, SealInv, SealsFollowCommits
  <2> QED
    BY <1>5, <2>1, <2>2 DEF ReadLastId
<1>6. ASSUME NEW r \in Requests, ReadPrevHash(r) PROVE SealInv'
  BY <1>6 DEF ReadPrevHash, TypeOK, SealInv, SealsFollowCommits
<1>7. ASSUME NEW r \in Requests, NEW at \in Instants, InsertBlock(r, at) PROVE SealInv'
  <2>1. /\ block'[r].last_log_id = lastId[r]
        /\ \A q \in Requests \ {r} : block'[q] = block[q] /\ pc'[q] = pc[q]
        /\ pc'[r] = "inserted" /\ pc[r] = "linked"
        /\ UNCHANGED <<chain, covered, committed, lastId, batch>>
    BY <1>7 DEF InsertBlock, TypeOK
  <2> QED
    BY <2>1 DEF SealInv, SealsFollowCommits
<1>8. ASSUME NEW r \in Requests, CommitBlock(r) PROVE SealInv'
  <2>1. SealsFollowCommits'
    <3>1. \A b \in chain : covered'[b.id] = covered[b.id]
      BY <1>8 DEF CommitBlock, IdInv
    <3>2. covered'[block[r].id] = batch[r] /\ batch[r] \subseteq committed
      BY <1>8 DEF CommitBlock, LogInv
    <3> QED
      BY <1>8, <3>1, <3>2 DEF CommitBlock, SealInv, SealsFollowCommits
  <2> QED
    BY <1>8, <2>1 DEF CommitBlock, Finish, TypeOK, SealInv
<1>9. ASSUME NEW r \in Requests, Fail(r) PROVE SealInv'
  BY <1>9 DEF Fail, Finish, TypeOK, SealInv, SealsFollowCommits
<1>10. CASE Cleanup
  BY <1>10 DEF Cleanup, SealInv, SealsFollowCommits
<1>11. CASE Tick
  BY <1>11 DEF Tick, SealInv, SealsFollowCommits
<1>12. CASE UNCHANGED vars
  BY <1>12 DEF vars, SealInv, SealsFollowCommits
<1> QED
  BY <1>1, <1>2, <1>3, <1>4, <1>5, <1>6, <1>7, <1>8, <1>9, <1>10, <1>11, <1>12
  DEF Next, Calm, Step

\* Whatever the number of requests and however they interleave, fail and meet
\* the cleanup, a block is made of committed rows and its last_log_id is not
\* smaller than any of them.
THEOREM SealsAreSound == Spec => []SealsFollowCommits
<1>1. Init => TypeOK /\ LogInv /\ IdInv /\ SealInv
  BY TypeInit, LogInit, IdInit, SealInit
<1>2. TypeOK /\ LogInv /\ IdInv /\ SealInv /\ [Next]_vars
      => (TypeOK /\ LogInv /\ IdInv /\ SealInv)'
  BY TypeStep, LogStep, IdStep, SealStep
<1>3. SealInv => SealsFollowCommits
  BY DEF SealInv
<1> QED
  BY <1>1, <1>2, <1>3, PTL DEF Spec

-----------------------------------------------------------------------------
(***************************************************************************)
(* The table is a tree. A request that has read a hash has read it from a  *)
(* committed row, and the row it inserts gets a larger id.                 *)
(***************************************************************************)
TreeInv ==
  /\ \A r \in Requests : pc[r] = "linked" =>
       prevHash[r] = Genesis \/ \E p \in chain : prevHash[r] = p.batch_hash
  /\ \A r \in Requests : pc[r] = "inserted" => Ledger!Rooted(block[r], chain)
  /\ LinksLeadBack

LEMMA TreeInit == Init => TreeInv
BY DEF Init, TreeInv, LinksLeadBack

LEMMA TreeStep == TypeOK /\ IdInv /\ TreeInv /\ [Next]_vars => TreeInv'
<1> SUFFICES ASSUME TypeOK, IdInv, TreeInv, [Next]_vars PROVE TreeInv'
  OBVIOUS
<1> USE DEF dbVars, reqVars, histVars
<1>1. ASSUME NEW r \in Requests, NEW n \in 0..MaxBatch, Detect(r, n) PROVE TreeInv'
  BY <1>1 DEF Detect, TypeOK, TreeInv, LinksLeadBack, Ledger!Rooted
<1>2. ASSUME NEW r \in Requests, InsertLog(r) PROVE TreeInv'
  BY <1>2 DEF InsertLog, TypeOK, TreeInv, LinksLeadBack, Ledger!Rooted
<1>3. ASSUME NEW r \in Requests, CommitLogs(r) PROVE TreeInv'
  BY <1>3 DEF CommitLogs, TypeOK, TreeInv, LinksLeadBack, Ledger!Rooted
<1>4. ASSUME NEW r \in Requests, CommitReview(r) PROVE TreeInv'
  BY <1>4 DEF CommitReview, Finish, TypeOK, TreeInv, LinksLeadBack, Ledger!Rooted
<1>5. ASSUME NEW r \in Requests, ReadLastId(r) PROVE TreeInv'
  BY <1>5 DEF ReadLastId, Finish, TypeOK, TreeInv, LinksLeadBack, Ledger!Rooted
<1>6. ASSUME NEW r \in Requests, ReadPrevHash(r) PROVE TreeInv'
  <2>1. prevHash'[r] = Genesis \/ \E p \in chain : prevHash'[r] = p.batch_hash
    BY <1>6 DEF ReadPrevHash, TypeOK
  <2>2. /\ \A q \in Requests \ {r} : prevHash'[q] = prevHash[q] /\ pc'[q] = pc[q]
        /\ pc'[r] = "linked" /\ UNCHANGED <<chain, block>>
    BY <1>6 DEF ReadPrevHash, TypeOK
  <2> QED
    BY <2>1, <2>2 DEF TreeInv, LinksLeadBack, Ledger!Rooted
<1>7. ASSUME NEW r \in Requests, NEW at \in Instants, InsertBlock(r, at) PROVE TreeInv'
  <2>1. /\ block'[r].prev_hash = prevHash[r] /\ block'[r].id = nextBlock
        /\ \A q \in Requests \ {r} : block'[q] = block[q] /\ pc'[q] = pc[q]
        /\ pc[r] = "linked" /\ pc'[r] = "inserted" /\ UNCHANGED <<chain, prevHash>>
    BY <1>7 DEF InsertBlock, TypeOK
  <2>2. Ledger!Rooted(block'[r], chain)
    BY <2>1 DEF TreeInv, IdInv, Ledger!Rooted
  <2> QED
    BY <2>1, <2>2 DEF TreeInv, LinksLeadBack, Ledger!Rooted
<1>8. ASSUME NEW r \in Requests, CommitBlock(r) PROVE TreeInv'
  <2>1. LinksLeadBack'
    BY <1>8 DEF CommitBlock, TreeInv, LinksLeadBack, Ledger!Rooted
  <2> QED
    BY <1>8, <2>1 DEF CommitBlock, Finish, TypeOK, TreeInv, Ledger!Rooted
<1>9. ASSUME NEW r \in Requests, Fail(r) PROVE TreeInv'
  BY <1>9 DEF Fail, Finish, TypeOK, TreeInv, LinksLeadBack, Ledger!Rooted
<1>10. CASE Cleanup
  BY <1>10 DEF Cleanup, TreeInv, LinksLeadBack, Ledger!Rooted
<1>11. CASE Tick
  BY <1>11 DEF Tick, TreeInv, LinksLeadBack, Ledger!Rooted
<1>12. CASE UNCHANGED vars
  BY <1>12 DEF vars, TreeInv, LinksLeadBack, Ledger!Rooted
<1> QED
  BY <1>1, <1>2, <1>3, <1>4, <1>5, <1>6, <1>7, <1>8, <1>9, <1>10, <1>11, <1>12
  DEF Next, Calm, Step

\* The chain, fork as it may, is rooted: every prev_hash is the genesis hash
\* or the hash of a committed block with a smaller id.
THEOREM ChainIsRooted == Spec => []LinksLeadBack
<1>1. Init => TypeOK /\ IdInv /\ TreeInv
  BY TypeInit, IdInit, TreeInit
<1>2. TypeOK /\ IdInv /\ TreeInv /\ [Next]_vars => (TypeOK /\ IdInv /\ TreeInv)'
  BY TypeStep, IdStep, TreeStep
<1>3. TreeInv => LinksLeadBack
  BY DEF TreeInv
<1> QED
  BY <1>1, <1>2, <1>3, PTL DEF Spec

\* Only CommitBlock touches the table, and what it does is a graft.
LEMMA GraftStep == IdInv /\ TreeInv /\ [Next]_vars
                   => [\E b \in chain' : Ledger!Graft(b)]_chain
<1> SUFFICES ASSUME IdInv, TreeInv, [Next]_vars
             PROVE  [\E b \in chain' : Ledger!Graft(b)]_chain
  OBVIOUS
<1>1. ASSUME NEW r \in Requests, CommitBlock(r)
      PROVE  \E b \in chain' : Ledger!Graft(b)
  <2>1. block[r] \in chain'
    BY <1>1 DEF CommitBlock
  <2>2. Ledger!Graft(block[r])
    BY <1>1 DEF CommitBlock, IdInv, TreeInv, Ledger!Graft, Ledger!Joins
  <2> QED
    BY <2>1, <2>2
<1>2. CASE ~\E r \in Requests : CommitBlock(r)
  BY <1>2 DEF Next, Calm, Step, Detect, InsertLog, CommitLogs, CommitReview,
     ReadLastId, ReadPrevHash, InsertBlock, Fail, Cleanup, Tick, vars,
     dbVars, reqVars, histVars
<1> QED
  BY <1>1, <1>2

\* The detailed specification implements the abstract one: every step of
\* every request is a graft of one new block or leaves the table alone.
THEOREM ImplementsTree == Spec => GrowsAsTree
<1>1. Init => TypeOK /\ IdInv /\ TreeInv
  BY TypeInit, IdInit, TreeInit
<1>2. TypeOK /\ IdInv /\ TreeInv /\ [Next]_vars => (TypeOK /\ IdInv /\ TreeInv)'
  BY TypeStep, IdStep, TreeStep
<1>3. Init => Ledger!Init
  BY DEF Init, Ledger!Init
<1> QED
  BY <1>1, <1>2, <1>3, GraftStep, PTL DEF Spec, GrowsAsTree, Ledger!TreeSpec

-----------------------------------------------------------------------------
(***************************************************************************)
(* Without overlap the table is a line: at most one request is sealing, it *)
(* extends the tip, and the tip does not move under it.                    *)
(***************************************************************************)
Line ==
  /\ \A q, r \in Requests : Sealing(q) /\ Sealing(r) => q = r
  /\ \A r \in Requests : pc[r] = "linked" => IsTipHash(prevHash[r], chain)
  /\ \A r \in Requests : pc[r] = "inserted" =>
       IsTipHash(block[r].prev_hash, chain) /\ \A b \in chain : b.id < block[r].id
  /\ VerifyChain(chain)

LineInv == ~overlap => Line

\* A row put behind the last one with the last one's hash keeps the table
\* verifiable.
LEMMA TipExtends ==
  ASSUME NEW rows, \A x \in rows : x.id \in Nat, VerifyChain(rows),
         NEW b, b.id \in Nat, \A x \in rows : x.id < b.id,
         IsTipHash(b.prev_hash, rows)
  PROVE  VerifyChain(rows \cup {b})
<1> DEFINE all == rows \cup {b}
<1>1. ASSUME NEW x \in rows PROVE Ledger!Linked(x, all)
  <2>1. Ledger!Linked(x, rows)
    BY DEF VerifyChain
  <2>2. CASE Ledger!First(x, rows) /\ x.prev_hash = Genesis
    BY <2>2 DEF Ledger!First, Ledger!Linked
  <2>3. ASSUME NEW p \in rows, Ledger!Follows(x, p, rows), x.prev_hash = p.batch_hash
        PROVE  Ledger!Linked(x, all)
    <3>1. Ledger!Follows(x, p, all)
      BY <2>3 DEF Ledger!Follows
    <3> QED
      BY <2>3, <3>1 DEF Ledger!Linked
  <2> QED
    BY <2>1, <2>2, <2>3 DEF Ledger!Linked
<1>2. Ledger!Linked(b, all)
  <2>1. CASE rows = {} /\ b.prev_hash = Genesis
    BY <2>1 DEF Ledger!Linked, Ledger!First
  <2>2. ASSUME NEW p \in rows, IsLast(p, rows), b.prev_hash = p.batch_hash
        PROVE  Ledger!Linked(b, all)
    <3>1. Ledger!Follows(b, p, all)
      BY <2>2 DEF IsLast, Ledger!Follows
    <3> QED
      BY <2>2, <3>1 DEF Ledger!Linked
  <2> QED
    BY <2>1, <2>2 DEF IsTipHash
<1> QED
  BY <1>1, <1>2 DEF VerifyChain

LEMMA LineInit == Init => LineInv
BY DEF Init, LineInv, Line, Sealing, VerifyChain

LEMMA LineStep == TypeOK /\ IdInv /\ LineInv /\ [Next]_vars => LineInv'
<1> SUFFICES ASSUME TypeOK, IdInv, LineInv, [Next]_vars, ~overlap' PROVE Line'
  BY DEF LineInv
<1> USE DEF dbVars, reqVars, histVars, Sealing
<1>0. Line
  BY DEF LineInv, Next, Calm, Step, Detect, InsertLog, CommitLogs, CommitReview,
     ReadLastId, ReadPrevHash, InsertBlock, CommitBlock, Fail, Cleanup, Tick, vars
<1>1. ASSUME NEW r \in Requests, NEW n \in 0..MaxBatch, Detect(r, n) PROVE Line'
  BY <1>0, <1>1 DEF Detect, TypeOK, Line, VerifyChain
<1>2. ASSUME NEW r \in Requests, InsertLog(r) PROVE Line'
  BY <1>0, <1>2 DEF InsertLog, TypeOK, Line, VerifyChain
<1>3. ASSUME NEW r \in Requests, CommitLogs(r) PROVE Line'
  BY <1>0, <1>3 DEF CommitLogs, TypeOK, Line, VerifyChain
<1>4. ASSUME NEW r \in Requests, CommitReview(r) PROVE Line'
  BY <1>0, <1>4 DEF CommitReview, Finish, TypeOK, Line, VerifyChain
<1>5. ASSUME NEW r \in Requests, ReadLastId(r) PROVE Line'
  BY <1>0, <1>5 DEF ReadLastId, Finish, TypeOK, Line, VerifyChain
<1>6. ASSUME NEW r \in Requests, ReadPrevHash(r) PROVE Line'
  <2>1. /\ IsTipHash(prevHash'[r], chain) /\ pc' = [pc EXCEPT ![r] = "linked"]
        /\ \A q \in Requests : ~Sealing(q)
        /\ UNCHANGED <<chain, block>>
    BY <1>6 DEF ReadPrevHash, TypeOK
  <2> QED
    BY <1>0, <2>1 DEF TypeOK, Line, VerifyChain
<1>7. ASSUME NEW r \in Requests, NEW at \in Instants, InsertBlock(r, at) PROVE Line'
  <2>1. /\ block'[r].prev_hash = prevHash[r] /\ block'[r].id = nextBlock
        /\ \A q \in Requests \ {r} : block'[q] = block[q] /\ pc'[q] = pc[q]
        /\ pc[r] = "linked" /\ pc'[r] = "inserted" /\ UNCHANGED <<chain, prevHash>>
    BY <1>7 DEF InsertBlock, TypeOK
  <2> QED
    BY <1>0, <2>1 DEF Line, IdInv, VerifyChain
<1>8. ASSUME NEW r \in Requests, CommitBlock(r) PROVE Line'
  <2>1. VerifyChain(chain')
    BY <1>0, <1>8, TipExtends DEF CommitBlock, Line, TypeOK
  <2>2. \A q \in Requests : pc'[q] \notin {"linked", "inserted"}
    BY <1>0, <1>8 DEF CommitBlock, Finish, TypeOK, Line
  <2> QED
    BY <2>1, <2>2 DEF Line, VerifyChain
<1>9. ASSUME NEW r \in Requests, Fail(r) PROVE Line'
  BY <1>0, <1>9 DEF Fail, Finish, TypeOK, Line, VerifyChain
<1>10. CASE Cleanup
  BY <1>0, <1>10 DEF Cleanup, Line, VerifyChain
<1>11. CASE Tick
  BY <1>0, <1>11 DEF Tick, Line, VerifyChain
<1>12. CASE UNCHANGED vars
  BY <1>0, <1>12 DEF vars, Line, VerifyChain
<1> QED
  BY <1>1, <1>2, <1>3, <1>4, <1>5, <1>6, <1>7, <1>8, <1>9, <1>10, <1>11, <1>12
  DEF Next, Calm, Step

\* verify_chain reports a broken chain only if two requests were sealing at
\* the same time: failures, roll-backs, cleanups and batch reviews, in any
\* number, do not break it.
THEOREM OnlyOverlapBreaksChain == Spec => []ForksNeedOverlap
<1>1. Init => TypeOK /\ IdInv /\ LineInv
  BY TypeInit, IdInit, LineInit
<1>2. TypeOK /\ IdInv /\ LineInv /\ [Next]_vars => (TypeOK /\ IdInv /\ LineInv)'
  BY TypeStep, IdStep, LineStep
<1>3. LineInv => ForksNeedOverlap
  BY DEF LineInv, Line, ForksNeedOverlap
<1> QED
  BY <1>1, <1>2, <1>3, PTL DEF Spec

-----------------------------------------------------------------------------
(***************************************************************************)
(* One sealer: with a single gateway the overlap never happens, and the    *)
(* table is the ledger of the documentation.                               *)
(***************************************************************************)
SealerInv ==
  /\ \A r \in Requests :
       pc[r] \in {"logged", "sealing", "linked", "inserted"} => r \in Gateways
  /\ ~overlap

LEMMA SealerInit == Init => SealerInv
BY DEF Init, SealerInv

LEMMA SealerStep ==
  ASSUME \A q, r \in Gateways : q = r
  PROVE  TypeOK /\ SealerInv /\ [Next]_vars => SealerInv'
<1> SUFFICES ASSUME TypeOK, SealerInv, [Next]_vars PROVE SealerInv'
  OBVIOUS
<1> USE DEF dbVars, reqVars, histVars
<1>1. ASSUME NEW r \in Requests, NEW n \in 0..MaxBatch, Detect(r, n) PROVE SealerInv'
  BY <1>1 DEF Detect, TypeOK, SealerInv
<1>2. ASSUME NEW r \in Requests, InsertLog(r) PROVE SealerInv'
  BY <1>2 DEF InsertLog, TypeOK, SealerInv
<1>3. ASSUME NEW r \in Requests, CommitLogs(r) PROVE SealerInv'
  BY <1>3 DEF CommitLogs, TypeOK, SealerInv
<1>4. ASSUME NEW r \in Requests, CommitReview(r) PROVE SealerInv'
  BY <1>4 DEF CommitReview, Finish, TypeOK, SealerInv
<1>5. ASSUME NEW r \in Requests, ReadLastId(r) PROVE SealerInv'
  BY <1>5 DEF ReadLastId, Finish, TypeOK, SealerInv
<1>6. ASSUME NEW r \in Requests, ReadPrevHash(r) PROVE SealerInv'
  <2>1. \A q \in Requests : ~Sealing(q)
    BY <1>6 DEF ReadPrevHash, Sealing, SealerInv
  <2> QED
    BY <1>6, <2>1 DEF ReadPrevHash, TypeOK, SealerInv
<1>7. ASSUME NEW r \in Requests, NEW at \in Instants, InsertBlock(r, at) PROVE SealerInv'
  BY <1>7 DEF InsertBlock, TypeOK, SealerInv
<1>8. ASSUME NEW r \in Requests, CommitBlock(r) PROVE SealerInv'
  BY <1>8 DEF CommitBlock, Finish, TypeOK, SealerInv
<1>9. ASSUME NEW r \in Requests, Fail(r) PROVE SealerInv'
  BY <1>9 DEF Fail, Finish, TypeOK, SealerInv
<1>10. CASE Cleanup
  BY <1>10 DEF Cleanup, SealerInv
<1>11. CASE Tick
  BY <1>11 DEF Tick, SealerInv
<1>12. CASE UNCHANGED vars
  BY <1>12 DEF vars, SealerInv
<1> QED
  BY <1>1, <1>2, <1>3, <1>4, <1>5, <1>6, <1>7, <1>8, <1>9, <1>10, <1>11, <1>12
  DEF Next, Calm, Step

\* A block committed without overlap extends the ledger at its end.
LEMMA ExtendStep ==
  TypeOK /\ IdInv /\ LineInv /\ SealerInv /\ (TypeOK /\ LineInv /\ SealerInv)' /\ [Next]_vars
  => [\E b \in chain' : Ledger!Extend(b)]_chain
<1> SUFFICES ASSUME TypeOK, IdInv, LineInv, SealerInv, (TypeOK /\ LineInv /\ SealerInv)', [Next]_vars
             PROVE  [\E b \in chain' : Ledger!Extend(b)]_chain
  OBVIOUS
<1>1. ASSUME NEW r \in Requests, CommitBlock(r)
      PROVE  \E b \in chain' : Ledger!Extend(b)
  <2>1. block[r] \in chain' /\ Ledger!Joins(block[r])
    BY <1>1 DEF CommitBlock, IdInv, Ledger!Joins
  <2>2. \A x \in chain : x.id < block[r].id
    BY <1>1 DEF CommitBlock, LineInv, SealerInv, Line
  <2>3. VerifyChain(chain')
    BY DEF LineInv, SealerInv, Line
  <2>4. Ledger!Extend(block[r])
    BY <2>1, <2>2, <2>3 DEF Ledger!Extend, VerifyChain
  <2> QED
    BY <2>1, <2>4
<1>2. CASE ~\E r \in Requests : CommitBlock(r)
  BY <1>2 DEF Next, Calm, Step, Detect, InsertLog, CommitLogs, CommitReview,
     ReadLastId, ReadPrevHash, InsertBlock, Fail, Cleanup, Tick, vars,
     dbVars, reqVars, histVars
<1> QED
  BY <1>1, <1>2

\* With at most one gateway, and any number of batch reviews, failures and
\* cleanups, the audit_chain table implements the linear ledger.
THEOREM OneSealerImplementsLedger ==
  ASSUME \A q, r \in Gateways : q = r
  PROVE  Spec => GrowsInLine
<1>1. Init => TypeOK /\ IdInv /\ LineInv /\ SealerInv
  BY TypeInit, IdInit, LineInit, SealerInit
<1>2. TypeOK /\ IdInv /\ LineInv /\ SealerInv /\ [Next]_vars
      => (TypeOK /\ IdInv /\ LineInv /\ SealerInv)'
  BY TypeStep, IdStep, LineStep, SealerStep
<1>3. Init => Ledger!Init
  BY DEF Init, Ledger!Init
<1> QED
  BY <1>1, <1>2, <1>3, ExtendStep, PTL DEF Spec, GrowsInLine, Ledger!LinearSpec

-----------------------------------------------------------------------------
(***************************************************************************)
(* No row is sealed twice. Batches of running requests are disjoint from   *)
(* each other and from the batches of committed blocks.                    *)
(***************************************************************************)
BatchInv ==
  /\ \A r \in Requests : IsFiniteSet(batch[r]) /\ \A i \in batch[r] : i < nextLog
  /\ \A r \in Requests : pc[r] = "idle" => batch[r] = {}
  /\ \A r \in Requests : pc[r] \in {"sealing", "linked", "inserted"} => batch[r] # {}
  /\ \A r \in Requests : pc[r] = "inserted" =>
       block[r].batch_count = Cardinality(batch[r])
  /\ \A q, r \in Requests : q # r => batch[q] \cap batch[r] = {}
  /\ \A b \in chain : \A i \in covered[b.id] : i \in Nat /\ i < nextLog
  /\ \A b \in chain : \A r \in Requests : batch[r] \cap covered[b.id] = {}
  /\ NoRowSealedTwice

LEMMA BatchInit == Init => BatchInv
BY FS_EmptySet DEF Init, BatchInv, NoRowSealedTwice

LEMMA BatchStep == TypeOK /\ IdInv /\ BatchInv /\ [Next]_vars => BatchInv'
<1> SUFFICES ASSUME TypeOK, IdInv, BatchInv, [Next]_vars PROVE BatchInv'
  OBVIOUS
<1> USE DEF dbVars, reqVars, histVars
<1>1. ASSUME NEW r \in Requests, NEW n \in 0..MaxBatch, Detect(r, n) PROVE BatchInv'
  BY <1>1 DEF Detect, TypeOK, BatchInv, NoRowSealedTwice
<1>2. ASSUME NEW r \in Requests, InsertLog(r) PROVE BatchInv'
  <2>1. /\ batch'[r] = batch[r] \cup {nextLog} /\ nextLog' = nextLog + 1
        /\ \A q \in Requests \ {r} : batch'[q] = batch[q]
        /\ UNCHANGED <<chain, covered, block, pc>> /\ pc[r] = "writing"
    BY <1>2 DEF InsertLog, TypeOK
  <2>2. IsFiniteSet(batch[r] \cup {nextLog})
    <3>1. IsFiniteSet(batch[r])
      BY DEF BatchInv
    <3> QED
      BY <3>1, FS_AddElement
  <2>3. nextLog \in Nat /\ \A q \in Requests : batch[q] \subseteq Nat /\ nextLog \notin batch[q]
    BY DEF TypeOK, BatchInv
  <2>4. \A b \in chain : nextLog \notin covered[b.id]
    BY <2>3 DEF BatchInv
  <2>5. \A q \in Requests : IsFiniteSet(batch'[q]) /\ \A i \in batch'[q] : i < nextLog'
    <3>1. \A i \in batch[r] \cup {nextLog} : i < nextLog + 1
      BY <2>3 DEF BatchInv
    <3>2. \A q \in Requests \ {r} : IsFiniteSet(batch[q]) /\ \A i \in batch[q] : i < nextLog + 1
      BY <2>3 DEF BatchInv
    <3> QED
      BY <2>1, <2>2, <3>1, <3>2
  <2>6. \A p, q \in Requests : p # q => batch'[p] \cap batch'[q] = {}
    BY <2>1, <2>3 DEF BatchInv
  <2>7. \A b \in chain : \A q \in Requests : batch'[q] \cap covered[b.id] = {}
    BY <2>1, <2>4 DEF BatchInv
  <2>8. \A b \in chain : \A i \in covered[b.id] : i \in Nat /\ i < nextLog + 1
    BY <2>3 DEF BatchInv
  <2>9. NoRowSealedTwice'
    BY <2>1 DEF BatchInv, NoRowSealedTwice
  <2>10. \A q \in Requests : /\ pc'[q] = "idle" => batch'[q] = {}
                             /\ pc'[q] \in {"sealing", "linked", "inserted"} => batch'[q] # {}
                             /\ pc'[q] = "inserted" =>
                                  block'[q].batch_count = Cardinality(batch'[q])
    BY <2>1 DEF BatchInv
  <2> QED
    BY <2>1, <2>5, <2>6, <2>7, <2>8, <2>9, <2>10 DEF BatchInv
<1>3. ASSUME NEW r \in Requests, CommitLogs(r) PROVE BatchInv'
  BY <1>3 DEF CommitLogs, TypeOK, BatchInv, NoRowSealedTwice
<1>4. ASSUME NEW r \in Requests, Finish(r), UNCHANGED <<chain, covered, nextLog>>
      PROVE  BatchInv'
  BY <1>4, FS_EmptySet DEF Finish, TypeOK, BatchInv, NoRowSealedTwice
<1>5. ASSUME NEW r \in Requests, CommitReview(r) \/ Fail(r) PROVE BatchInv'
  BY <1>4, <1>5 DEF CommitReview, Fail
<1>6. ASSUME NEW r \in Requests, ReadLastId(r) PROVE BatchInv'
  <2>1. CASE Finish(r)
    BY <1>4, <1>6, <2>1 DEF ReadLastId
  <2>2. CASE ~Finish(r)
    BY <1>6, <2>2 DEF ReadLastId, TypeOK, BatchInv, NoRowSealedTwice
  <2> QED
    BY <2>1, <2>2
<1>7. ASSUME NEW r \in Requests, ReadPrevHash(r) PROVE BatchInv'
  BY <1>7 DEF ReadPrevHash, TypeOK, BatchInv, NoRowSealedTwice
<1>8. ASSUME NEW r \in Requests, NEW at \in Instants, InsertBlock(r, at) PROVE BatchInv'
  <2>1. /\ block'[r].batch_count = Cardinality(batch[r])
        /\ \A q \in Requests \ {r} : block'[q] = block[q] /\ pc'[q] = pc[q]
        /\ pc[r] = "linked" /\ pc'[r] = "inserted"
        /\ UNCHANGED <<chain, covered, batch, nextLog>>
    BY <1>8 DEF InsertBlock, TypeOK
  <2> QED
    BY <2>1 DEF BatchInv, NoRowSealedTwice
<1>9. ASSUME NEW r \in Requests, CommitBlock(r) PROVE BatchInv'
  <2>1. /\ \A b \in chain : covered'[b.id] = covered[b.id] /\ b.id # block[r].id
        /\ covered'[block[r].id] = batch[r]
        /\ chain' = chain \cup {block[r]}
    BY <1>9 DEF CommitBlock, IdInv
  <2>2. block[r].batch_count = Cardinality(batch[r]) /\ batch[r] # {}
    BY <1>9 DEF CommitBlock, BatchInv
  <2>3. Cardinality(batch[r]) > 0
    BY <2>2, FS_EmptySet, FS_CardinalityType DEF BatchInv
  <2>4. NoRowSealedTwice'
    BY <2>1, <2>2, <2>3 DEF BatchInv, NoRowSealedTwice
  <2>5. /\ batch'[r] = {} /\ pc'[r] = "idle" /\ nextLog' = nextLog
        /\ \A q \in Requests \ {r} : batch'[q] = batch[q] /\ pc'[q] = pc[q]
                                   /\ block'[q] = block[q]
    BY <1>9 DEF CommitBlock, Finish, TypeOK
  <2>6. \A q \in Requests : /\ IsFiniteSet(batch'[q]) /\ \A i \in batch'[q] : i < nextLog'
                            /\ pc'[q] = "idle" => batch'[q] = {}
    BY <2>5, FS_EmptySet DEF BatchInv
  <2>7. \A q \in Requests : /\ pc'[q] \in {"sealing", "linked", "inserted"} => batch'[q] # {}
                            /\ pc'[q] = "inserted" =>
                                 block'[q].batch_count = Cardinality(batch'[q])
    BY <2>5 DEF BatchInv
  <2>8. \A p, q \in Requests : p # q => batch'[p] \cap batch'[q] = {}
    BY <2>5 DEF BatchInv
  <2>9. \A q \in Requests : \A b \in chain : batch'[q] \cap covered'[b.id] = {}
    BY <2>1, <2>5 DEF BatchInv
  <2>10. \A q \in Requests : batch'[q] \cap batch[r] = {}
    BY <2>5 DEF BatchInv
  <2>11. \A b \in chain : \A i \in covered'[b.id] : i \in Nat /\ i < nextLog'
    BY <2>1, <2>5 DEF BatchInv
  <2>12. \A i \in batch[r] : i \in Nat /\ i < nextLog'
    BY <2>5 DEF BatchInv, TypeOK
  <2>13. \A b \in chain' : \A i \in covered'[b.id] : i \in Nat /\ i < nextLog'
    BY <2>1, <2>11, <2>12
  <2>14. \A b \in chain' : \A q \in Requests : batch'[q] \cap covered'[b.id] = {}
    BY <2>1, <2>9, <2>10
  <2> QED
    BY <2>4, <2>6, <2>7, <2>8, <2>13, <2>14 DEF BatchInv
<1>10. CASE Cleanup
  BY <1>10 DEF Cleanup, BatchInv, NoRowSealedTwice
<1>11. CASE Tick
  BY <1>11 DEF Tick, BatchInv, NoRowSealedTwice
<1>12. CASE UNCHANGED vars
  BY <1>12 DEF vars, BatchInv, NoRowSealedTwice
<1> QED
  BY <1>1, <1>2, <1>3, <1>5, <1>6, <1>7, <1>8, <1>9, <1>10, <1>11, <1>12
  DEF Next, Calm, Step

\* The chain never claims more entries than were logged: every block counts
\* the rows it was made for, and no row is counted by two blocks.
THEOREM RowsSealedOnce == Spec => []NoRowSealedTwice
<1>1. Init => TypeOK /\ IdInv /\ BatchInv
  BY TypeInit, IdInit, BatchInit
<1>2. TypeOK /\ IdInv /\ BatchInv /\ [Next]_vars => (TypeOK /\ IdInv /\ BatchInv)'
  BY TypeStep, IdStep, BatchStep
<1>3. BatchInv => NoRowSealedTwice
  BY DEF BatchInv
<1> QED
  BY <1>1, <1>2, <1>3, PTL DEF Spec

-----------------------------------------------------------------------------
(***************************************************************************)
(* A broken chain stays broken. Hashes are collision-free, so each has a   *)
(* depth: the number of blocks it stands on. In a table that verifies, the *)
(* depth grows with the id. A late block with a small id would have to be  *)
(* the link of a row above it, and that row is already rooted below.       *)
(***************************************************************************)
\* depth gives every hash in `hashes' the number of blocks it stands on.
Measures(depth, hashes) ==
  /\ depth \in [hashes -> Nat]
  /\ Genesis \in hashes /\ depth[Genesis] = 0
  /\ \A h \in hashes \ {Genesis} : h[1] \in hashes /\ depth[h] = depth[h[1]] + 1

\* The hash of a block commits to its prev_hash.
Stands(b, hashes) ==
  b.batch_hash \in hashes \ {Genesis} /\ b.batch_hash[1] = b.prev_hash

DepthInv ==
  \E hashes, depth :
    /\ Measures(depth, hashes)
    /\ \A b \in chain : Stands(b, hashes)
    /\ \A r \in Requests : pc[r] = "inserted" => Stands(block[r], hashes)

LEMMA DepthInit == Init => DepthInv
<1> SUFFICES ASSUME Init PROVE DepthInv
  OBVIOUS
<1> DEFINE one == [h \in {Genesis} |-> 0]
<1>1. Measures(one, {Genesis})
  BY DEF Measures
<1>2. chain = {} /\ \A r \in Requests : pc[r] = "idle"
  BY DEF Init
<1> QED
  BY <1>1, <1>2 DEF DepthInv

\* A new hash on a known one is measured too.
LEMMA MeasureMore ==
  ASSUME NEW hashes, NEW depth, Measures(depth, hashes),
         NEW prev \in hashes, NEW h, h # Genesis, h[1] = prev
  PROVE  \E more : Measures(more, hashes \cup {h})
<1>1. CASE h \in hashes
  <2>1. hashes \cup {h} = hashes
    BY <1>1
  <2> QED
    BY <2>1
<1>2. CASE h \notin hashes
  <2> DEFINE more == [g \in hashes \cup {h} |-> IF g = h THEN depth[prev] + 1 ELSE depth[g]]
  <2>1. \A g \in hashes : more[g] = depth[g] /\ g # h
    BY <1>2
  <2>2. more[h] = depth[prev] + 1 /\ depth[prev] \in Nat
    BY DEF Measures
  <2>3. more \in [hashes \cup {h} -> Nat]
    BY <2>2 DEF Measures
  <2> HIDE DEF more
  <2>4. Genesis \in hashes /\ more[Genesis] = 0
    BY <2>1 DEF Measures
  <2>5. \A g \in hashes \ {Genesis} : g[1] \in hashes /\ more[g] = more[g[1]] + 1
    BY <2>1 DEF Measures
  <2>6. h[1] \in hashes /\ more[h] = more[h[1]] + 1
    BY <2>1, <2>2
  <2>7. \A g \in (hashes \cup {h}) \ {Genesis} :
          g[1] \in hashes \cup {h} /\ more[g] = more[g[1]] + 1
    BY <2>5, <2>6
  <2>8. Measures(more, hashes \cup {h})
    BY <2>3, <2>4, <2>7 DEF Measures
  <2> QED
    BY <2>8
<1> QED
  BY <1>1, <1>2

\* Only InsertBlock makes a block, and CommitBlock moves it to the table.
LEMMA BlockMoves ==
  ASSUME TypeOK, [Next]_vars, ~\E r \in Requests, at \in Instants : InsertBlock(r, at)
  PROVE  /\ \A b \in chain' : b \in chain \/ \E r \in Requests :
                                              pc[r] = "inserted" /\ b = block[r]
         /\ \A r \in Requests : pc'[r] = "inserted" =>
                                  pc[r] = "inserted" /\ block'[r] = block[r]
<1> USE DEF dbVars, reqVars, histVars
<1>1. ASSUME NEW r \in Requests, CommitBlock(r)
      PROVE  /\ \A b \in chain' : b \in chain \/ \E q \in Requests :
                                               pc[q] = "inserted" /\ b = block[q]
             /\ \A q \in Requests : pc'[q] = "inserted" =>
                                      pc[q] = "inserted" /\ block'[q] = block[q]
  BY <1>1 DEF CommitBlock, Finish, TypeOK
<1>2. CASE ~\E r \in Requests : CommitBlock(r)
  BY <1>2 DEF Next, Calm, Step, Detect, InsertLog, CommitLogs, CommitReview, Finish,
     ReadLastId, ReadPrevHash, Fail, Cleanup, Tick, vars, TypeOK
<1> QED
  BY <1>1, <1>2

LEMMA DepthStep == TypeOK /\ TreeInv /\ DepthInv /\ [Next]_vars => DepthInv'
<1> SUFFICES ASSUME TypeOK, TreeInv, DepthInv, [Next]_vars PROVE DepthInv'
  OBVIOUS
<1>0. PICK hashes, depth :
        /\ Measures(depth, hashes)
        /\ \A b \in chain : Stands(b, hashes)
        /\ \A r \in Requests : pc[r] = "inserted" => Stands(block[r], hashes)
  BY DEF DepthInv
<1>1. ASSUME NEW r \in Requests, NEW at \in Instants, InsertBlock(r, at)
      PROVE  DepthInv'
  <2> DEFINE h == BatchHash(prevHash[r], lastId[r], Cardinality(batch[r]), at)
  <2>1. /\ block'[r].batch_hash = h /\ block'[r].prev_hash = prevHash[r]
        /\ \A q \in Requests \ {r} : block'[q] = block[q] /\ pc'[q] = pc[q]
        /\ pc[r] = "linked" /\ chain' = chain
    BY <1>1 DEF InsertBlock, TypeOK, dbVars
  <2>2. prevHash[r] \in hashes
    BY <1>0, <2>1 DEF TreeInv, Stands, Measures
  <2>3. h # Genesis /\ h[1] = prevHash[r]
    BY DEF BatchHash, Genesis
  <2> HIDE DEF h
  <2>4. PICK more : Measures(more, hashes \cup {h})
    BY <1>0, <2>2, <2>3, MeasureMore
  <2>5. Stands(block'[r], hashes \cup {h})
    BY <2>1, <2>3 DEF Stands
  <2>6. \A b : Stands(b, hashes) => Stands(b, hashes \cup {h})
    BY DEF Stands
  <2>7. \A b \in chain' : Stands(b, hashes \cup {h})
    BY <1>0, <2>1, <2>6
  <2>8. \A q \in Requests : pc'[q] = "inserted" => Stands(block'[q], hashes \cup {h})
    BY <1>0, <2>1, <2>5, <2>6
  <2> QED
    BY <2>4, <2>7, <2>8 DEF DepthInv
<1>2. CASE ~\E r \in Requests, at \in Instants : InsertBlock(r, at)
  <2>1. /\ \A b \in chain' : Stands(b, hashes)
        /\ \A r \in Requests : pc'[r] = "inserted" => Stands(block'[r], hashes)
    BY <1>0, <1>2, BlockMoves
  <2> QED
    BY <1>0, <2>1 DEF DepthInv
<1> QED
  BY <1>1, <1>2

\* A set of natural numbers that is not empty has a least element.
LEMMA LeastOf ==
  ASSUME NEW S, S \subseteq Nat, S # {}
  PROVE  \E n \in S : \A m \in S : n <= m
<1>1. IsWellFoundedOn(OpToRel(<, Nat), Nat)
  BY NatLessThanWellFounded
<1>2. PICK n \in S : \A m \in S : ~ (<<m, n>> \in OpToRel(<, Nat))
  BY <1>1, WFMin
<1>3. \A m \in S : ~ (m < n)
  BY <1>2 DEF OpToRel
<1> QED
  BY <1>3

\* In a table that verifies, a row with a larger id has a deeper hash.
LEMMA DepthGrows ==
  ASSUME NEW rows, NEW hashes, NEW depth, Measures(depth, hashes),
         \A b \in rows : b.id \in Nat /\ Stands(b, hashes),
         \A a, b \in rows : a.id = b.id => a = b,
         VerifyChain(rows)
  PROVE  \A a, b \in rows : a.id < b.id => depth[a.batch_hash] < depth[b.batch_hash]
<1> DEFINE Bad == {b \in rows : \E a \in rows : a.id < b.id /\ ~ (depth[a.batch_hash] < depth[b.batch_hash])}
<1> SUFFICES ASSUME Bad # {} PROVE FALSE
  OBVIOUS
<1>0. \A b \in rows : /\ depth[b.batch_hash] \in Nat /\ depth[b.prev_hash] \in Nat
                      /\ depth[b.batch_hash] = depth[b.prev_hash] + 1
  BY DEF Measures, Stands
<1> DEFINE Low == {b.id : b \in Bad}
<1>1. PICK n \in Low : \A m \in Low : n <= m
  <2>1. Low \subseteq Nat /\ Low # {}
    OBVIOUS
  <2> QED
    BY <2>1, LeastOf
<1>2. PICK b \in Bad : n = b.id
  OBVIOUS
<1>3. PICK a \in rows : a.id < b.id /\ ~ (depth[a.batch_hash] < depth[b.batch_hash])
  OBVIOUS
<1>4. PICK p \in rows : Ledger!Follows(b, p, rows) /\ b.prev_hash = p.batch_hash
  BY <1>3 DEF VerifyChain, Ledger!Linked, Ledger!First
<1>5. p.id < b.id /\ a.id <= p.id
  BY <1>3, <1>4 DEF Ledger!Follows
<1>6. depth[p.batch_hash] < depth[b.batch_hash]
  BY <1>0, <1>4
<1>7. p \notin Bad
  BY <1>1, <1>2, <1>5
<1>8. a # p
  BY <1>3, <1>6
<1>9. a.id < p.id
  BY <1>5, <1>8
<1>10. depth[a.batch_hash] < depth[p.batch_hash]
  BY <1>7, <1>9
<1> QED
  BY <1>0, <1>3, <1>6, <1>10

\* A block committed does not mend a table that does not verify.
LEMMA NoBlockMends ==
  ASSUME NEW rows, NEW hashes, NEW depth, Measures(depth, hashes),
         NEW b, LET all == rows \cup {b} IN
           /\ \A x \in all : x.id \in Nat /\ Stands(x, hashes)
           /\ \A x, y \in all : x.id = y.id => x = y
           /\ VerifyChain(all),
         \A x \in rows : Ledger!Rooted(x, rows)
  PROVE  VerifyChain(rows)
<1> DEFINE all == rows \cup {b}
<1>1. \A x, y \in all : x.id < y.id => depth[x.batch_hash] < depth[y.batch_hash]
  BY DepthGrows
<1>2. SUFFICES ASSUME NEW c \in rows PROVE Ledger!Linked(c, rows)
  BY DEF VerifyChain
<1>3. CASE Ledger!First(c, all) /\ c.prev_hash = Genesis
  BY <1>3 DEF Ledger!First, Ledger!Linked
<1>4. ASSUME NEW p \in rows, Ledger!Follows(c, p, all), c.prev_hash = p.batch_hash
      PROVE  Ledger!Linked(c, rows)
  <2>1. Ledger!Follows(c, p, rows)
    BY <1>4 DEF Ledger!Follows
  <2> QED
    BY <1>4, <2>1 DEF Ledger!Linked
<1>5. ASSUME Ledger!Follows(c, b, all), c.prev_hash = b.batch_hash
      PROVE  Ledger!Linked(c, rows)
  <2>1. b.batch_hash # Genesis
    BY DEF Stands
  <2>2. PICK q \in rows : q.id < c.id /\ q.batch_hash = b.batch_hash
    BY <1>5, <2>1 DEF Ledger!Rooted
  <2>3. q.id <= b.id
    BY <1>5, <2>2 DEF Ledger!Follows
  <2>4. depth[q.batch_hash] = depth[b.batch_hash] /\ depth[b.batch_hash] \in Nat
    BY <2>2 DEF Measures, Stands
  <2>5. q = b
    BY <1>1, <2>3, <2>4
  <2> QED
    BY <1>4, <1>5, <2>5
<1> QED
  BY <1>3, <1>4, <1>5 DEF VerifyChain, Ledger!Linked

\* A committed id is not used again.
Distinct == \A a, b \in chain : a.id = b.id => a = b

LEMMA DistinctStep == IdInv /\ Distinct /\ [Next]_vars => Distinct'
<1> SUFFICES ASSUME IdInv, Distinct, [Next]_vars PROVE Distinct'
  OBVIOUS
<1>1. ASSUME NEW r \in Requests, CommitBlock(r) PROVE Distinct'
  BY <1>1 DEF CommitBlock, IdInv, Distinct
<1>2. CASE ~\E r \in Requests : CommitBlock(r)
  BY <1>2 DEF Next, Calm, Step, Detect, InsertLog, CommitLogs, CommitReview,
     ReadLastId, ReadPrevHash, InsertBlock, Fail, Cleanup, Tick, vars,
     dbVars, reqVars, histVars, Distinct
<1> QED
  BY <1>1, <1>2

LEMMA MendStep ==
  TypeOK /\ IdInv /\ TreeInv /\ DepthInv /\ Distinct /\ Distinct' /\ [Next]_vars
  => [VerifyChain(chain') => VerifyChain(chain)]_chain
<1> SUFFICES ASSUME TypeOK, IdInv, TreeInv, DepthInv, Distinct, Distinct', [Next]_vars
             PROVE  [VerifyChain(chain') => VerifyChain(chain)]_chain
  OBVIOUS
<1>1. ASSUME NEW r \in Requests, CommitBlock(r), VerifyChain(chain')
      PROVE  VerifyChain(chain)
  <2>1. chain' = chain \cup {block[r]} /\ pc[r] = "inserted"
    BY <1>1 DEF CommitBlock
  <2>2. PICK hashes, depth :
          /\ Measures(depth, hashes)
          /\ \A b \in chain : Stands(b, hashes)
          /\ \A q \in Requests : pc[q] = "inserted" => Stands(block[q], hashes)
    BY DEF DepthInv
  <2>3. \A b \in chain' : b.id \in Nat /\ Stands(b, hashes)
    BY <2>1, <2>2 DEF TypeOK
  <2>4. \A b \in chain : Ledger!Rooted(b, chain)
    BY DEF TreeInv, LinksLeadBack
  <2>5. \A x, y \in chain' : x.id = y.id => x = y
    BY DEF Distinct
  <2> QED
    BY <1>1, <2>1, <2>2, <2>3, <2>4, <2>5, NoBlockMends
<1>2. CASE ~\E r \in Requests : CommitBlock(r)
  BY <1>2 DEF Next, Calm, Step, Detect, InsertLog, CommitLogs, CommitReview,
     ReadLastId, ReadPrevHash, InsertBlock, Fail, Cleanup, Tick, vars,
     dbVars, reqVars, histVars
<1> QED
  BY <1>1, <1>2

\* A chain that failed verify_chain fails it for ever, however many requests
\* seal at the same time and in whatever order their blocks are committed: a
\* late block that fills a gap in the ids does not mend it.
THEOREM BrokenChainStaysBroken == Spec => BrokenForGood
<1>1. Init => TypeOK /\ IdInv /\ TreeInv /\ DepthInv /\ Distinct
  <2>1. Init => Distinct
    BY DEF Init, Distinct
  <2> QED
    BY <2>1, TypeInit, IdInit, TreeInit, DepthInit
<1>2. TypeOK /\ IdInv /\ TreeInv /\ DepthInv /\ Distinct /\ [Next]_vars
      => (TypeOK /\ IdInv /\ TreeInv /\ DepthInv /\ Distinct)'
  BY TypeStep, IdStep, TreeStep, DepthStep, DistinctStep
<1> QED
  BY <1>1, <1>2, MendStep, PTL DEF Spec, BrokenForGood
=============================================================================
