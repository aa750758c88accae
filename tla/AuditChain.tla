----------------------------- MODULE AuditChain -----------------------------
(***************************************************************************)
(* The audit log and the hash chain that seals it                          *)
(* (app/services/scan_service.py, app/services/audit_chain.py, the         *)
(* cleanup task of app/main.py).                                           *)
(*                                                                         *)
(* A request of a scan or proxy endpoint (a "gateway") inserts one         *)
(* audit_logs row per triggered rule, commits, reads the largest           *)
(* committed id back and seals it with a row of audit_chain: read the last *)
(* row's hash, insert, commit. A request of a batch review (a "reviewer")  *)
(* logs and commits the same way and stops there. Requests run in the      *)
(* threads of several worker processes over one PostgreSQL database at     *)
(* READ COMMITTED, and nothing serialises them: every step below is one    *)
(* statement or one commit. Ids come from sequences, which hand out a      *)
(* number at the INSERT and never take it back.                            *)
(***************************************************************************)
EXTENDS Integers, FiniteSets

CONSTANTS
  Gateways,      \* requests that seal what they log
  Reviewers,     \* requests that log without sealing
  MaxBatch,      \* bound: rules one request triggers
  MaxRequests,   \* bound: requests that trigger a rule
  MaxDay,        \* bound: days that pass
  Retention,     \* settings.audit_retention_days
  Instants       \* readings of the clock that enters the hash

Requests == Gateways \cup Reviewers

ASSUME ConstantsAssumption ==
  /\ Gateways \cap Reviewers = {}
  /\ MaxBatch \in Nat /\ MaxRequests \in Nat
  /\ MaxDay \in Nat /\ Retention \in Nat \ {0}

VARIABLES
  detections,    \* requests that triggered a rule so far, for MaxRequests
  day,           \* the date, as the cleanup task sees it
  logs,          \* committed rows of audit_logs: [id, day]
  nextLog,       \* sequence of audit_logs.id
  chain,         \* committed rows of audit_chain
  nextBlock,     \* sequence of audit_chain.id
  pc,            \* where each request is
  since,         \* `now` of the request: the day its rows are stamped with
  todo,          \* rows the request still has to insert
  batch,         \* ids of the rows it inserted
  lastId,        \* last_id as it read it
  prevHash,      \* prev_hash as it read it
  block,         \* the row it inserted and has not committed
  committed,     \* history: every audit_logs id ever committed
  covered,       \* history: for a committed block, the batch it was made for
  overlap        \* history: some request sealed while another one did

dbVars   == <<day, logs, nextLog, chain, nextBlock>>
reqVars  == <<detections, pc, since, todo, batch, lastId, prevHash, block>>
histVars == <<committed, covered, overlap>>
vars     == <<dbVars, reqVars, histVars>>

-----------------------------------------------------------------------------
\* SHA-256 of the block's content, as a collision-free function of it.
BatchHash(prev, last, count, at) == <<prev, last, count, at>>

Genesis == <<>>
NoBlock == [id |-> 0, last_log_id |-> 0, batch_count |-> 0,
            batch_hash |-> Genesis, prev_hash |-> Genesis]

Ledger == INSTANCE AuditLedger WITH chain <- chain, Genesis <- Genesis

\* SELECT ... ORDER BY id DESC LIMIT 1, of a table that may be empty.
IsLast(row, rows) == row \in rows /\ \A r \in rows : r.id <= row.id

\* Slip: the ORDER BY without its DESC.
IsTipHashAscending(hash, rows) ==
  \/ rows = {} /\ hash = Genesis
  \/ \E b \in rows : (\A r \in rows : b.id <= r.id) /\ hash = b.batch_hash

\* get_last_chain_entry, and the genesis hash of an empty chain.
IsTipHash(hash, rows) ==
  \/ rows = {} /\ hash = Genesis
  \/ \E b \in rows : IsLast(b, rows) /\ hash = b.batch_hash

\* verify_chain: walk the rows by id and compare each link.
VerifyChain(rows) == \A b \in rows : Ledger!Linked(b, rows)

Sealing(r) == pc[r] \in {"linked", "inserted"}

-----------------------------------------------------------------------------
Init ==
  /\ detections = 0
  /\ day = 0
  /\ logs = {} /\ nextLog = 1
  /\ chain = {} /\ nextBlock = 1
  /\ pc       = [r \in Requests |-> "idle"]
  /\ since    = [r \in Requests |-> 0]
  /\ todo     = [r \in Requests |-> 0]
  /\ batch    = [r \in Requests |-> {}]
  /\ lastId   = [r \in Requests |-> 0]
  /\ prevHash = [r \in Requests |-> Genesis]
  /\ block    = [r \in Requests |-> NoBlock]
  /\ committed = {}
  /\ covered = [b \in {} |-> {}]
  /\ overlap = FALSE

\* The request is over: what it held in local variables is gone.
Finish(r) ==
  /\ pc'       = [pc       EXCEPT ![r] = "idle"]
  /\ since'    = [since    EXCEPT ![r] = 0]
  /\ todo'     = [todo     EXCEPT ![r] = 0]
  /\ batch'    = [batch    EXCEPT ![r] = {}]
  /\ lastId'   = [lastId   EXCEPT ![r] = 0]
  /\ prevHash' = [prevHash EXCEPT ![r] = Genesis]
  /\ block'    = [block    EXCEPT ![r] = NoBlock]
  /\ UNCHANGED detections

\* A detection with n triggered rules reaches _log_to_db (or
\* _log_code_review_findings): `now` is taken, nothing is written yet.
Detect(r, n) ==
  /\ pc[r] = "idle"
  /\ n = 0 \/ detections < MaxRequests
  /\ detections' = IF n = 0 THEN detections ELSE detections + 1
  /\ pc'    = [pc    EXCEPT ![r] = "writing"]
  /\ since' = [since EXCEPT ![r] = day]
  /\ todo'  = [todo  EXCEPT ![r] = n]
  /\ UNCHANGED <<dbVars, batch, lastId, prevHash, block, histVars>>

\* Slip: a row is written that no rule triggered.
InsertLogPastEnd(r) ==
  /\ pc[r] = "writing"
  /\ todo'   = [todo  EXCEPT ![r] = @ - 1]
  /\ batch'  = [batch EXCEPT ![r] = @ \cup {nextLog}]
  /\ nextLog' = nextLog + 1
  /\ UNCHANGED <<day, logs, chain, nextBlock, detections, pc, since, lastId,
                 prevHash, block, histVars>>

\* The flush inserts one row; rows of other requests may take ids between.
InsertLog(r) ==
  /\ pc[r] = "writing" /\ todo[r] > 0
  /\ todo'   = [todo  EXCEPT ![r] = @ - 1]
  /\ batch'  = [batch EXCEPT ![r] = @ \cup {nextLog}]
  /\ nextLog' = nextLog + 1
  /\ UNCHANGED <<day, logs, chain, nextBlock, detections, pc, since, lastId,
                 prevHash, block, histVars>>

\* COMMIT of the log rows, in a request that goes on to seal.
CommitLogs(r) ==
  /\ r \in Gateways /\ pc[r] = "writing" /\ todo[r] = 0
  /\ logs' = logs \cup {[id |-> i, day |-> since[r]] : i \in batch[r]}
  /\ committed' = committed \cup batch[r]
  /\ pc' = [pc EXCEPT ![r] = "logged"]
  /\ UNCHANGED <<day, nextLog, chain, nextBlock, detections, since, todo, batch,
                 lastId, prevHash, block, covered, overlap>>

\* COMMIT of a batch review: the request ends here, no block is made.
CommitReview(r) ==
  /\ r \in Reviewers /\ pc[r] = "writing" /\ todo[r] = 0
  /\ logs' = logs \cup {[id |-> i, day |-> since[r]] : i \in batch[r]}
  /\ committed' = committed \cup batch[r]
  /\ Finish(r)
  /\ UNCHANGED <<day, nextLog, chain, nextBlock, covered, overlap>>

\* Slip: the value of the sequence is taken for the largest committed id.
ReadLastIdFromSequence(r) ==
  /\ pc[r] = "logged" /\ batch[r] # {}
  /\ lastId' = [lastId EXCEPT ![r] = nextLog - 1]
  /\ pc' = [pc EXCEPT ![r] = "sealing"]
  /\ UNCHANGED <<dbVars, histVars, detections, since, todo, batch, prevHash,
                 block>>

\* Slip: `batch_count <= 1` for `batch_count <= 0`.
ReadLastIdManyOnly(r) ==
  /\ pc[r] = "logged"
  /\ UNCHANGED <<dbVars, histVars>>
  /\ \/ /\ Cardinality(batch[r]) <= 1
        /\ Finish(r)
     \/ /\ Cardinality(batch[r]) > 1
        /\ \E l \in logs : IsLast(l, logs)
                           /\ lastId' = [lastId EXCEPT ![r] = l.id]
        /\ pc' = [pc EXCEPT ![r] = "sealing"]
        /\ UNCHANGED <<detections, since, todo, batch, prevHash, block>>

\* last_id is read in a new transaction. An empty table or a batch of no
\* rows ends the request without a block.
ReadLastId(r) ==
  /\ pc[r] = "logged"
  /\ UNCHANGED <<dbVars, histVars>>
  /\ \/ /\ logs = {} \/ batch[r] = {}
        /\ Finish(r)
     \/ /\ batch[r] # {}
        /\ \E l \in logs : IsLast(l, logs)
                           /\ lastId' = [lastId EXCEPT ![r] = l.id]
        /\ pc' = [pc EXCEPT ![r] = "sealing"]
        /\ UNCHANGED <<detections, since, todo, batch, prevHash, block>>

\* Slip: rows other requests have not committed are read too.
ReadPrevHashDirty(r) ==
  LET rows == chain \cup {block[q] : q \in {q \in Requests : pc[q] = "inserted"}}
  IN  /\ pc[r] = "sealing"
      /\ \E h \in {Genesis} \cup {b.batch_hash : b \in rows} :
           IsTipHash(h, rows) /\ prevHash' = [prevHash EXCEPT ![r] = h]
      /\ pc' = [pc EXCEPT ![r] = "linked"]
      /\ overlap' = (overlap \/ \E q \in Requests : Sealing(q))
      /\ UNCHANGED <<dbVars, detections, since, todo, batch, lastId, block,
                     committed, covered>>

\* seal_chain_batch reads the hash it is going to extend.
ReadPrevHash(r) ==
  /\ pc[r] = "sealing"
  /\ \E h \in {Genesis} \cup {b.batch_hash : b \in chain} :
        IsTipHash(h, chain) /\ prevHash' = [prevHash EXCEPT ![r] = h]
  /\ pc' = [pc EXCEPT ![r] = "linked"]
  /\ overlap' = (overlap \/ \E q \in Requests : Sealing(q))
  /\ UNCHANGED <<dbVars, detections, since, todo, batch, lastId, block,
                 committed, covered>>

\* Slip: an id of one's own instead of the sequence's.
InsertBlockSameId(r, at) ==
  /\ pc[r] = "linked"
  /\ block' = [block EXCEPT ![r] =
       [id |-> nextBlock, last_log_id |-> lastId[r],
        batch_count |-> Cardinality(batch[r]),
        batch_hash |-> BatchHash(prevHash[r], lastId[r],
                                 Cardinality(batch[r]), at),
        prev_hash |-> prevHash[r]]]
  /\ pc' = [pc EXCEPT ![r] = "inserted"]
  /\ UNCHANGED <<dbVars, detections, since, todo, batch, lastId, prevHash,
                 histVars>>

\* INSERT INTO audit_chain: the id is handed out, the row is not yet visible.
InsertBlock(r, at) ==
  /\ pc[r] = "linked"
  /\ block' = [block EXCEPT ![r] =
       [id          |-> nextBlock,
        last_log_id |-> lastId[r],
        batch_count |-> Cardinality(batch[r]),
        batch_hash  |-> BatchHash(prevHash[r], lastId[r],
                                  Cardinality(batch[r]), at),
        prev_hash   |-> prevHash[r]]]
  /\ nextBlock' = nextBlock + 1
  /\ pc' = [pc EXCEPT ![r] = "inserted"]
  /\ UNCHANGED <<day, logs, nextLog, chain, detections, since, todo, batch,
                 lastId, prevHash, histVars>>

\* Slip: a commit whose answer was lost is tried again.
CommitBlockAndRetry(r) ==
  /\ pc[r] = "inserted"
  /\ chain' = chain \cup {block[r]}
  /\ covered' = [i \in DOMAIN covered \cup {block[r].id} |->
                   IF i = block[r].id THEN batch[r] ELSE covered[i]]
  /\ \/ Finish(r)
     \/ /\ pc' = [pc EXCEPT ![r] = "sealing"]
        /\ UNCHANGED <<detections, since, todo, batch, lastId, prevHash, block>>
  /\ UNCHANGED <<day, logs, nextLog, nextBlock, committed, overlap>>

\* COMMIT of the block; the request is answered.
CommitBlock(r) ==
  /\ pc[r] = "inserted"
  /\ chain' = chain \cup {block[r]}
  /\ covered' = [i \in DOMAIN covered \cup {block[r].id} |->
                   IF i = block[r].id THEN batch[r] ELSE covered[i]]
  /\ Finish(r)
  /\ UNCHANGED <<day, logs, nextLog, nextBlock, committed, overlap>>

\* The request fails where it stands: an exception (one while sealing is
\* swallowed and the request answered), no free connection, a worker killed.
\* The open transaction is rolled back; its ids are not handed out again.
Fail(r) ==
  /\ pc[r] # "idle"
  /\ Finish(r)
  /\ UNCHANGED <<dbVars, histVars>>

\* The hourly task of some worker deletes rows past retention.
Expired == {l \in logs : l.day < day - Retention}

\* Slip: blocks that cover no row that is left are deleted as well.
CleanupOfBoth ==
  /\ Expired # {}
  /\ logs' = logs \ Expired
  /\ chain' = {b \in chain : \E l \in logs' : l.id <= b.last_log_id}
  /\ UNCHANGED <<day, nextLog, nextBlock, reqVars, histVars>>

Cleanup ==
  /\ Expired # {}
  /\ logs' = logs \ Expired
  /\ UNCHANGED <<day, nextLog, chain, nextBlock, reqVars, histVars>>

\* A day passes. No request lives for a whole retention period.
Tick ==
  /\ day < MaxDay
  /\ \A r \in Requests : pc[r] # "idle" => day < since[r] + Retention
  /\ day' = day + 1
  /\ UNCHANGED <<logs, nextLog, chain, nextBlock, reqVars, histVars>>

-----------------------------------------------------------------------------
Step(r) ==
  \/ \E n \in 0..MaxBatch : Detect(r, n)
  \/ InsertLog(r)
  \/ CommitLogs(r)
  \/ CommitReview(r)
  \/ ReadLastId(r)
  \/ ReadPrevHash(r)
  \/ \E at \in Instants : InsertBlock(r, at)
  \/ CommitBlock(r)

Calm == (\E r \in Requests : Step(r)) \/ Cleanup \/ Tick

Next == Calm \/ \E r \in Requests : Fail(r)

\* Every step of the code, and the behaviours in which nothing fails.
Spec     == Init /\ [][Next]_vars
CalmSpec == Init /\ [][Calm]_vars

\* A thread the operating system runs, on a database that answers.
Fairness == \A r \in Requests :
  /\ WF_vars(InsertLog(r))   /\ WF_vars(CommitLogs(r))
  /\ WF_vars(CommitReview(r)) /\ WF_vars(ReadLastId(r))
  /\ WF_vars(ReadPrevHash(r)) /\ WF_vars(CommitBlock(r))
  /\ WF_vars(\E at \in Instants : InsertBlock(r, at))

FairSpec == CalmSpec /\ Fairness

-----------------------------------------------------------------------------
(***************************************************************************)
(* Properties                                                              *)
(***************************************************************************)
Ids(rows) == {x.id : x \in rows}

\* The variables hold what the columns and locals of the code hold.
TypeOK ==
  /\ detections \in Nat /\ day \in Nat
  /\ nextLog \in Nat \ {0} /\ nextBlock \in Nat \ {0}
  /\ \A l \in logs : l.id \in Nat /\ l.day \in Nat
  /\ \A b \in chain : b.id \in Nat /\ b.last_log_id \in Nat
  /\ pc \in [Requests -> {"idle", "writing", "logged", "sealing", "linked",
                         "inserted"}]
  /\ since \in [Requests -> Nat] /\ todo \in [Requests -> Nat]
  /\ batch \in [Requests -> SUBSET Nat]
  /\ lastId \in [Requests -> Nat]
  /\ DOMAIN prevHash = Requests
  /\ \A r \in Requests : block[r].id \in Nat /\ block[r].last_log_id \in Nat
  /\ DOMAIN block = Requests
  /\ committed \subseteq Nat
  /\ overlap \in BOOLEAN

\* seal_chain_batch "must be called AFTER audit log entries have been
\* committed": a committed block was made for rows that are committed, and
\* its last_log_id is a committed id that no row of its batch exceeds, in
\* whatever order the ids of concurrent requests were handed out.
SealsFollowCommits ==
  \A b \in chain :
    /\ b.last_log_id \in committed
    /\ covered[b.id] \subseteq committed
    /\ \A i \in covered[b.id] : i <= b.last_log_id

\* The count a block states is the number of rows it was made for, and no
\* row is counted by two blocks: the chain never claims more entries than
\* were logged.
NoRowSealedTwice ==
  /\ \A b \in chain : b.batch_count = Cardinality(covered[b.id])
                      /\ b.batch_count > 0
  /\ \A a, b \in chain : a.id # b.id => covered[a.id] \cap covered[b.id] = {}

\* However sealers interleave, fail or roll back, a block's prev_hash leads
\* to the genesis hash or to a committed block with a smaller id: the table
\* may fork but never refers to a row that was not committed.
LinksLeadBack == \A b \in chain : Ledger!Rooted(b, chain)

\* verify_chain can only fail after two requests were between reading the
\* last hash and committing their block at the same time.
ForksNeedOverlap == ~overlap => VerifyChain(chain)

\* A chain that failed verify_chain once fails it for ever: no later commit,
\* not even one that fills a gap in the ids, mends it.
BrokenForGood == [][VerifyChain(chain') => VerifyChain(chain)]_chain

\* With any number of sealers the table is a growing tree of blocks; with
\* one it is the hash chain the documentation describes.
GrowsAsTree  == Ledger!TreeSpec
GrowsInLine  == Ledger!LinearSpec

\* Every row a gateway committed is eventually at or below the last_log_id
\* of some block, as long as no request fails.
EventuallySealed ==
  \A r \in Gateways : \A i \in 1..(MaxBatch * MaxRequests) :
    (pc[r] = "logged" /\ i \in batch[r]) ~> (\E b \in chain : i <= b.last_log_id)
=============================================================================
