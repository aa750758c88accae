------------------------------- MODULE Worker -------------------------------
(***************************************************************************)
(* One worker process: an event loop, a pool of threads for the            *)
(* synchronous endpoints, and a pool of database connections               *)
(* (app/database.py, app/services/scan_service.py, app/proxy/http_proxy.py,*)
(* app/main.py).                                                           *)
(*                                                                         *)
(* A synchronous request runs in a thread. Its session takes a connection  *)
(* at its first statement and gives it back at a commit; reading the last  *)
(* log id takes one again, and sealing takes a second one. What it still   *)
(* holds when it returns is given back by get_db, which the event loop     *)
(* drives. Proxy calls and the hourly cleanup use the same synchronous     *)
(* sessions on the event loop itself: while they wait for a connection     *)
(* nothing else runs on the loop. A wait for a connection is bounded by    *)
(* the pool's timeout of 30 seconds.                                       *)
(*                                                                         *)
(* An exception on the loop skips the close() of the session. Once nothing *)
(* refers to it any more its connection is lost to the pool until Python's *)
(* collector finds it: a session and its transaction refer to each other.  *)
(***************************************************************************)
EXTENDS Integers, FiniteSets

CONSTANTS
  Requests,   \* synchronous requests at the same time
  Proxies,    \* proxy calls at the same time
  Cleaner,    \* the cleanup task
  Threads,    \* threads of the pool: 40
  Capacity    \* pool_size + max_overflow: 30

Clients == Requests \cup Proxies \cup {Cleaner}

ASSUME ConstantsAssumption ==
  /\ Requests \cap Proxies = {} /\ Cleaner \notin Requests \cup Proxies
  /\ IsFiniteSet(Clients)
  /\ Threads \in Nat \ {0} /\ Capacity \in Nat \ {0}

VARIABLES
  pc,        \* where each client is
  held,      \* connections it has checked out
  lost,      \* connections of dropped sessions, not collected yet
  stage,     \* a proxy call logs what it found in the input or the output
  blocked,   \* the input of the call is blocked
  failed     \* history: what it logs last, it failed to

vars == <<pc, held, lost, stage, blocked, failed>>

-----------------------------------------------------------------------------
\* Places where a client waits for a connection, and works with the database.
Wanting == {"connect", "reread", "recount", "link"}
Working == Wanting \cup {"write", "read", "seal"}

\* While one of the clients that run on it works, the event loop stands still.
LoopFree == \A x \in Clients \ Requests : pc[x] \notin Working

\* A thread is free again when the loop has taken over what it returned.
InThread == {r \in Requests : pc[r] \in Working \cup {"returned"}}

\* The connections that are checked out, by their holder, and all of them.
Out   == {c \in Clients \X {1, 2} : c[2] <= held[c[1]]}
InUse == Cardinality(Out) + lost

Init ==
  /\ pc      = [x \in Clients |-> "idle"]
  /\ held    = [x \in Clients |-> 0]
  /\ lost    = 0
  /\ stage   = [p \in Proxies |-> "input"]
  /\ blocked = [p \in Proxies |-> FALSE]
  /\ failed  = [x \in Clients |-> FALSE]

Goto(x, step) == pc' = [pc EXCEPT ![x] = step]
Hold(x, n)    == held' = [held EXCEPT ![x] = n]
Failed(x, f)  == failed' = [failed EXCEPT ![x] = f]

\* The last reference to x's unclosed session goes.
Drop(x) == Hold(x, 0) /\ lost' = lost + held[x]

\* Where a client goes when it is done with the database.
After(x) ==
  IF x \in Requests THEN "returned"
  ELSE IF x \in Proxies /\ stage[x] = "input" /\ ~blocked[x] THEN "upstream"
  ELSE "idle"

\* The session (of the log, or of the cleanup) was used as intended: the proxy
\* and the cleanup close it, a request leaves that to get_db.
Done(x) ==
  /\ Goto(x, After(x))
  /\ Hold(x, IF x \in Requests /\ held[x] > 0 THEN 1 ELSE 0)
  /\ Failed(x, FALSE)
  /\ UNCHANGED lost

\* An exception skips the close(). The local variable keeps the session, and
\* its connection, until the coroutine ends or assigns it again.
Thrown(x) ==
  /\ Goto(x, After(x))
  /\ IF x \in Proxies /\ After(x) = "idle" THEN Drop(x) ELSE UNCHANGED <<held, lost>>
  /\ Failed(x, TRUE)

-----------------------------------------------------------------------------
(***************************************************************************)
(* The connection pool.                                                    *)
(***************************************************************************)
\* What a client goes on to with the connection it waited for.
Thence == [connect |-> "write", reread |-> "read", recount |-> "returned", link |-> "seal"]

\* Slip: max_overflow is -1.
CheckoutBeyond(x) ==
  /\ pc[x] \in Wanting
  /\ Hold(x, held[x] + 1)
  /\ Goto(x, Thence[pc[x]])
  /\ UNCHANGED <<lost, stage, blocked, failed>>

\* A connection is free: the first statement of a session takes it.
Checkout(x) ==
  /\ pc[x] \in Wanting /\ InUse < Capacity
  /\ Hold(x, held[x] + 1)
  /\ Goto(x, Thence[pc[x]])
  /\ UNCHANGED <<lost, stage, blocked, failed>>

\* Slip: a proxy call that gets no connection tries again.
TimesOutRetry(x) ==
  /\ pc[x] \in Wanting /\ InUse = Capacity
  /\ IF x \in Requests
     THEN IF pc[x] \in {"connect", "recount"} THEN Thrown(x) ELSE Done(x)
     ELSE UNCHANGED <<pc, held, lost, failed>>
  /\ UNCHANGED <<stage, blocked>>

\* Slip: pool_timeout is None.
TimesOutNever(x) == FALSE /\ UNCHANGED vars

\* None was free for 30 seconds. _log_to_db catches this around the sealing;
\* elsewhere the request fails, and the proxy and the cleanup go on.
TimesOut(x) ==
  /\ pc[x] \in Wanting /\ InUse = Capacity
  /\ IF pc[x] \in {"connect", "recount"} THEN Thrown(x) ELSE Done(x)
  /\ UNCHANGED <<stage, blocked>>

\* The collector finds dropped sessions, which give back what they held.
Collect ==
  /\ lost > 0
  /\ lost' \in 0..(lost - 1)
  /\ UNCHANGED <<pc, held, stage, blocked, failed>>

-----------------------------------------------------------------------------
(***************************************************************************)
(* Logging and sealing: _log_to_db and _log_code_review_findings.          *)
(***************************************************************************)
\* Slip: the last id is read while the session keeps its connection, and
\* through another one.
CommitKeeps(x) ==
  /\ pc[x] = "write" /\ x # Cleaner
  /\ Goto(x, "reread")
  /\ UNCHANGED <<held, lost, stage, blocked, failed>>

\* The rows are committed and the connection is back in the pool. A detection
\* reads the last id next; a review counts its user, if it has one, once more.
Commit(x) ==
  /\ pc[x] = "write" /\ x # Cleaner
  /\ \E step \in {"reread", "recount", "returned"} :
       /\ step # "reread" => x \in Requests
       /\ Goto(x, step)
  /\ Hold(x, 0)
  /\ UNCHANGED <<lost, stage, blocked, failed>>

\* A request that found nothing and has no user (or, for a review, only the
\* user to count afterwards) has nothing to write: its commit needs no
\* connection.
CommitNothing(r) ==
  /\ pc[r] = "connect"
  /\ \E step \in {"reread", "recount", "returned"} : Goto(r, step)
  /\ UNCHANGED <<held, lost, stage, blocked, failed>>

\* Slip: whatever was found in the input, a call that cannot log it goes on.
FailForwards(x) ==
  /\ pc[x] = "write"
  /\ Goto(x, IF x \in Proxies THEN "upstream" ELSE After(x))
  /\ Failed(x, TRUE)
  /\ UNCHANGED <<held, lost, stage, blocked>>

\* A statement or the commit fails. (A request that only reads ends like this
\* as well: its connection is left to get_db.)
Fail(x) ==
  /\ pc[x] = "write"
  /\ Thrown(x)
  /\ UNCHANGED <<stage, blocked>>

\* The last id is read: there is a batch to seal, or not, or the read fails.
ReadLastId(x) ==
  /\ pc[x] = "read"
  /\ \/ Goto(x, "link") /\ UNCHANGED <<held, lost, failed>>
     \/ Done(x)
  /\ UNCHANGED <<stage, blocked>>

\* The block is committed, or is not; its session is closed.
Seal(x) ==
  /\ pc[x] = "seal"
  /\ Done(x)
  /\ UNCHANGED <<stage, blocked>>

-----------------------------------------------------------------------------
(***************************************************************************)
(* Synchronous requests.                                                   *)
(***************************************************************************)
Arrive(r) ==
  /\ LoopFree /\ pc[r] = "idle"
  /\ Goto(r, "queued")
  /\ UNCHANGED <<held, lost, stage, blocked, failed>>

\* The loop hands it to a thread; detection needs no database.
Begin(r) ==
  /\ LoopFree /\ pc[r] = "queued" /\ Cardinality(InThread) < Threads
  /\ Goto(r, "connect")
  /\ UNCHANGED <<held, lost, stage, blocked, failed>>

\* The loop takes over the result, and starts the exit of get_db in a thread
\* of its own.
Return(r) ==
  /\ LoopFree /\ pc[r] = "returned"
  /\ Goto(r, "closing")
  /\ UNCHANGED <<held, lost, stage, blocked, failed>>

\* Slip: get_db closes no session whose request failed.
CloseIfDone(r) ==
  /\ pc[r] = "closing"
  /\ Goto(r, "idle")
  /\ Hold(r, IF failed[r] THEN held[r] ELSE 0)
  /\ UNCHANGED <<lost, stage, blocked, failed>>

\* get_db closes the session.
Close(r) ==
  /\ pc[r] = "closing"
  /\ Goto(r, "idle")
  /\ Hold(r, 0)
  /\ UNCHANGED <<lost, stage, blocked, failed>>

-----------------------------------------------------------------------------
(***************************************************************************)
(* Proxy calls and the cleanup, on the event loop.                         *)
(***************************************************************************)
\* proxy_request: input detection triggers no rule, or some that block or not.
Call(p, found, block) ==
  /\ LoopFree /\ pc[p] = "idle"
  /\ block => found
  /\ Goto(p, IF found THEN "connect" ELSE "upstream")
  /\ stage'   = [stage   EXCEPT ![p] = "input"]
  /\ blocked' = [blocked EXCEPT ![p] = block]
  /\ Failed(p, FALSE)
  /\ UNCHANGED <<held, lost>>

\* The upstream cannot be reached, or is silent for 120 seconds: 502 or 504. The
\* coroutine ends, and with it the session its input may have left.
UpstreamFails(p) ==
  /\ LoopFree /\ pc[p] = "upstream"
  /\ Goto(p, "idle") /\ Drop(p)
  /\ UNCHANGED <<stage, blocked, failed>>

\* It answers, and output detection triggers rules or not. A new session takes
\* the place of the one the input left.
UpstreamAnswers(p, found) ==
  /\ LoopFree /\ pc[p] = "upstream"
  /\ Goto(p, IF found THEN "connect" ELSE "idle")
  /\ Drop(p)
  /\ stage' = [stage EXCEPT ![p] = "output"]
  /\ UNCHANGED <<blocked, failed>>

\* The hour is over; a new session takes the place of the last run's.
Wake ==
  /\ LoopFree /\ pc[Cleaner] = "idle"
  /\ Goto(Cleaner, "connect")
  /\ Drop(Cleaner)
  /\ UNCHANGED <<stage, blocked, failed>>

Cleanup ==
  /\ pc[Cleaner] = "write"
  /\ Done(Cleaner)
  /\ UNCHANGED <<stage, blocked>>

-----------------------------------------------------------------------------
Get(x)  == Checkout(x) \/ TimesOut(x)
Work(x) == Commit(x) \/ Fail(x) \/ ReadLastId(x) \/ Seal(x)

Next ==
  \/ \E x \in Clients : Get(x) \/ Work(x)
  \/ \E r \in Requests : Arrive(r) \/ Begin(r) \/ CommitNothing(r) \/ Return(r) \/ Close(r)
  \/ \E p \in Proxies :
       \/ UpstreamFails(p)
       \/ \E found \in BOOLEAN : UpstreamAnswers(p, found)
       \/ \E found, block \in BOOLEAN : Call(p, found, block)
  \/ Wake \/ Cleanup \/ Collect

Spec == Init /\ [][Next]_vars

\* Statements end, and so does a wait for a connection: with one, or after 30
\* seconds. Threads are handed out first come first served, and the loop runs
\* what is ready in turn, however often it is blocked in between. Nothing says
\* when the collector runs.
Fairness ==
  /\ \A x \in Clients : WF_vars(Get(x)) /\ WF_vars(Work(x))
  /\ \A r \in Requests : SF_vars(Begin(r)) /\ SF_vars(Return(r)) /\ WF_vars(Close(r))

FairSpec == Spec /\ Fairness

-----------------------------------------------------------------------------
(***************************************************************************)
(* Properties                                                              *)
(***************************************************************************)
\* The variables hold what they should, and the pool keeps its limit.
TypeOK ==
  /\ pc \in [Clients -> Working \cup {"idle", "queued", "returned",
                                      "closing", "upstream"}]
  /\ held \in [Clients -> 0..2]
  /\ lost \in Nat
  /\ stage \in [Proxies -> {"input", "output"}]
  /\ blocked \in [Proxies -> BOOLEAN]
  /\ failed \in [Clients -> BOOLEAN]
  /\ InUse <= Capacity

\* A request that was answered holds no connection, however it failed; a call
\* or the cleanup holds one while it is not at work only if it has failed to
\* log or to clean up and still refers to that session.
NothingLeaks ==
  \A x \in Clients :
    pc[x] \in {"idle", "queued", "upstream"} /\ held[x] > 0
      => x \notin Requests /\ failed[x]

\* A client that cannot give back what it holds: it waits for a connection, or
\* for the loop that waits for one, or for its upstream or the next hour.
Stuck(x) ==
  \/ pc[x] \in Wanting \cup {"idle", "upstream"}
  \/ pc[x] = "returned" /\ ~LoopFree

\* All connections are out and none comes back without a timeout or a
\* collection only if those clients that hold one and those that were lost make
\* up all there are: with fewer there is always a client that can go on.
GridlockNeedsCapacity ==
  InUse = Capacity /\ (\A x \in Clients : held[x] > 0 => Stuck(x))
    => Cardinality({x \in Clients : held[x] > 0}) + lost >= Capacity

\* What the input detection blocks is not sent upstream, whatever becomes of
\* the audit log.
BlockedStaysHere == \A p \in Proxies : blocked[p] => pc[p] # "upstream"

\* Every request is answered, with all connections held by requests that wait
\* for another one, and with the loop blocked.
EveryRequestEnds == \A r \in Requests : pc[r] # "idle" ~> pc[r] = "idle"

\* The event loop never stands still for ever.
LoopGoesOn == \A x \in Clients \ Requests : pc[x] \in Working ~> pc[x] \notin Working
=============================================================================
