------------------------------ MODULE Service ------------------------------
(***************************************************************************)
(* The worker processes of the service: how they start, what demonstration *)
(* data their starts leave in the database, and how many calls each lets   *)
(* through (lifespan, RateLimiter, security_middleware and                 *)
(* _cleanup_audit_logs of app/main.py, the lock of init_db in              *)
(* app/database.py).                                                       *)
(*                                                                         *)
(* A start initialises the database under a lock on a file. Outside that   *)
(* lock it fills an audit log it finds empty with sample rows, together    *)
(* with the users they name, and then the empty table of daily behaviour,  *)
(* one statement or commit at a time. A worker that is up lets calls       *)
(* through its own limiter; what they log goes to the same tables. Workers *)
(* stop or crash anywhere. What init_db does under its lock is part of     *)
(* RuleSync and Dictionaries, the CONNECT proxy of TcpProxy.               *)
(***************************************************************************)
EXTENDS RateLimiter

CONSTANTS
  Workers,     \* worker processes
  Clients,     \* addresses calls come from
  SampleUsers, \* users of the sample rows: admin and demo-user
  Guests,      \* other users
  MaxTime      \* bound: the clock

People == SampleUsers \cup Guests

ASSUME ConstantsAssumption ==
  IsFiniteSet(Workers) /\ MaxTime \in Nat

VARIABLES
  phase,       \* how far the start of each worker has got
  todo,        \* sample users a starting worker is still to look up
  missing,     \* those it did not find, and is going to add
  users,       \* table users: the names
  copies,      \* table audit_logs: copies of the sample rows, or what is left
  real,        \* whether it has rows of calls
  daily,       \* table user_behavior: the users with a row
  now,         \* the clock
  calls,       \* _windows of the limiter of each worker
  accepted     \* history: all calls it has let through since it started

dbVars   == <<users, copies, real, daily>>
limVars  == <<now, calls, accepted>>
vars     == <<phase, todo, missing, dbVars, limVars>>

-----------------------------------------------------------------------------
Seeding == {"count", "users", "behaviors", "insert"}
Phases  == Seeding \cup {"down", "waiting", "init", "load", "up"}

NoCalls == [c \in Clients |-> {}]

Init ==
  /\ phase = [w \in Workers |-> "down"]
  /\ todo  = [w \in Workers |-> {}]
  /\ missing = [w \in Workers |-> {}]
  /\ users = {} /\ copies = 0 /\ real = FALSE /\ daily = {}
  /\ now = 0
  /\ calls    = [w \in Workers |-> NoCalls]
  /\ accepted = [w \in Workers |-> NoCalls]

\* Worker w goes on to phase p, and holds what it held, or nothing any more.
Goto(w, p)  == phase' = [phase EXCEPT ![w] = p] /\ UNCHANGED <<todo, missing>>
Leave(w, p) ==
  /\ phase' = [phase EXCEPT ![w] = p]
  /\ todo'  = [todo  EXCEPT ![w] = {}]
  /\ missing' = [missing EXCEPT ![w] = {}]

-----------------------------------------------------------------------------
(***************************************************************************)
(* A start                                                                 *)
(***************************************************************************)
Start(w) ==
  /\ phase[w] = "down"
  /\ Goto(w, "waiting")
  /\ UNCHANGED <<dbVars, limVars>>

\* fcntl.flock(fd, LOCK_EX). The lock is held in phase "init".
Lock(w) ==
  /\ phase[w] = "waiting"
  /\ \A v \in Workers : phase[v] # "init"
  /\ Goto(w, "init")
  /\ UNCHANGED <<dbVars, limVars>>

\* Slip: a failed init_db is tried again, as often as it fails.
InitDbRetries(w) ==
  /\ phase[w] = "init"
  /\ Goto(w, "count") \/ Goto(w, "waiting")
  /\ UNCHANGED <<dbVars, limVars>>

\* init_db releases the lock, whether it succeeds or raises; a worker whose
\* init_db raises does not come up.
InitDb(w) ==
  /\ phase[w] = "init"
  /\ Goto(w, "count") \/ Leave(w, "down")
  /\ UNCHANGED <<dbVars, limVars>>

\* db.query(AuditLog).count() == 0
CountLogs(w) ==
  /\ phase[w] = "count"
  /\ \/ /\ copies = 0 /\ ~real
        /\ phase' = [phase EXCEPT ![w] = "users"]
        /\ todo'  = [todo  EXCEPT ![w] = SampleUsers]
        /\ UNCHANGED missing
     \/ /\ copies > 0 \/ real
        /\ Leave(w, "load")
  /\ UNCHANGED <<dbVars, limVars>>

LookUp(w, u) ==
  /\ phase[w] = "users" /\ u \in todo[w]
  /\ missing' = [missing EXCEPT ![w] = @ \cup ({u} \ users)]
  /\ todo' = [todo EXCEPT ![w] = @ \ {u}]
  /\ UNCHANGED <<phase, dbVars, limVars>>

\* Slip: the sample rows are committed before the users.
CommitSamplesAnyway(w) ==
  /\ phase[w] = "users" /\ todo[w] = {}
  /\ copies' = copies + 1
  /\ \/ /\ missing[w] \cap users = {}
        /\ users' = users \cup missing[w]
        /\ Leave(w, "behaviors")
     \/ Leave(w, "load") /\ UNCHANGED users
  /\ UNCHANGED <<real, daily, limVars>>

\* One commit for the users it did not find and the sample rows. A user that
\* is there by now, by another start or a call, undoes all of it.
CommitSamples(w) ==
  /\ phase[w] = "users" /\ todo[w] = {}
  /\ \/ /\ missing[w] \cap users = {}
        /\ users' = users \cup missing[w]
        /\ copies' = copies + 1
        /\ Leave(w, "behaviors")
     \/ /\ missing[w] \cap users # {}
        /\ Leave(w, "load")
        /\ UNCHANGED <<users, copies>>
  /\ UNCHANGED <<real, daily, limVars>>

CountBehaviors(w) ==
  /\ phase[w] = "behaviors"
  /\ Leave(w, IF daily = {} THEN "insert" ELSE "load")
  /\ UNCHANGED <<dbVars, limVars>>

CommitBehaviors(w) ==
  /\ phase[w] = "insert"
  /\ daily' = IF daily \cap SampleUsers = {} THEN daily \cup SampleUsers ELSE daily
  /\ Leave(w, "load")
  /\ UNCHANGED <<users, copies, real, limVars>>

\* A statement of the seeding fails: "Seed data skipped".
SeedFails(w) ==
  /\ phase[w] \in Seeding
  /\ Leave(w, "load")
  /\ UNCHANGED <<dbVars, limVars>>

\* The engine is loaded, or is not; the worker serves in either case.
ComeUp(w) ==
  /\ phase[w] = "load"
  /\ Goto(w, "up")
  /\ UNCHANGED <<dbVars, limVars>>

\* A stop or a crash. The kernel releases the lock, the limiter is forgotten.
Stop(w) ==
  /\ phase[w] # "down"
  /\ Leave(w, "down")
  /\ calls'    = [calls    EXCEPT ![w] = NoCalls]
  /\ accepted' = [accepted EXCEPT ![w] = NoCalls]
  /\ UNCHANGED <<dbVars, now>>

-----------------------------------------------------------------------------
(***************************************************************************)
(* Calls. One with a body above 10 MB ends before the limiter, one for     *)
(* /v1/mcp passes it by; neither changes anything, and both are left out.  *)
(***************************************************************************)
\* What the handler of a call commits: its user and the daily row, unless it
\* names none, and rows of the audit log if rules are triggered.
Logs(who, triggered) ==
  /\ users' = users \cup who /\ daily' = daily \cup who
  /\ real'  = (real \/ triggered)
  /\ UNCHANGED copies

\* Calls without the key end in 401, after the limiter has counted them.
Admit(w, c) ==
  LET call == [at |-> now, no |-> Cardinality(accepted[w][c]) + 1]
  IN  /\ phase[w] = "up" /\ Admits(calls[w][c], now)
      /\ calls'    = [calls    EXCEPT ![w][c] = Recent(@, now) \cup {call}]
      /\ accepted' = [accepted EXCEPT ![w][c] = @ \cup {call}]
      /\ \/ UNCHANGED dbVars
         \/ \E who \in {{}} \cup {{u} : u \in People}, triggered \in BOOLEAN :
              Logs(who, triggered)
      /\ UNCHANGED <<phase, todo, missing, now>>

\* Slip: a refused call is counted, and keeps its client out.
RefuseCounting(w, c) ==
  /\ phase[w] = "up" /\ ~Admits(calls[w][c], now)
  /\ calls' = [calls EXCEPT ![w][c] =
       Recent(@, now) \cup {[at |-> now, no |-> 0]}]
  /\ UNCHANGED <<phase, todo, missing, dbVars, now, accepted>>

Refuse(w, c) ==
  /\ phase[w] = "up" /\ ~Admits(calls[w][c], now)
  /\ calls' = [calls EXCEPT ![w][c] = Recent(@, now)]
  /\ UNCHANGED <<phase, todo, missing, dbVars, now, accepted>>

\* The hourly cleanup of a worker deletes the rows that have become too old.
Cleanup(w) ==
  /\ phase[w] = "up"
  /\ copies' \in 0..copies /\ real' \in {real, FALSE}
  /\ UNCHANGED <<phase, todo, missing, users, daily, limVars>>

Tick ==
  /\ now < MaxTime
  /\ now' = now + 1
  /\ UNCHANGED <<phase, todo, missing, dbVars, calls, accepted>>

-----------------------------------------------------------------------------
Lifespan(w) ==
  \/ Lock(w) \/ InitDb(w) \/ CountLogs(w) \/ CommitSamples(w)
  \/ CountBehaviors(w) \/ CommitBehaviors(w) \/ ComeUp(w)
  \/ \E u \in SampleUsers : LookUp(w, u)

Next ==
  \/ \E w \in Workers : Start(w) \/ Lifespan(w) \/ SeedFails(w) \/ Stop(w) \/ Cleanup(w)
  \/ \E w \in Workers, c \in Clients : Admit(w, c) \/ Refuse(w, c)
  \/ Tick

Spec == Init /\ [][Next]_vars

\* The processes run. The kernel hands the lock to one of those that wait
\* whenever it is released: one that waits is not passed over for ever.
Fairness == \A w \in Workers : SF_vars(Lock(w)) /\ WF_vars(Lifespan(w))

FairSpec == Spec /\ Fairness

-----------------------------------------------------------------------------
(***************************************************************************)
(* Properties                                                              *)
(***************************************************************************)
\* The variables hold what they should; the limiter holds no call it has not
\* let through; and only a start that is under way holds anything.
TypeOK ==
  /\ phase \in [Workers -> Phases]
  /\ \A w \in Workers : /\ missing[w] \subseteq SampleUsers
                        /\ phase[w] # "users" => missing[w] = {} /\ todo[w] = {}
  /\ users \subseteq People /\ daily \subseteq People
  /\ copies \in Nat /\ real \in BOOLEAN /\ now \in Nat
  /\ \A w \in Workers, c \in Clients :
       /\ calls[w][c] \subseteq accepted[w][c]
       /\ \A a \in accepted[w][c] : a.at <= now
       /\ phase[w] # "up" => accepted[w][c] = {}

\* Starts that find the audit log empty at the same time leave a copy of the
\* sample rows each, but never more than there are workers, however often
\* those stop and start, fail half-way, or clean up; and the users the sample
\* rows name are there with them.
SamplesAreWhole ==
  /\ copies <= Cardinality(Workers)
  /\ copies > 0 => SampleUsers \subseteq users

\* Of the calls of a client, no worker lets more than Rpm through in any
\* stretch of time as long as the window, wherever it begins.
RateLimited ==
  \A w \in Workers, c \in Clients : \A t \in 0..now :
    Cardinality({a \in accepted[w][c] : t - Window < a.at /\ a.at <= t}) <= Rpm

\* And a call would be refused only if its client has had Rpm others accepted
\* in the window that ends with it: one that keeps calling is not kept out.
RefusalsAreDue ==
  \A w \in Workers, c \in Clients : ~Admits(calls[w][c], now) =>
    Cardinality({a \in accepted[w][c] : a.at > now - Window}) = Rpm

\* A worker that waits for the lock of init_db comes up, or goes down; no
\* other start, failed, crashed or forever repeated, keeps it waiting.
StartsComeUp ==
  \A w \in Workers : phase[w] = "waiting" ~> phase[w] \in {"up", "down"}
=============================================================================
