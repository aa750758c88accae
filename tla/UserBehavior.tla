---------------------------- MODULE UserBehavior ----------------------------
(***************************************************************************)
(* Users and their daily counters                                          *)
(* (_update_user_behavior and its callers in app/services/scan_service.py, *)
(* the block rate of app/services/dashboard_service.py).                   *)
(*                                                                         *)
(* A scan that names a user creates the user and the day's row of          *)
(* user_behavior where they are missing, adds one to the row's counters    *)
(* and commits. It reads the counters with a plain SELECT, counts in       *)
(* Python, and writes the values back at the commit. A review of files     *)
(* with findings does the same, commits, and does it once more in a        *)
(* transaction that nobody commits; one without findings only does the     *)
(* latter. An INSERT of a key that another transaction has inserted and    *)
(* not committed waits for it, and fails once the key is there.            *)
(*                                                                         *)
(* A row stands for its counters: `blocked` is any of those that are only  *)
(* written when they change (blocked, warned, rule_triggers).              *)
(***************************************************************************)
EXTENDS Integers, FiniteSetsExt

CONSTANTS
  Users,         \* names that requests give
  Requests,      \* requests at the same time
  MaxRequests,   \* bound: requests that name a user
  MaxDay         \* bound: days that pass

ASSUME BoundsAssumption == MaxRequests \in Nat /\ MaxDay \in Nat

Days == 0..MaxDay

VARIABLES
  named,     \* requests so far that named a user, for MaxRequests
  day,       \* the date
  users,     \* committed rows of users
  rows,      \* committed rows of user_behavior, by user and date
  pc,        \* where each request is
  job,       \* what it is: [user, review, blocked]
  unsaved,   \* it is in a transaction that will not be committed
  inserted,  \* what its transaction inserted: "user", "row"
  today,     \* the date it looks at
  held,      \* the row as it read it
  events,    \* history: committed requests and blocked ones, by user and date
  raced      \* history: keys whose row changed under a request that held it

dbVars   == <<day, users, rows>>
reqVars  == <<pc, job, unsaved, inserted, today, held>>
histVars == <<named, events, raced>>
vars     == <<dbVars, reqVars, histVars>>

-----------------------------------------------------------------------------
Counters == [total : Nat, blocked : Nat]
Zero == [total |-> 0, blocked |-> 0]

NoJob == [user |-> "none", review |-> FALSE, blocked |-> FALSE]

Key(r) == <<job[r].user, today[r]>>

\* Slip: a request that is not blocked is taken off again.
PlusMinus(row, blocked) ==
  [total   |-> row.total + 1,
   blocked |-> IF blocked THEN row.blocked + 1 ELSE row.blocked - 1]

\* The values a request writes: one more request, and one more blocked.
Plus(row, blocked) ==
  [total   |-> row.total + 1,
   blocked |-> IF blocked THEN row.blocked + 1 ELSE row.blocked]

Init ==
  /\ named = 0 /\ day = 0
  /\ users = {} /\ rows = [k \in {} |-> Zero]
  /\ pc       = [r \in Requests |-> "idle"]
  /\ job      = [r \in Requests |-> NoJob]
  /\ unsaved  = [r \in Requests |-> FALSE]
  /\ inserted = [r \in Requests |-> {}]
  /\ today    = [r \in Requests |-> 0]
  /\ held     = [r \in Requests |-> Zero]
  /\ events   = [k \in Users \X Days |-> Zero]
  /\ raced    = {}

\* get_db closes the session: what is not committed is rolled back.
Close(r) ==
  /\ pc'       = [pc       EXCEPT ![r] = "idle"]
  /\ job'      = [job      EXCEPT ![r] = NoJob]
  /\ unsaved'  = [unsaved  EXCEPT ![r] = FALSE]
  /\ inserted' = [inserted EXCEPT ![r] = {}]
  /\ today'    = [today    EXCEPT ![r] = 0]
  /\ held'     = [held     EXCEPT ![r] = Zero]

\* A scan of user u, or a review of u's files, with or without findings. A
\* review blocks nothing.
Start(r, u, review, blocked, findings) ==
  /\ pc[r] = "idle" /\ named < MaxRequests
  /\ review => ~blocked
  /\ ~review => findings
  /\ named' = named + 1
  /\ job' = [job EXCEPT ![r] = [user |-> u, review |-> review, blocked |-> blocked]]
  /\ unsaved' = [unsaved EXCEPT ![r] = ~findings]
  /\ pc' = [pc EXCEPT ![r] = "find_user"]
  /\ UNCHANGED <<dbVars, inserted, today, held, events, raced>>

\* A request that names no user, like those of the HTTP proxy, counts nothing.
StartAnonymous(r) ==
  /\ pc[r] = "idle"
  /\ unsaved' = [unsaved EXCEPT ![r] = TRUE]
  /\ pc' = [pc EXCEPT ![r] = "count"]
  /\ UNCHANGED <<dbVars, job, inserted, today, held, histVars>>

FindUser(r) ==
  /\ pc[r] = "find_user"
  /\ pc' = [pc EXCEPT ![r] = IF job[r].user \in users THEN "find_row" ELSE "add_user"]
  /\ UNCHANGED <<dbVars, job, unsaved, inserted, today, held, histVars>>

\* Slip: the user is left to somebody else.
AddUserNever(r) ==
  /\ pc[r] = "add_user"
  /\ pc' = [pc EXCEPT ![r] = "find_row"]
  /\ UNCHANGED <<dbVars, job, unsaved, inserted, today, held, histVars>>

\* The flush inserts the user, or fails because the user is there by now.
AddUser(r) ==
  /\ pc[r] = "add_user"
  /\ \A q \in Requests : "user" \in inserted[q] => job[q].user # job[r].user
  /\ UNCHANGED <<dbVars, histVars>>
  /\ \/ /\ job[r].user \notin users
        /\ inserted' = [inserted EXCEPT ![r] = @ \cup {"user"}]
        /\ pc' = [pc EXCEPT ![r] = "find_row"]
        /\ UNCHANGED <<job, unsaved, today, held>>
     \/ /\ job[r].user \in users
        /\ Close(r)

FindRow(r) ==
  LET k == <<job[r].user, day>>
  IN  /\ pc[r] = "find_row"
      /\ today' = [today EXCEPT ![r] = day]
      /\ \/ /\ k \in DOMAIN rows
            /\ held' = [held EXCEPT ![r] = rows[k]]
            /\ pc' = [pc EXCEPT ![r] = "count"]
         \/ /\ k \notin DOMAIN rows
            /\ pc' = [pc EXCEPT ![r] = "add_row"]
            /\ UNCHANGED held
      /\ UNCHANGED <<dbVars, job, unsaved, inserted, histVars>>

\* Slip: a row that is there by now is written over with zeros.
AddRowOver(r) ==
  /\ pc[r] = "add_row"
  /\ inserted' = [inserted EXCEPT ![r] = @ \cup {"row"}]
  /\ held' = [held EXCEPT ![r] = Zero]
  /\ pc' = [pc EXCEPT ![r] = "count"]
  /\ UNCHANGED <<dbVars, job, unsaved, today, histVars>>

\* The flush inserts a row of zeros, or fails because there is one by now.
AddRow(r) ==
  /\ pc[r] = "add_row"
  /\ \A q \in Requests : "row" \in inserted[q] => Key(q) # Key(r)
  /\ UNCHANGED <<dbVars, histVars>>
  /\ \/ /\ Key(r) \notin DOMAIN rows
        /\ inserted' = [inserted EXCEPT ![r] = @ \cup {"row"}]
        /\ held' = [held EXCEPT ![r] = Zero]
        /\ pc' = [pc EXCEPT ![r] = "count"]
        /\ UNCHANGED <<job, unsaved, today>>
     \/ /\ Key(r) \in DOMAIN rows
        /\ Close(r)

\* The row after a commit of r: columns r did not change keep the value
\* somebody else may have committed since r read them.
Written(r) ==
  LET new == Plus(held[r], job[r].blocked)
  IN  IF Key(r) \in DOMAIN rows /\ new.blocked = held[r].blocked
      THEN [new EXCEPT !.blocked = rows[Key(r)].blocked] ELSE new

\* Slip: the commit of a review counts what its second pass has counted too.
CommitTwice(r) ==
  /\ pc[r] = "count" /\ ~unsaved[r]
  /\ rows' = [k \in DOMAIN rows \cup {Key(r)} |->
                IF k # Key(r) THEN rows[k]
                ELSE IF job[r].review THEN Plus(Written(r), FALSE) ELSE Written(r)]
  /\ users' = users \cup {job[r].user}
  /\ events' = [events EXCEPT ![Key(r)] = Plus(@, job[r].blocked)]
  /\ Close(r)
  /\ UNCHANGED <<day, named, raced>>

\* The counters are written and committed. A scan is done with the users; a
\* review goes on to count itself again.
Commit(r) ==
  /\ pc[r] = "count" /\ ~unsaved[r]
  /\ rows' = [k \in DOMAIN rows \cup {Key(r)} |->
                IF k = Key(r) THEN Written(r) ELSE rows[k]]
  /\ users' = IF "user" \in inserted[r] THEN users \cup {job[r].user} ELSE users
  /\ events' = [events EXCEPT ![Key(r)] = Plus(@, job[r].blocked)]
  /\ raced' = IF \E q \in Requests \ {r} :
                   pc[q] = "count" /\ ~unsaved[q] /\ Key(q) = Key(r)
              THEN raced \cup {Key(r)} ELSE raced
  /\ \/ /\ ~job[r].review
        /\ Close(r)
     \/ /\ job[r].review
        /\ pc' = [pc EXCEPT ![r] = "find_user"]
        /\ unsaved' = [unsaved EXCEPT ![r] = TRUE]
        /\ inserted' = [inserted EXCEPT ![r] = {}]
        /\ UNCHANGED <<job, today, held>>
  /\ UNCHANGED <<day, named>>

\* Slip: the session is not closed, its transaction stays open.
LeaveOpen(r) ==
  /\ pc[r] = "count" /\ unsaved[r]
  /\ pc' = [pc EXCEPT ![r] = "idle"]
  /\ UNCHANGED <<dbVars, job, unsaved, inserted, today, held, histVars>>

\* The end of a review: what it counted last was never committed.
Leave(r) ==
  /\ pc[r] = "count" /\ unsaved[r]
  /\ Close(r)
  /\ UNCHANGED <<dbVars, histVars>>

\* The request ends with an error where it stands.
Fail(r) ==
  /\ pc[r] # "idle"
  /\ Close(r)
  /\ UNCHANGED <<dbVars, histVars>>

Midnight ==
  /\ day < MaxDay
  /\ day' = day + 1
  /\ UNCHANGED <<users, rows, reqVars, histVars>>

-----------------------------------------------------------------------------
Step(r) ==
  \/ \E u \in Users, review, blocked, findings \in BOOLEAN :
        Start(r, u, review, blocked, findings)
  \/ StartAnonymous(r)
  \/ FindUser(r) \/ AddUser(r) \/ FindRow(r) \/ AddRow(r)
  \/ Commit(r) \/ Leave(r) \/ Fail(r)

Next == (\E r \in Requests : Step(r)) \/ Midnight

Spec == Init /\ [][Next]_vars

\* Threads the operating system runs, on a database that answers a statement
\* once no other transaction is in its way.
Fairness == \A r \in Requests :
  /\ WF_vars(FindUser(r)) /\ WF_vars(AddUser(r)) /\ WF_vars(FindRow(r))
  /\ WF_vars(AddRow(r)) /\ WF_vars(Commit(r)) /\ WF_vars(Leave(r))

FairSpec == Spec /\ Fairness

-----------------------------------------------------------------------------
(***************************************************************************)
(* Properties                                                              *)
(***************************************************************************)
\* The variables hold what the rows and locals of the code hold.
TypeOK ==
  /\ named \in Nat /\ day \in Days
  /\ users \subseteq Users
  /\ DOMAIN rows \subseteq Users \X Days /\ \A k \in DOMAIN rows : rows[k] \in Counters
  /\ pc \in [Requests -> {"idle", "find_user", "add_user", "find_row", "add_row",
                         "count"}]
  /\ job \in [Requests -> [user : Users \cup {"none"}, review : BOOLEAN,
                          blocked : BOOLEAN]]
  /\ unsaved \in [Requests -> BOOLEAN]
  /\ inserted \in [Requests -> SUBSET {"user", "row"}]
  /\ today \in [Requests -> Days] /\ held \in [Requests -> Counters]
  /\ events \in [Users \X Days -> Counters]

\* docs/05-database-test.md TC-DB-22: whoever has counters is in users, also
\* when the request that was to add the user was rolled back or came second.
RowsHaveUsers == \A k \in DOMAIN rows : k[1] \in users

\* The counters never claim more requests, or more blocked ones, than were
\* committed: what a review counts a second time is not kept.
NeverOvercounts ==
  \A k \in DOMAIN rows : /\ rows[k].total <= events[k].total
                         /\ rows[k].blocked <= events[k].blocked

\* docs/05-database-test.md TC-DB-18 where it holds: as long as no request
\* committed between another's read and write of the same row, the counters
\* are exact, whatever was rolled back or inserted at the same time.
ExactUnlessRaced ==
  \A k \in Users \X Days : k \notin raced =>
    events[k] = IF k \in DOMAIN rows THEN rows[k] ELSE Zero

\* Requests that wait for each other's inserts all end: the order user, then
\* row, lets no two of them wait in a circle.
EventuallyAnswered == \A r \in Requests : pc[r] # "idle" ~> pc[r] = "idle"

\* The block rate of the dashboard is the quotient of these two sums.
RowsToday    == {k \in DOMAIN rows : k[2] = day}
TotalToday   == MapThenSumSet(LAMBDA k : rows[k].total, RowsToday)
BlockedToday == MapThenSumSet(LAMBDA k : rows[k].blocked, RowsToday)

\* tests/test_dashboard_api.py:52: "block_rate_percent should be a float
\* between 0 and 100."
BlockRateIsAPercentage == BlockedToday <= TotalToday
=============================================================================
