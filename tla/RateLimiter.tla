---------------------------- MODULE RateLimiter ----------------------------
(***************************************************************************)
(* class RateLimiter of app/main.py: a sliding window over the calls it    *)
(* has let through. _windows holds, for one client, the times of those     *)
(* calls; a call here is a record with its time and a number of its own,   *)
(* for two calls may read the same time.                                   *)
(***************************************************************************)
EXTENDS Integers, FiniteSets

CONSTANTS
  Rpm,       \* settings.rate_limit_rpm
  Window     \* the 60 seconds of check()

ASSUME LimiterAssumption == Rpm \in Nat /\ Window \in Nat \ {0}

\* Slip: `>=` for `>`.
RecentClosed(calls, now) == {c \in calls : c.at >= now - Window}

\* What check() keeps of a client's calls at time now.
Recent(calls, now) == {c \in calls : c.at > now - Window}

\* Slip: `>` for `>=` in the test of the count.
AdmitsOneMore(calls, now) == Cardinality(Recent(calls, now)) <= Rpm

Admits(calls, now) == Cardinality(Recent(calls, now)) < Rpm
=============================================================================
