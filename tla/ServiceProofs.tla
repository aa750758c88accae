--------------------------- MODULE ServiceProofs ---------------------------
(***************************************************************************)
(* Theorems about Service, for any workers, clients, sample users, limit   *)
(* and window. The invariant has two halves: what a start holds, and what  *)
(* a limiter holds.                                                        *)
(***************************************************************************)
EXTENDS Service, FiniteSetTheorems, TLAPS

USE DEF dbVars, limVars

-----------------------------------------------------------------------------
(***************************************************************************)
(* Starts: types, and that only a start under way holds anything.          *)
(***************************************************************************)
StartTypes ==
  /\ phase \in [Workers -> Phases]
  /\ todo \in [Workers -> SUBSET SampleUsers]
  /\ missing \in [Workers -> SUBSET SampleUsers]
  /\ \A w \in Workers : phase[w] # "users" => missing[w] = {} /\ todo[w] = {}
  /\ users \subseteq People /\ daily \subseteq People
  /\ copies \in Nat /\ real \in BOOLEAN

LEMMA PhaseNames ==
  /\ Seeding \subseteq Phases
  /\ "down" \in Phases /\ "waiting" \in Phases /\ "init" \in Phases
  /\ "count" \in Phases /\ "users" \in Phases /\ "behaviors" \in Phases
  /\ "insert" \in Phases /\ "load" \in Phases /\ "up" \in Phases
  /\ "up" \notin Seeding
BY DEF Phases, Seeding

\* A worker that leaves its phase, or goes on from one in which it holds
\* nothing to another such phase.
LEMMA MoveTypes ==
  ASSUME StartTypes, NEW w \in Workers, NEW p \in Phases, p # "users",
         Leave(w, p) \/ (Goto(w, p) /\ phase[w] # "users"),
         users' \subseteq People, daily' \subseteq People, copies' \in Nat, real' \in BOOLEAN
  PROVE  StartTypes'
<1>1. phase' \in [Workers -> Phases] /\ phase'[w] = p /\ \A v \in Workers \ {w} : phase'[v] = phase[v]
  BY DEF StartTypes, Leave, Goto
<1>2. /\ missing' \in [Workers -> SUBSET SampleUsers] /\ todo' \in [Workers -> SUBSET SampleUsers]
      /\ missing'[w] = {} /\ todo'[w] = {}
      /\ \A v \in Workers \ {w} : missing'[v] = missing[v] /\ todo'[v] = todo[v]
  BY DEF StartTypes, Leave, Goto
<1> QED
  BY <1>1, <1>2 DEF StartTypes

LEMMA SeedTypes ==
  ASSUME StartTypes, NEW w \in Workers,
         CommitSamples(w) \/ CountBehaviors(w) \/ CommitBehaviors(w) \/ SeedFails(w)
  PROVE  StartTypes'
<1>1. CASE CommitSamples(w)
  <2>1. users' \subseteq People /\ copies' \in Nat /\ daily' = daily /\ real' = real
    BY <1>1 DEF CommitSamples, StartTypes, People
  <2>2. Leave(w, "behaviors") \/ Leave(w, "load")
    BY <1>1 DEF CommitSamples
  <2> QED
    BY <2>1, <2>2, MoveTypes, PhaseNames DEF StartTypes
<1>2. CASE CountBehaviors(w)
  BY <1>2, MoveTypes, PhaseNames DEF CountBehaviors, StartTypes
<1>3. CASE CommitBehaviors(w)
  <2>1. daily' \subseteq People /\ users' = users /\ copies' = copies /\ real' = real
    BY <1>3 DEF CommitBehaviors, StartTypes, People
  <2> QED
    BY <1>3, <2>1, MoveTypes, PhaseNames DEF CommitBehaviors, StartTypes
<1>4. CASE SeedFails(w)
  BY <1>4, MoveTypes, PhaseNames DEF SeedFails, StartTypes
<1> QED
  BY <1>1, <1>2, <1>3, <1>4

LEMMA StartTypesInit == Init => StartTypes
<1> SUFFICES ASSUME Init PROVE StartTypes
  OBVIOUS
<1>1. real \in BOOLEAN
  BY Zenon DEF Init
<1>2. phase \in [Workers -> Phases]
  BY PhaseNames DEF Init
<1>3. todo \in [Workers -> SUBSET SampleUsers] /\ missing \in [Workers -> SUBSET SampleUsers]
  BY DEF Init
<1>4. \A w \in Workers : missing[w] = {} /\ todo[w] = {}
  BY DEF Init
<1>5. users = {} /\ daily = {} /\ copies \in Nat
  BY DEF Init
<1> QED
  BY <1>1, <1>2, <1>3, <1>4, <1>5 DEF StartTypes

LEMMA StartTypesStep == StartTypes /\ [Next]_vars => StartTypes'
<1> SUFFICES ASSUME StartTypes, [Next]_vars PROVE StartTypes'
  OBVIOUS
<1>1. ASSUME NEW w \in Workers, Start(w) \/ Lock(w) \/ InitDb(w) \/ ComeUp(w) \/ Stop(w)
      PROVE  StartTypes'
  BY <1>1, MoveTypes, PhaseNames DEF Start, Lock, InitDb, ComeUp, Stop, StartTypes
<1>2. ASSUME NEW w \in Workers, CountLogs(w) PROVE StartTypes'
  <2>1. CASE Leave(w, "load")
    BY <1>2, <2>1, MoveTypes, PhaseNames DEF CountLogs, StartTypes
  <2>2. CASE ~Leave(w, "load")
    BY <1>2, <2>2, PhaseNames DEF CountLogs, StartTypes
  <2> QED
    BY <2>1, <2>2
<1>3. ASSUME NEW w \in Workers, NEW u \in SampleUsers, LookUp(w, u) PROVE StartTypes'
  BY <1>3 DEF LookUp, StartTypes
<1>4. ASSUME NEW w \in Workers, NEW c \in Clients, Admit(w, c) PROVE StartTypes'
  <2>1. users' \subseteq People /\ daily' \subseteq People /\ copies' \in Nat /\ real' \in BOOLEAN
    BY <1>4 DEF Admit, Logs, StartTypes
  <2>2. UNCHANGED <<phase, todo, missing>>
    BY <1>4 DEF Admit
  <2> QED
    BY <2>1, <2>2 DEF StartTypes
<1>5. ASSUME NEW w \in Workers, Cleanup(w) PROVE StartTypes'
  <2>1. copies' \in Nat /\ UNCHANGED <<phase, todo, missing, users, daily>>
    BY <1>5 DEF Cleanup, StartTypes
  <2>2. real' \in BOOLEAN
    BY <1>5, Zenon DEF Cleanup, StartTypes
  <2> QED
    BY <2>1, <2>2 DEF StartTypes
<1>6. ASSUME NEW w \in Workers, NEW c \in Clients, Refuse(w, c) PROVE StartTypes'
  BY <1>6 DEF Refuse, StartTypes
<1>7. CASE Tick \/ UNCHANGED vars
  BY <1>7 DEF Tick, vars, StartTypes
<1> QED
  BY <1>1, <1>2, <1>3, <1>4, <1>5, <1>6, <1>7, SeedTypes DEF Next, Lifespan

-----------------------------------------------------------------------------
(***************************************************************************)
(* Limiters. A client's calls are finitely many, or the counts below mean  *)
(* nothing; and no call still in the window is ever forgotten.             *)
(***************************************************************************)
Call == [at : Nat, no : Nat]

LimiterTypes ==
  /\ phase \in [Workers -> Phases]
  /\ now \in Nat
  /\ calls \in [Workers -> [Clients -> SUBSET Call]]
  /\ accepted \in [Workers -> [Clients -> SUBSET Call]]
  /\ \A w \in Workers, c \in Clients :
       /\ IsFiniteSet(accepted[w][c])
       /\ calls[w][c] \subseteq accepted[w][c]
       /\ \A a \in accepted[w][c] : a.at <= now
       /\ phase[w] # "up" => accepted[w][c] = {}

Remembers ==
  \A w \in Workers, c \in Clients : Recent(accepted[w][c], now) \subseteq calls[w][c]

LimiterInv == LimiterTypes /\ Remembers /\ RateLimited

\* Steps of a start: the limiter of a worker that is not up is empty.
LEMMA PhaseKeepsLimiter ==
  ASSUME LimiterInv, NEW w \in Workers, NEW p \in Phases,
         phase' = [phase EXCEPT ![w] = p], phase[w] # "up", UNCHANGED limVars
  PROVE  LimiterInv'
<1>1. LimiterTypes'
  BY DEF LimiterInv, LimiterTypes
<1>2. Remembers' /\ RateLimited'
  BY DEF LimiterInv, Remembers, RateLimited
<1> QED
  BY <1>1, <1>2 DEF LimiterInv

LEMMA CallsAreFinite ==
  ASSUME LimiterTypes, NEW w \in Workers, NEW c \in Clients, NEW S, S \subseteq accepted[w][c]
  PROVE  IsFiniteSet(S) /\ Cardinality(S) \in Nat
BY FS_Subset, FS_CardinalityType DEF LimiterTypes

LEMMA AdmitKeepsLimit ==
  ASSUME LimiterAssumption, LimiterInv, NEW w \in Workers, NEW c \in Clients, Admit(w, c)
  PROVE  LimiterInv'
<1> DEFINE call == [at |-> now, no |-> Cardinality(accepted[w][c]) + 1]
           In(S, t) == {a \in S : t - Window < a.at /\ a.at <= t}
<1>1. call \in Call /\ call.at = now
  BY CallsAreFinite DEF LimiterInv, LimiterTypes, Call
<1>2. /\ UNCHANGED <<phase, now>> /\ phase[w] = "up"
      /\ calls'[w][c] = Recent(calls[w][c], now) \cup {call}
      /\ accepted'[w][c] = accepted[w][c] \cup {call}
      /\ \A v \in Workers, d \in Clients : v # w \/ d # c =>
           calls'[v][d] = calls[v][d] /\ accepted'[v][d] = accepted[v][d]
      /\ Cardinality(Recent(calls[w][c], now)) < Rpm
  BY DEF Admit, Admits, LimiterInv, LimiterTypes
<1>3. LimiterTypes'
  <2>1. IsFiniteSet(accepted'[w][c])
    <3>1. IsFiniteSet(accepted[w][c])
      BY DEF LimiterInv, LimiterTypes
    <3>2. IsFiniteSet(accepted[w][c] \cup {call})
      BY <3>1, FS_AddElement, Zenon
    <3>3. accepted'[w][c] = accepted[w][c] \cup {call}
      BY <1>2, Zenon
    <3> QED
      BY <3>2, <3>3, Zenon
  <2>2. Recent(calls[w][c], now) \subseteq calls[w][c]
    BY DEF Recent
  <2>3. /\ calls' \in [Workers -> [Clients -> SUBSET Call]]
        /\ accepted' \in [Workers -> [Clients -> SUBSET Call]]
    BY <1>1, <2>2 DEF Admit, LimiterInv, LimiterTypes
  <2>4. calls'[w][c] \subseteq accepted'[w][c]
    BY <1>2, <2>2 DEF LimiterInv, LimiterTypes
  <2>5. \A a \in accepted'[w][c] : a.at <= now
    BY <1>1, <1>2 DEF LimiterInv, LimiterTypes
  <2>6. \A v \in Workers, d \in Clients : v # w \/ d # c =>
          /\ IsFiniteSet(accepted'[v][d])
          /\ calls'[v][d] \subseteq accepted'[v][d]
          /\ \A a \in accepted'[v][d] : a.at <= now
          /\ phase[v] # "up" => accepted'[v][d] = {}
    BY <1>2 DEF LimiterInv, LimiterTypes
  <2> HIDE DEF call
  <2>7. \A v \in Workers, d \in Clients :
          /\ IsFiniteSet(accepted'[v][d])
          /\ calls'[v][d] \subseteq accepted'[v][d]
          /\ \A a \in accepted'[v][d] : a.at <= now
          /\ phase[v] # "up" => accepted'[v][d] = {}
    BY <1>2, <2>1, <2>4, <2>5, <2>6
  <2>8. phase' \in [Workers -> Phases] /\ now' \in Nat /\ now' = now /\ phase' = phase
    BY <1>2 DEF LimiterInv, LimiterTypes
  <2> QED
    BY <2>3, <2>7, <2>8 DEF LimiterTypes
<1>4. Remembers'
  BY <1>1, <1>2 DEF Remembers, LimiterInv, Recent
<1>5. ASSUME NEW t \in 0..now
      PROVE  Cardinality(In(accepted'[w][c], t)) <= Rpm
  <2>1. CASE t < now
    <3>1. In(accepted'[w][c], t) = In(accepted[w][c], t)
      BY <1>1, <1>2, <2>1 DEF LimiterInv, LimiterTypes
    <3> QED
      BY <3>1 DEF LimiterInv, RateLimited
  <2>2. CASE t = now
    <3>1. In(accepted'[w][c], t) \subseteq Recent(calls[w][c], now) \cup {call}
      BY <1>1, <1>2, <2>2 DEF LimiterInv, LimiterTypes, Remembers, Recent
    <3>2. Recent(calls[w][c], now) \subseteq accepted[w][c]
      BY DEF Recent, LimiterInv, LimiterTypes
    <3>3. IsFiniteSet(Recent(calls[w][c], now)) /\ Cardinality(Recent(calls[w][c], now)) \in Nat
      BY <3>2, CallsAreFinite DEF LimiterInv
    <3> HIDE DEF call
    <3>4. /\ IsFiniteSet(Recent(calls[w][c], now) \cup {call})
          /\ Cardinality(Recent(calls[w][c], now) \cup {call})
               <= Cardinality(Recent(calls[w][c], now)) + 1
      <4> DEFINE S == Recent(calls[w][c], now)
      <4>1. IsFiniteSet(S) /\ Cardinality(S) \in Nat
        BY <3>3
      <4> HIDE DEF S
      <4>2. /\ IsFiniteSet(S \cup {call})
            /\ Cardinality(S \cup {call}) = IF call \in S THEN Cardinality(S) ELSE Cardinality(S) + 1
        BY <4>1, FS_AddElement
      <4>3. Cardinality(S \cup {call}) <= Cardinality(S) + 1
        BY <4>1, <4>2
      <4> QED
        BY <4>2, <4>3 DEF S
    <3>5. /\ Cardinality(In(accepted'[w][c], t)) \in Nat
          /\ Cardinality(Recent(calls[w][c], now) \cup {call}) \in Nat
          /\ Cardinality(In(accepted'[w][c], t))
               <= Cardinality(Recent(calls[w][c], now) \cup {call})
      BY <3>1, <3>4, FS_Subset, FS_CardinalityType
    <3> QED
      BY <1>2, <3>3, <3>4, <3>5 DEF LimiterAssumption
  <2> QED
    BY <2>1, <2>2 DEF LimiterInv, LimiterTypes
<1>6. RateLimited'
  BY <1>2, <1>5 DEF RateLimited, LimiterInv
<1> QED
  BY <1>3, <1>4, <1>6 DEF LimiterInv

LEMMA LimiterInit == LimiterAssumption /\ Init => LimiterInv
<1> SUFFICES ASSUME LimiterAssumption, Init PROVE LimiterInv
  OBVIOUS
<1>1. \A w \in Workers, c \in Clients : calls[w][c] = {} /\ accepted[w][c] = {}
  BY DEF Init, NoCalls
<1>2. LimiterTypes
  BY <1>1, FS_EmptySet, PhaseNames DEF Init, LimiterTypes, NoCalls
<1>3. Remembers
  BY <1>1 DEF Remembers, Recent
<1>4. ASSUME NEW w \in Workers, NEW c \in Clients, NEW t \in 0..now
      PROVE  Cardinality({a \in accepted[w][c] : t - Window < a.at /\ a.at <= t}) <= Rpm
  <2>1. {a \in accepted[w][c] : t - Window < a.at /\ a.at <= t} = {}
    BY <1>1
  <2>2. Cardinality({}) = 0
    BY FS_EmptySet
  <2> QED
    BY <2>1, <2>2 DEF LimiterAssumption
<1>5. RateLimited
  BY <1>4 DEF RateLimited
<1> QED
  BY <1>2, <1>3, <1>5 DEF LimiterInv

LEMMA LimiterStep == LimiterAssumption /\ StartTypes /\ LimiterInv /\ [Next]_vars => LimiterInv'
<1> SUFFICES ASSUME LimiterAssumption, StartTypes, LimiterInv, [Next]_vars PROVE LimiterInv'
  OBVIOUS
<1>1. ASSUME NEW w \in Workers, Start(w) \/ Lifespan(w) \/ SeedFails(w) PROVE LimiterInv'
  <2>1. PICK p \in Phases : phase' = [phase EXCEPT ![w] = p]
    <3>1. CASE \E u \in SampleUsers : LookUp(w, u)
      BY <3>1 DEF LookUp, StartTypes
    <3> QED
      BY <1>1, <3>1, PhaseNames DEF Lifespan, Start, Lock, InitDb, CountLogs, CommitSamples,
         CountBehaviors, CommitBehaviors, ComeUp, SeedFails, Goto, Leave
  <2>2. phase[w] # "up" /\ UNCHANGED limVars
    BY <1>1, PhaseNames DEF Lifespan, Start, Lock, InitDb, CountLogs, LookUp, CommitSamples,
       CountBehaviors, CommitBehaviors, ComeUp, SeedFails
  <2> QED
    BY <2>1, <2>2, PhaseKeepsLimiter
<1>2. ASSUME NEW w \in Workers, Stop(w) PROVE LimiterInv'
  <2>1. /\ UNCHANGED now /\ phase' = [phase EXCEPT ![w] = "down"]
        /\ \A c \in Clients : calls'[w][c] = {} /\ accepted'[w][c] = {}
        /\ \A v \in Workers \ {w} : calls'[v] = calls[v] /\ accepted'[v] = accepted[v]
        /\ calls' \in [Workers -> [Clients -> SUBSET Call]]
        /\ accepted' \in [Workers -> [Clients -> SUBSET Call]]
    BY <1>2 DEF Stop, Leave, NoCalls, LimiterInv, LimiterTypes
  <2>2. LimiterTypes'
    <3>1. IsFiniteSet({})
      BY FS_EmptySet
    <3>2. \A v \in Workers, c \in Clients :
            /\ IsFiniteSet(accepted'[v][c]) /\ calls'[v][c] \subseteq accepted'[v][c]
            /\ \A a \in accepted'[v][c] : a.at <= now
            /\ phase'[v] # "up" => accepted'[v][c] = {}
      <4> SUFFICES ASSUME NEW v \in Workers, NEW c \in Clients
                   PROVE  /\ IsFiniteSet(accepted'[v][c]) /\ calls'[v][c] \subseteq accepted'[v][c]
                          /\ \A a \in accepted'[v][c] : a.at <= now
                          /\ phase'[v] # "up" => accepted'[v][c] = {}
        OBVIOUS
      <4>1. CASE v = w
        BY <2>1, <3>1, <4>1
      <4>2. CASE v # w
        BY <2>1, <4>2 DEF LimiterInv, LimiterTypes
      <4> QED
        BY <4>1, <4>2
    <3>3. phase' \in [Workers -> Phases] /\ now' = now /\ now \in Nat
      BY <2>1, PhaseNames DEF LimiterInv, LimiterTypes
    <3> QED
      BY <2>1, <3>2, <3>3 DEF LimiterTypes
  <2>3. Remembers'
    BY <2>1 DEF LimiterInv, Remembers, Recent
  <2>4. ASSUME NEW c \in Clients, NEW t \in 0..now
        PROVE  Cardinality({a \in accepted'[w][c] : t - Window < a.at /\ a.at <= t}) <= Rpm
    <3>1. {a \in accepted'[w][c] : t - Window < a.at /\ a.at <= t} = {}
      BY <2>1
    <3> QED
      BY <3>1, FS_EmptySet DEF LimiterAssumption
  <2>5. RateLimited'
    BY <2>1, <2>4 DEF LimiterInv, RateLimited
  <2> QED
    BY <2>2, <2>3, <2>5 DEF LimiterInv
<1>3. ASSUME NEW w \in Workers, NEW c \in Clients, Refuse(w, c) PROVE LimiterInv'
  <2>1. /\ UNCHANGED <<phase, now, accepted>> /\ calls'[w][c] = Recent(calls[w][c], now)
        /\ \A v \in Workers, d \in Clients : v # w \/ d # c => calls'[v][d] = calls[v][d]
        /\ calls' \in [Workers -> [Clients -> SUBSET Call]]
    BY <1>3 DEF Refuse, LimiterInv, LimiterTypes, Recent
  <2>2. LimiterTypes'
    BY <2>1 DEF LimiterInv, LimiterTypes, Recent
  <2>3. Remembers' /\ RateLimited'
    BY <2>1 DEF LimiterInv, Remembers, RateLimited, Recent
  <2> QED
    BY <2>2, <2>3 DEF LimiterInv
<1>4. CASE Tick
  <2>1. now' = now + 1 /\ UNCHANGED <<phase, calls, accepted>> /\ now \in Nat
    BY <1>4 DEF Tick, LimiterInv, LimiterTypes
  <2>2. LimiterTypes'
    BY <2>1 DEF LimiterInv, LimiterTypes, Call
  <2>3. Remembers'
    BY <2>1 DEF LimiterInv, LimiterTypes, Remembers, Recent, LimiterAssumption, Call
  <2>4. ASSUME NEW w \in Workers, NEW c \in Clients
        PROVE  Cardinality({a \in accepted[w][c] : now + 1 - Window < a.at /\ a.at <= now + 1}) <= Rpm
    <3>1. {a \in accepted[w][c] : now + 1 - Window < a.at /\ a.at <= now + 1}
            \subseteq {a \in accepted[w][c] : now - Window < a.at /\ a.at <= now}
      BY <2>1 DEF LimiterInv, LimiterTypes, LimiterAssumption, Call
    <3>2. /\ IsFiniteSet({a \in accepted[w][c] : now - Window < a.at /\ a.at <= now})
          /\ Cardinality({a \in accepted[w][c] : now - Window < a.at /\ a.at <= now}) \in Nat
      BY CallsAreFinite DEF LimiterInv
    <3>3. Cardinality({a \in accepted[w][c] : now - Window < a.at /\ a.at <= now}) <= Rpm
      BY <2>1 DEF LimiterInv, RateLimited
    <3> QED
      BY <3>1, <3>2, <3>3, FS_Subset, FS_CardinalityType DEF LimiterAssumption
  <2>5. RateLimited'
    BY <2>1, <2>4 DEF LimiterInv, RateLimited
  <2> QED
    BY <2>2, <2>3, <2>5 DEF LimiterInv
<1>5. CASE (\E w \in Workers : Cleanup(w)) \/ UNCHANGED vars
  <2>1. UNCHANGED <<phase, now, calls, accepted>>
    BY <1>5, Zenon DEF Cleanup, vars
  <2>2. LimiterTypes'
    BY <2>1 DEF LimiterInv, LimiterTypes
  <2>3. Remembers' /\ RateLimited'
    BY <2>1 DEF LimiterInv, Remembers, RateLimited
  <2> QED
    BY <2>2, <2>3 DEF LimiterInv
<1> QED
  BY <1>1, <1>2, <1>3, <1>4, <1>5, AdmitKeepsLimit DEF Next

-----------------------------------------------------------------------------
\* The variables hold what they should; the limiter of a worker holds no call
\* it has not let through since it started.
THEOREM TypeCorrect == Spec => []TypeOK
<1>1. Init => StartTypes /\ LimiterInv
  BY LimiterAssumption, StartTypesInit, LimiterInit
<1>2. StartTypes /\ LimiterInv /\ [Next]_vars => (StartTypes /\ LimiterInv)'
  BY LimiterAssumption, StartTypesStep, LimiterStep
<1>3. StartTypes /\ LimiterInv => TypeOK
  BY DEF StartTypes, LimiterInv, LimiterTypes, TypeOK
<1> QED
  BY <1>1, <1>2, <1>3, PTL DEF Spec

\* Whatever the limit and the window, no worker lets more than Rpm calls of
\* one client through in any stretch of time as long as the window.
THEOREM LimitHolds == Spec => []RateLimited
<1>1. Init => StartTypes /\ LimiterInv
  BY LimiterAssumption, StartTypesInit, LimiterInit
<1>2. StartTypes /\ LimiterInv /\ [Next]_vars => (StartTypes /\ LimiterInv)'
  BY LimiterAssumption, StartTypesStep, LimiterStep
<1>3. LimiterInv => RateLimited
  BY DEF LimiterInv
<1> QED
  BY <1>1, <1>2, <1>3, PTL DEF Spec

\* And no call is refused with fewer than Rpm accepted in the window before.
THEOREM NoUndueRefusal == Spec => []RefusalsAreDue
<1>1. Init => StartTypes /\ LimiterInv
  BY LimiterAssumption, StartTypesInit, LimiterInit
<1>2. StartTypes /\ LimiterInv /\ [Next]_vars => (StartTypes /\ LimiterInv)'
  BY LimiterAssumption, StartTypesStep, LimiterStep
<1>3. LimiterInv => RefusalsAreDue
  <2> SUFFICES ASSUME LimiterInv, NEW w \in Workers, NEW c \in Clients,
                      ~Admits(calls[w][c], now)
               PROVE  Cardinality({a \in accepted[w][c] : a.at > now - Window}) = Rpm
    BY DEF RefusalsAreDue
  <2> DEFINE recent == {a \in accepted[w][c] : a.at > now - Window}
  <2>1. Recent(calls[w][c], now) = recent
    BY DEF Recent, LimiterInv, LimiterTypes, Remembers
  <2>2. recent = {a \in accepted[w][c] : now - Window < a.at /\ a.at <= now}
    BY LimiterAssumption DEF LimiterInv, LimiterTypes, Call, LimiterAssumption
  <2>3. Cardinality(recent) <= Rpm
    BY <2>2 DEF LimiterInv, LimiterTypes, RateLimited
  <2>4. Cardinality(recent) \in Nat /\ ~(Cardinality(recent) < Rpm)
    BY <2>1, CallsAreFinite DEF LimiterInv, Admits
  <2> QED
    BY <2>3, <2>4, LimiterAssumption DEF LimiterAssumption
<1> QED
  BY <1>1, <1>2, <1>3, PTL DEF Spec

-----------------------------------------------------------------------------
(***************************************************************************)
(* Sample rows. A worker that has found the audit log empty may add one    *)
(* copy; while there is a copy no other worker joins it.                   *)
(***************************************************************************)
Pending == {w \in Workers : phase[w] = "users"}

SamplesInv ==
  /\ copies + Cardinality(Pending) <= Cardinality(Workers)
  /\ copies > 0 => SampleUsers \subseteq users
  /\ \A w \in Pending : SampleUsers \subseteq users \cup missing[w] \cup todo[w]

LEMMA Counts ==
  ASSUME ConstantsAssumption, NEW S, S \subseteq Workers
  PROVE  /\ IsFiniteSet(S) /\ Cardinality(S) \in Nat
         /\ Cardinality(Workers) \in Nat /\ Cardinality(S) <= Cardinality(Workers)
BY FS_Subset, FS_CardinalityType DEF ConstantsAssumption

\* One worker fewer is pending, or none.
LEMMA LessPending ==
  ASSUME ConstantsAssumption, StartTypes, NEW w \in Workers, NEW p \in Phases, p # "users",
         phase' = [phase EXCEPT ![w] = p]
  PROVE  /\ Pending' = Pending \ {w}
         /\ Cardinality(Pending') \in Nat /\ Cardinality(Pending) \in Nat
         /\ Cardinality(Pending') <= Cardinality(Pending)
         /\ w \in Pending => Cardinality(Pending') = Cardinality(Pending) - 1
<1>1. Pending' = Pending \ {w}
  BY DEF Pending, StartTypes
<1>2. Pending \subseteq Workers
  BY DEF Pending
<1>3. /\ IsFiniteSet(Pending) /\ Cardinality(Pending) \in Nat
      /\ IsFiniteSet(Pending \ {w}) /\ Cardinality(Pending \ {w}) \in Nat
  BY <1>2, Counts
<1>4. Cardinality(Pending \ {w}) = IF w \in Pending THEN Cardinality(Pending) - 1 ELSE Cardinality(Pending)
  BY <1>3, FS_RemoveElement
<1> QED
  BY <1>1, <1>3, <1>4

LEMMA SamplesInit == ConstantsAssumption /\ Init => SamplesInv
<1> SUFFICES ASSUME ConstantsAssumption, Init PROVE SamplesInv
  OBVIOUS
<1>1. Pending = {}
  BY DEF Pending, Init
<1>2. Cardinality({}) = 0 /\ Cardinality(Workers) \in Nat
  BY FS_EmptySet, Counts
<1> QED
  BY <1>1, <1>2 DEF SamplesInv, Init

\* Steps after which a worker is not pending and no copy has been added.
LEMMA DropKeepsSamples ==
  ASSUME ConstantsAssumption, StartTypes, SamplesInv, NEW w \in Workers, NEW p \in Phases, p # "users",
         phase' = [phase EXCEPT ![w] = p],
         \A v \in Workers \ {w} : missing'[v] = missing[v] /\ todo'[v] = todo[v],
         UNCHANGED <<users, copies>>
  PROVE  SamplesInv'
<1>1. /\ Pending' = Pending \ {w}
      /\ Cardinality(Pending') \in Nat /\ Cardinality(Pending) \in Nat
      /\ Cardinality(Pending') <= Cardinality(Pending)
  BY LessPending
<1>2. Cardinality(Workers) \in Nat /\ copies \in Nat
  BY Counts DEF StartTypes
<1>3. copies' + Cardinality(Pending') <= Cardinality(Workers)
  BY <1>1, <1>2 DEF SamplesInv
<1>4. \A v \in Pending' : v \in Pending /\ missing'[v] = missing[v] /\ todo'[v] = todo[v]
  BY <1>1 DEF Pending
<1> QED
  BY <1>3, <1>4 DEF SamplesInv

LEMMA SamplesStep == ConstantsAssumption /\ StartTypes /\ SamplesInv /\ [Next]_vars => SamplesInv'
<1> SUFFICES ASSUME ConstantsAssumption, StartTypes, SamplesInv, [Next]_vars PROVE SamplesInv'
  OBVIOUS
<1>1. ASSUME NEW w \in Workers,
             \/ Start(w) \/ Lock(w) \/ InitDb(w) \/ ComeUp(w) \/ Stop(w)
             \/ CountBehaviors(w) \/ CommitBehaviors(w) \/ SeedFails(w)
      PROVE  SamplesInv'
  <2>1. PICK p \in Phases \ {"users"} : phase' = [phase EXCEPT ![w] = p]
    BY <1>1, PhaseNames DEF Start, Lock, InitDb, ComeUp, Stop, CountBehaviors,
       CommitBehaviors, SeedFails, Goto, Leave
  <2>2. /\ \A v \in Workers \ {w} : missing'[v] = missing[v] /\ todo'[v] = todo[v]
        /\ UNCHANGED <<users, copies>>
    BY <1>1 DEF Start, Lock, InitDb, ComeUp, Stop, CountBehaviors, CommitBehaviors,
       SeedFails, Goto, Leave, StartTypes
  <2> QED
    BY <2>1, <2>2, DropKeepsSamples
<1>2. ASSUME NEW w \in Workers, CountLogs(w) PROVE SamplesInv'
  <2>1. CASE Leave(w, "load")
    <3>1. /\ phase' = [phase EXCEPT ![w] = "load"]
          /\ \A v \in Workers \ {w} : missing'[v] = missing[v] /\ todo'[v] = todo[v]
          /\ UNCHANGED <<users, copies>>
      BY <1>2, <2>1 DEF CountLogs, Leave, StartTypes
    <3> QED
      BY <3>1, PhaseNames, DropKeepsSamples
  <2>2. CASE ~Leave(w, "load")
    <3>1. /\ copies = 0 /\ UNCHANGED <<users, copies, missing>>
          /\ phase' = [phase EXCEPT ![w] = "users"] /\ todo' = [todo EXCEPT ![w] = SampleUsers]
      BY <1>2, <2>2 DEF CountLogs
    <3>2. Pending' = Pending \cup {w} /\ Pending' \subseteq Workers
      BY <3>1 DEF Pending, StartTypes
    <3>3. copies' + Cardinality(Pending') <= Cardinality(Workers)
      BY <3>1, <3>2, Counts
    <3>4. \A v \in Pending' : SampleUsers \subseteq users' \cup missing'[v] \cup todo'[v]
      BY <3>1, <3>2 DEF SamplesInv, StartTypes, Pending
    <3> QED
      BY <3>1, <3>3, <3>4 DEF SamplesInv
  <2> QED
    BY <2>1, <2>2
<1>3. ASSUME NEW w \in Workers, NEW u \in SampleUsers, LookUp(w, u) PROVE SamplesInv'
  <2>1. /\ missing' = [missing EXCEPT ![w] = @ \cup ({u} \ users)]
        /\ todo' = [todo EXCEPT ![w] = @ \ {u}]
        /\ UNCHANGED <<phase, users, copies>>
    BY <1>3 DEF LookUp
  <2>2. Pending' = Pending
    BY <2>1 DEF Pending
  <2>3. \A v \in Pending : SampleUsers \subseteq users \cup missing'[v] \cup todo'[v]
    BY <2>1 DEF SamplesInv, StartTypes, Pending
  <2> QED
    BY <2>1, <2>2, <2>3 DEF SamplesInv
<1>4. ASSUME NEW w \in Workers, CommitSamples(w) PROVE SamplesInv'
  <2>1. CASE missing[w] \cap users # {}
    <3>1. /\ phase' = [phase EXCEPT ![w] = "load"]
          /\ \A v \in Workers \ {w} : missing'[v] = missing[v] /\ todo'[v] = todo[v]
          /\ UNCHANGED <<users, copies>>
      BY <1>4, <2>1 DEF CommitSamples, Leave, StartTypes
    <3> QED
      BY <3>1, PhaseNames, DropKeepsSamples
  <2>2. CASE missing[w] \cap users = {}
    <3>1. /\ w \in Pending /\ todo[w] = {}
          /\ users' = users \cup missing[w] /\ copies' = copies + 1
          /\ phase' = [phase EXCEPT ![w] = "behaviors"]
          /\ \A v \in Workers \ {w} : missing'[v] = missing[v] /\ todo'[v] = todo[v]
      BY <1>4, <2>2 DEF CommitSamples, Leave, StartTypes, Pending
    <3>2. Cardinality(Pending') = Cardinality(Pending) - 1 /\ Pending' = Pending \ {w}
          /\ Cardinality(Pending) \in Nat
      BY <3>1, PhaseNames, LessPending
    <3>3. copies' + Cardinality(Pending') <= Cardinality(Workers)
      BY <3>1, <3>2, Counts DEF SamplesInv, StartTypes
    <3>4. SampleUsers \subseteq users'
      BY <3>1 DEF SamplesInv
    <3> QED
      BY <3>3, <3>4 DEF SamplesInv
  <2> QED
    BY <2>1, <2>2
<1>5. ASSUME NEW w \in Workers, NEW c \in Clients, Admit(w, c) PROVE SamplesInv'
  <2>1. users \subseteq users' /\ UNCHANGED <<phase, todo, missing, copies>>
    BY <1>5, Zenon DEF Admit, Logs
  <2>2. Pending' = Pending
    BY <2>1 DEF Pending
  <2> QED
    BY <2>1, <2>2 DEF SamplesInv
<1>6. ASSUME NEW w \in Workers, Cleanup(w) PROVE SamplesInv'
  <2>1. /\ UNCHANGED <<phase, todo, missing, users>>
        /\ copies' \in Nat /\ copies' <= copies
    BY <1>6 DEF Cleanup, StartTypes
  <2>2. Pending' = Pending /\ Cardinality(Pending) \in Nat /\ Cardinality(Workers) \in Nat
    BY <2>1, Counts DEF Pending
  <2> QED
    BY <2>1, <2>2 DEF SamplesInv, StartTypes
<1>7. CASE (\E w \in Workers, c \in Clients : Refuse(w, c)) \/ Tick \/ UNCHANGED vars
  <2>1. UNCHANGED <<phase, todo, missing, users, copies>>
    BY <1>7, Zenon DEF Refuse, Tick, vars
  <2>2. Pending' = Pending
    BY <2>1 DEF Pending
  <2> QED
    BY <2>1, <2>2 DEF SamplesInv
<1> QED
  BY <1>1, <1>2, <1>3, <1>4, <1>5, <1>6, <1>7 DEF Next, Lifespan

\* However many workers start, crash and start again at once, there are never
\* more copies of the sample rows than workers, and never any without their
\* users.
THEOREM SeedingIsWhole == Spec => []SamplesAreWhole
<1>1. Init => StartTypes /\ SamplesInv
  BY ConstantsAssumption, StartTypesInit, SamplesInit
<1>2. StartTypes /\ SamplesInv /\ [Next]_vars => (StartTypes /\ SamplesInv)'
  BY ConstantsAssumption, StartTypesStep, SamplesStep
<1>3. StartTypes /\ SamplesInv => SamplesAreWhole
  <2> SUFFICES ASSUME StartTypes, SamplesInv PROVE SamplesAreWhole
    OBVIOUS
  <2>1. Cardinality(Pending) \in Nat /\ Cardinality(Workers) \in Nat
    BY ConstantsAssumption, Counts DEF Pending
  <2> QED
    BY <2>1 DEF SamplesInv, SamplesAreWhole, StartTypes
<1> QED
  BY <1>1, <1>2, <1>3, PTL DEF Spec

-----------------------------------------------------------------------------
(***************************************************************************)
(* One start at a time at the sample rows.                                 *)
(***************************************************************************)
\* No two workers fill the audit log at the same time.
OneSeeds == \A v, w \in Workers : phase[v] = "users" /\ phase[w] = "users" => v = w

\* The audit log has the sample rows once, if it has them.
OneCopy == copies <= 1

\* Who fills an audit log has found it empty, and nobody has filled it since.
CopyInv == OneCopy /\ \A w \in Workers : phase[w] = "users" => copies = 0

LEMMA CopyInit == Init => CopyInv
BY DEF Init, CopyInv, OneCopy

LEMMA CopyStep == StartTypes /\ OneSeeds /\ CopyInv /\ [Next]_vars => CopyInv'
<1> SUFFICES ASSUME StartTypes, OneSeeds, CopyInv, [Next]_vars PROVE CopyInv'
  OBVIOUS
<1> USE DEF CopyInv, OneCopy
<1>1. ASSUME NEW w \in Workers, NEW p, p # "users", phase' = [phase EXCEPT ![w] = p],
             UNCHANGED copies
      PROVE  CopyInv'
  BY <1>1 DEF StartTypes
<1>2. ASSUME NEW w \in Workers, CountLogs(w) PROVE CopyInv'
  BY <1>2, <1>1 DEF CountLogs, Leave, dbVars, StartTypes
<1>3. ASSUME NEW w \in Workers, CommitSamples(w) PROVE CopyInv'
  <2>1. copies = 0 /\ \A v \in Workers \ {w} : phase[v] # "users"
    BY <1>3 DEF CommitSamples, OneSeeds
  <2>2. phase'[w] # "users" /\ \A v \in Workers \ {w} : phase'[v] = phase[v]
    BY <1>3 DEF CommitSamples, Leave, StartTypes
  <2>3. copies' \in {0, 1}
    BY <1>3, <2>1 DEF CommitSamples
  <2> QED
    BY <2>1, <2>2, <2>3
<1>4. ASSUME NEW w \in Workers, Cleanup(w) PROVE CopyInv'
  BY <1>4 DEF Cleanup, StartTypes
<1>5. ASSUME UNCHANGED <<phase, copies>> PROVE CopyInv'
  BY <1>5
<1>6. ASSUME NEW w \in Workers, Start(w) \/ Lock(w) \/ InitDb(w) \/ ComeUp(w) \/ SeedFails(w) \/ Stop(w)
      PROVE  CopyInv'
  BY <1>1, <1>6 DEF Start, Lock, InitDb, ComeUp, SeedFails, Stop, Goto, Leave, dbVars
<1>7. ASSUME NEW w \in Workers, CountBehaviors(w) \/ CommitBehaviors(w) PROVE CopyInv'
  BY <1>1, <1>7 DEF CountBehaviors, CommitBehaviors, Leave, dbVars
<1>8. ASSUME NEW w \in Workers, NEW u \in SampleUsers, LookUp(w, u) PROVE CopyInv'
  BY <1>5, <1>8 DEF LookUp, dbVars
<1>9. ASSUME NEW w \in Workers, NEW c \in Clients, Admit(w, c) \/ Refuse(w, c) PROVE CopyInv'
  BY <1>5, <1>9 DEF Admit, Refuse, Logs, dbVars
<1>10. ASSUME Tick \/ UNCHANGED vars PROVE CopyInv'
  BY <1>5, <1>10 DEF Tick, vars, dbVars
<1> QED
  BY <1>2, <1>3, <1>4, <1>6, <1>7, <1>8, <1>9, <1>10 DEF Next, Lifespan

\* The lock of init_db does not cover the sample rows. As long as no two
\* workers are between their count of the audit log and their commit, there is
\* never more than one copy of them, whatever else fails, stops or cleans up.
THEOREM SeedingAloneIsOnce == Spec /\ []OneSeeds => []OneCopy
<1>1. Spec => []StartTypes
  BY StartTypesInit, StartTypesStep, PTL DEF Spec
<1>2. CopyInv => OneCopy
  BY DEF CopyInv
<1> QED
  BY <1>1, <1>2, CopyInit, CopyStep, PTL DEF Spec
=============================================================================
