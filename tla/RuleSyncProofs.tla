--------------------------- MODULE RuleSyncProofs ---------------------------
(***************************************************************************)
(* Theorems about RuleSync, for any rules, workers and administrators'     *)
(* threads. The invariant has two parts: what the tables, the engines and  *)
(* the requests hold, and how far an undisturbed reload has brought the    *)
(* engines of its worker.                                                  *)
(***************************************************************************)
EXTENDS RuleSync, TLAPS

CustomJob == [op : {"create", "update"} \cup Imports, rule : Custom, at : Workers, arg : Row]
SdkJob    == [op : {"toggle", "import_sdk"}, rule : Sdk, at : Workers, arg : BOOLEAN]
DeleteJob == [op : {"delete", "delete_sdk"}, rule : Sdk \cup Custom, at : Workers, arg : {FALSE}]
Job       == CustomJob \cup SdkJob \cup DeleteJob

\* Functions from some of the rules in S to rows.
Rules(S) == UNION {[T -> Row] : T \in SUBSET S}

Reloading == {"load", "scanner", "customs", "inject", "find_off", "switch_off",
              "find_custom_off", "custom_off"}

Stores ==
  /\ sdkOn \subseteq Sdk /\ rows \in Rules(Custom)
  /\ io \in [Workers -> Rules(IoSdk \cup Custom)]
  /\ scanner \in [Workers -> Rules(CrSdk \cup Custom)]
  /\ seen \in [Processes -> Row]
  /\ snap \in [Processes -> Rules(Custom)]
  /\ off \in [Processes -> SUBSET (Sdk \cup Custom)]

\* Where processes can be, and what they then know of their job.
Steps(p) == IF p \in Workers THEN {"down", "bundles", "up"} \cup Reloading
            ELSE {"idle", "commit", "refresh", "switch", "remove", "add"} \cup Reloading

Busied(p) ==
  /\ p \in Admins /\ pc[p] # "idle" => job[p] \in Job
  /\ pc[p] = "add" => job[p].rule \in Custom

Moves ==
  /\ pc = [p \in Processes |-> pc[p]] /\ job = [p \in Processes |-> job[p]]
  /\ \A p \in Processes : pc[p] \in Steps(p) /\ Busied(p)

Types == Stores /\ Moves

\* What reload p has done to worker w when nothing else did anything to it.
\* Engines are described by the rules that are in force in them.
CrPatterns == {x \in DOMAIN rows : rows[x].kind \in Review /\ rows[x].pattern}

Progress(p, w) ==
  /\ pc[p] \in Reloading \ {"load"} /\ snap[p] = rows
  /\ pc[p] = "customs" => CrActive(w) = CrSdk
  /\ pc[p] \in {"inject", "find_off", "switch_off"} => CrActive(w) = CrSdk \cup CrPatterns
  /\ pc[p] \in {"find_off", "switch_off"} => IoActive(w) = IoSdk \cup Wanted({"io"})
  /\ pc[p] = "switch_off" => off[p] = Sdk \ sdkOn
  /\ pc[p] \in {"find_custom_off", "custom_off"} =>
       IoActive(w) = IoWanted /\ CrActive(w) = (CrSdk \cap sdkOn) \cup CrPatterns
  /\ pc[p] = "custom_off" => off[p] = {x \in DOMAIN rows : ~rows[x].enabled}

Reloads ==
  /\ undisturbed \subseteq Processes /\ fresh \subseteq Workers
  /\ \A p \in undisturbed : pc[p] \in Reloading \ {"load"}
  /\ \A p \in undisturbed, w \in Workers : Home(p) = w => Progress(p, w)
  /\ \A w \in fresh : Agrees(w)

IInv == Types /\ Reloads

-----------------------------------------------------------------------------
(***************************************************************************)
(* Facts about the definitions                                             *)
(***************************************************************************)
LEMMA Kinds0 ==
  /\ Workers \subseteq Processes /\ Admins \subseteq Processes
  /\ \A a \in Admins : a \notin Workers
  /\ IoSdk \subseteq Sdk /\ CrSdk \subseteq Sdk
BY ConstantsAssumption DEF Processes, Sdk

LEMMA OnIsRow == On("io") \in Row /\ On("cr") \in Row
BY DEF On, Row

LEMMA RulesAre ==
  ASSUME NEW S, NEW f \in Rules(S)
  PROVE  DOMAIN f \subseteq S /\ f \in [DOMAIN f -> Row]
BY DEF Rules

LEMMA IsRules ==
  ASSUME NEW S, NEW T \in SUBSET S, NEW f \in [T -> Row]
  PROVE  f \in Rules(S)
BY DEF Rules

LEMMA NoRuleIsRules == \A S : NoRule \in Rules(S)
<1> TAKE S
<1>1. NoRule \in [{} -> Row]
  BY DEF NoRule
<1> QED
  BY <1>1, IsRules

LEMMA WithIsRules ==
  ASSUME NEW S, NEW f \in Rules(S), NEW x \in S, NEW row \in Row
  PROVE  With(f, x, row) \in Rules(S)
<1>1. With(f, x, row) \in [DOMAIN f \cup {x} -> Row]
  BY RulesAre DEF With
<1>2. DOMAIN f \cup {x} \in SUBSET S
  BY RulesAre
<1> QED
  BY <1>1, <1>2, IsRules

LEMMA RestrictIsRules ==
  ASSUME NEW S, NEW f \in Rules(S), NEW T
  PROVE  Restrict(f, DOMAIN f \ T) \in Rules(S)
<1>1. Restrict(f, DOMAIN f \ T) \in [DOMAIN f \ T -> Row]
  BY RulesAre DEF Restrict
<1>2. DOMAIN f \ T \in SUBSET S
  BY RulesAre
<1> QED
  BY <1>1, <1>2, IsRules

LEMMA WithoutIsRules ==
  ASSUME NEW S, NEW f \in Rules(S), NEW x
  PROVE  Without(f, x) \in Rules(S)
BY RestrictIsRules DEF Without

LEMMA EnabledIsRow ==
  ASSUME NEW r \in Row, NEW e \in BOOLEAN
  PROVE  /\ [r EXCEPT !.enabled = e] \in Row
         /\ [r EXCEPT !.enabled = e].enabled = e
         /\ [r EXCEPT !.enabled = e].kind = r.kind
         /\ [r EXCEPT !.enabled = e].pattern = r.pattern
BY DEF Row

LEMMA SwitchedIsRules ==
  ASSUME NEW S, NEW f \in Rules(S), NEW xs, NEW e \in BOOLEAN
  PROVE  SwitchedTo(f, xs, e) \in Rules(S)
<1>1. \A y \in DOMAIN f : f[y] \in Row /\ [f[y] EXCEPT !.enabled = e] \in Row
  BY RulesAre, EnabledIsRow
<1>2. SwitchedTo(f, xs, e) \in [DOMAIN f -> Row]
  BY <1>1 DEF SwitchedTo
<1>3. DOMAIN f \in SUBSET S
  BY RulesAre
<1> QED
  BY <1>2, <1>3, IsRules

LEMMA UpdatedIsRow ==
  ASSUME NEW row \in Row, NEW read \in Row, NEW new \in Row
  PROVE  Updated(row, read, new) \in Row
BY DEF Updated, Written, Row

LEMMA HeldIsRules ==
  ASSUME Stores, NEW p \in Processes, NEW xs \in SUBSET DOMAIN rows
  PROVE  Held(p, xs) \in Rules(Custom)
<1>1. /\ DOMAIN snap[p] \subseteq Custom /\ snap[p] \in [DOMAIN snap[p] -> Row]
      /\ DOMAIN rows \subseteq Custom /\ rows \in [DOMAIN rows -> Row]
  BY RulesAre DEF Stores
<1>2. Held(p, xs) \in [DOMAIN snap[p] \cup xs -> Row]
  BY <1>1 DEF Held
<1>3. DOMAIN snap[p] \cup xs \in SUBSET Custom
  BY <1>1
<1> QED
  BY <1>2, <1>3, IsRules

LEMMA JobsAre ==
  ASSUME NEW j \in Job
  PROVE  /\ j.at \in Workers /\ j.rule \in Sdk \cup Custom
         /\ j.op \in {"create", "update", "import", "import_new"} => j.rule \in Custom /\ j.arg \in Row
         /\ j.op \in {"toggle", "import_sdk"} => j.rule \in Sdk /\ j.arg \in BOOLEAN
BY DEF Job, CustomJob, SdkJob, DeleteJob, Imports

-----------------------------------------------------------------------------
(***************************************************************************)
(* Where processes are                                                     *)
(***************************************************************************)
LEMMA GotoMoves ==
  ASSUME Moves, NEW p \in Processes, NEW step \in Steps(p), Goto(p, step),
         p \in Admins => pc[p] # "idle", step = "add" => job[p].rule \in Custom
  PROVE  Moves'
<1>1. /\ pc' = [q \in Processes |-> IF q = p THEN step ELSE pc[q]] /\ job' = job
  BY DEF Goto, Moves
<1>2. \A q \in Processes : pc'[q] \in Steps(q) /\ Busied(q)'
  BY <1>1 DEF Moves, Busied
<1> QED
  BY <1>1, <1>2 DEF Moves

LEMMA EndMoves ==
  ASSUME Moves, NEW p \in Processes, End(p)
  PROVE  Moves'
<1>1. /\ pc' = [q \in Processes |-> IF q = p THEN IF p \in Workers THEN "up" ELSE "idle" ELSE pc[q]]
      /\ job' = [q \in Processes |-> IF q = p THEN NoJob ELSE job[q]]
  BY DEF End, Moves
<1>2. \A q \in Processes : pc'[q] \in Steps(q) /\ Busied(q)'
  BY <1>1, ConstantsAssumption DEF Moves, Busied, Steps
<1> QED
  BY <1>1, <1>2 DEF Moves

LEMMA StartMoves ==
  ASSUME Moves, NEW a \in Admins, NEW w \in Workers, NEW op, NEW x, NEW arg,
         Start(a, w, op, x, arg), [op |-> op, rule |-> x, at |-> w, arg |-> arg] \in Job
  PROVE  Moves'
<1>1. /\ pc' = [q \in Processes |-> IF q = a THEN "commit" ELSE pc[q]]
      /\ job' = [q \in Processes |-> IF q = a THEN [op |-> op, rule |-> x, at |-> w, arg |-> arg] ELSE job[q]]
  BY DEF Start, Moves
<1>2. \A q \in Processes : pc'[q] \in Steps(q) /\ Busied(q)'
  BY <1>1, Kinds0 DEF Moves, Busied, Steps
<1> QED
  BY <1>1, <1>2 DEF Moves

LEMMA StopMoves ==
  ASSUME Moves, NEW w \in Workers, Stop(w)
  PROVE  Moves'
<1> DEFINE gone == {w} \cup {a \in Admins : pc[a] # "idle" /\ Home(a) = w}
<1>1. /\ pc' = [q \in Processes |-> IF q = w THEN "down" ELSE IF q \in gone THEN "idle" ELSE pc[q]]
      /\ job' = [q \in Processes |-> IF q \in gone THEN NoJob ELSE job[q]]
  BY DEF Stop
<1>2. \A q \in Workers : q \in gone => q = w
  BY Kinds0
<1> HIDE DEF gone
<1>3. \A q \in Processes : pc'[q] \in Steps(q) /\ Busied(q)'
  BY <1>1, <1>2, Kinds0 DEF Moves, Busied, Steps
<1> QED
  BY <1>1, <1>3 DEF Moves

\* No step of a request is one of a startup, nor the reverse.
LEMMA RequestMoves ==
  ASSUME Stores, Moves, NEW a \in Admins, NEW w \in Workers, Request(a, w)
  PROVE  Moves'
<1>1. ASSUME NEW x \in Custom, NEW row \in Row,
             StartCreate(a, w, x, row) \/ StartUpdate(a, w, x, row) \/ StartImport(a, w, x, row)
      PROVE  Moves'
  <2>1. PICK op \in {"create", "update"} \cup Imports : Start(a, w, op, x, row)
    BY <1>1 DEF StartCreate, StartUpdate, StartImport, Imports
  <2>2. [op |-> op, rule |-> x, at |-> w, arg |-> row] \in Job
    BY DEF Job, CustomJob
  <2> QED
    BY <2>1, <2>2, StartMoves
<1>2. ASSUME NEW r \in Sdk, NEW e \in BOOLEAN, StartToggle(a, w, r, e) \/ StartImportSdk(a, w, r, e)
      PROVE  Moves'
  <2>1. PICK op \in {"toggle", "import_sdk"} : Start(a, w, op, r, e)
    BY <1>2 DEF StartToggle, StartImportSdk
  <2>2. [op |-> op, rule |-> r, at |-> w, arg |-> e] \in SdkJob
    BY DEF SdkJob
  <2>3. [op |-> op, rule |-> r, at |-> w, arg |-> e] \in Job
    BY <2>2 DEF Job
  <2> QED
    BY <2>1, <2>3, StartMoves
<1>3. ASSUME NEW x \in Custom \cup Sdk, StartDelete(a, w, x)
      PROVE  Moves'
  <2>1. PICK op \in {"delete", "delete_sdk"} : Start(a, w, op, x, FALSE)
    BY <1>3 DEF StartDelete
  <2>2. [op |-> op, rule |-> x, at |-> w, arg |-> FALSE] \in Job
    BY DEF Job, DeleteJob
  <2> QED
    BY <2>1, <2>2, StartMoves
<1> QED
  BY <1>1, <1>2, <1>3 DEF Request

LEMMA HandleMoves ==
  ASSUME Stores, Moves, NEW a \in Admins, Handle(a)
  PROVE  Moves'
<1>1. /\ a \in Processes /\ a \notin Workers
      /\ {"refresh", "switch", "remove", "load"} \subseteq Steps(a) /\ "add" \in Steps(a)
  BY Kinds0 DEF Steps, Reloading
<1>2. pc[a] # "idle" => job[a] \in Job
  BY <1>1 DEF Moves, Busied
<1>3. DOMAIN rows \subseteq Custom
  BY RulesAre DEF Stores
<1>4. CASE End(a)
  BY <1>1, <1>4, EndMoves
<1>5. ASSUME pc[a] # "idle", NEW step \in {"refresh", "switch", "remove", "load"}, Goto(a, step)
      PROVE  Moves'
  BY <1>1, <1>5, GotoMoves
<1>6. ASSUME pc[a] # "idle", job[a].rule \in Custom, Goto(a, "add")
      PROVE  Moves'
  BY <1>1, <1>6, GotoMoves
<1>7. CASE CommitCreate(a) \/ CommitUpdate(a) \/ CommitToggle(a) \/ CommitDelete(a)
           \/ CommitImport(a) \/ CommitImportSdk(a)
  BY <1>4, <1>5, <1>7 DEF CommitCreate, CommitUpdate, CommitToggle, CommitDelete,
     CommitImport, CommitImportSdk, Insert, Update, Committing
<1>8. CASE Refresh(a)
  <2>1. pc[a] # "idle"
    BY <1>8 DEF Refresh
  <2>2. \/ Goto(a, "switch") \/ End(a)
        \/ /\ job[a].rule \in DOMAIN rows
           /\ Goto(a, "remove") \/ Goto(a, "add")
    BY <1>8 DEF Refresh
  <2> QED
    BY <2>1, <2>2, <1>3, <1>4, <1>5, <1>6
<1>9. CASE Switch(a) \/ Add(a)
  BY <1>4, <1>9 DEF Switch, Add
<1>10. CASE Remove(a)
  BY <1>2, <1>4, <1>6, <1>10, JobsAre DEF Remove
<1> QED
  BY <1>7, <1>8, <1>9, <1>10 DEF Handle

LEMMA ReloadMoves ==
  ASSUME Moves, NEW p \in Processes, Reload(p)
  PROVE  Moves'
<1>1. CASE CustomOff(p)
  BY <1>1, EndMoves DEF CustomOff
<1>2. CASE ~CustomOff(p)
  <2>1. PICK step \in Reloading : Goto(p, step) /\ pc[p] \in Reloading
    BY <1>2 DEF Reload, Load, SetScanner, AddCustoms, Inject, FindOff, SwitchOff,
       FindCustomOff, Reloading
  <2>2. step \in Steps(p) /\ step # "add" /\ pc[p] # "idle"
    BY <2>1 DEF Steps, Reloading
  <2> QED
    BY <2>1, <2>2, GotoMoves
<1> QED
  BY <1>1, <1>2

LEMMA MoveStep ==
  ASSUME Types, [Next]_vars
  PROVE  Moves'
<1> USE DEF Types
<1>1. ASSUME NEW a \in Admins, NEW w \in Workers, Request(a, w)
      PROVE  Moves'
  BY <1>1, RequestMoves
<1>2. ASSUME NEW a \in Admins, Handle(a)
      PROVE  Moves'
  BY <1>2, HandleMoves
<1>3. ASSUME NEW p \in Processes, Reload(p)
      PROVE  Moves'
  BY <1>3, ReloadMoves
<1>4. ASSUME NEW w \in Workers, Stop(w)
      PROVE  Moves'
  BY <1>4, StopMoves
<1>5. ASSUME NEW w \in Workers, Startup(w)
      PROVE  Moves'
  <2>1. w \in Processes /\ w \notin Admins /\ {"bundles", "load"} \subseteq Steps(w)
    BY Kinds0 DEF Steps, Reloading
  <2>2. \/ \E step \in {"bundles", "load"} : Goto(w, step)
        \/ UNCHANGED <<pc, job>>
    BY <1>5 DEF Startup, InitDb, Imported, ImportBundle
  <2>3. CASE UNCHANGED <<pc, job>>
    BY <2>3 DEF Moves, Busied
  <2> QED
    BY <2>1, <2>2, <2>3, GotoMoves
<1>6. ASSUME NEW p \in Processes, Fail(p)
      PROVE  Moves'
  BY <1>6, EndMoves DEF Fail
<1>7. CASE UNCHANGED vars
  BY <1>7 DEF Moves, Busied, vars, reqVars
<1> QED
  BY <1>1, <1>2, <1>3, <1>4, <1>5, <1>6, <1>7 DEF Next, Calm

-----------------------------------------------------------------------------
(***************************************************************************)
(* What tables, engines and requests hold                                  *)
(***************************************************************************)
LEMMA HomeIsWorker ==
  ASSUME Moves, NEW p \in Processes, pc[p] # "idle"
  PROVE  Home(p) \in Workers
BY JobsAre DEF Home, Moves, Busied, Processes

LEMMA InitTypes ==
  ASSUME Init
  PROVE  Types
<1>1. sdkOn \subseteq Sdk /\ rows \in Rules(Custom)
  BY NoRuleIsRules DEF Init
<1>2. /\ io \in [Workers -> Rules(IoSdk \cup Custom)]
      /\ scanner \in [Workers -> Rules(CrSdk \cup Custom)]
      /\ snap \in [Processes -> Rules(Custom)]
  BY NoRuleIsRules DEF Init
<1>3. seen \in [Processes -> Row] /\ off \in [Processes -> SUBSET (Sdk \cup Custom)]
  BY OnIsRow DEF Init
<1>4. Moves
  <2>1. \A p \in Processes : pc[p] = IF p \in Workers THEN "down" ELSE "idle"
    BY DEF Init
  <2>2. \A p \in Processes : pc[p] \in Steps(p) /\ Busied(p)
    BY <2>1, Kinds0 DEF Steps, Busied
  <2> QED
    BY <2>2 DEF Moves, Init
<1> QED
  BY <1>1, <1>2, <1>3, <1>4 DEF Types, Stores

LEMMA EndStores ==
  ASSUME Stores, NEW p \in Processes, End(p)
  PROVE  /\ seen' \in [Processes -> Row]
         /\ snap' \in [Processes -> Rules(Custom)]
         /\ off' \in [Processes -> SUBSET (Sdk \cup Custom)]
BY OnIsRow, NoRuleIsRules DEF End, Stores

LEMMA RequestStores ==
  ASSUME Stores, NEW a \in Admins, NEW w \in Workers, Request(a, w)
  PROVE  Stores'
<1>1. a \in Processes /\ seen[a] \in Row /\ \A x \in DOMAIN rows : rows[x] \in Row
  BY Kinds0, RulesAre DEF Stores
<1>2. UNCHANGED <<dbVars, engVars, snap, off>>
  BY DEF Request, StartCreate, StartUpdate, StartToggle, StartDelete, StartImport,
     StartImportSdk, Start
<1>3. ASSUME NEW r, seen' = [seen EXCEPT ![a].enabled = r \in sdkOn]
      PROVE  seen' \in [Processes -> Row]
  <2>1. seen' = [seen EXCEPT ![a] = [seen[a] EXCEPT !.enabled = r \in sdkOn]]
    BY <1>3
  <2>2. (r \in sdkOn) \in BOOLEAN
    OBVIOUS
  <2>3. [seen[a] EXCEPT !.enabled = r \in sdkOn] \in Row
    BY <1>1, <2>2, EnabledIsRow
  <2> QED
    BY <2>1, <2>3 DEF Stores
<1>4. \/ UNCHANGED seen
      \/ \E x \in DOMAIN rows : seen' = [seen EXCEPT ![a] = rows[x]]
      \/ \E r : seen' = [seen EXCEPT ![a].enabled = r \in sdkOn]
  BY DEF Request, StartCreate, StartUpdate, StartToggle, StartDelete, StartImport, StartImportSdk
<1>5. seen' \in [Processes -> Row]
  BY <1>1, <1>3, <1>4 DEF Stores
<1> QED
  BY <1>2, <1>5 DEF Stores, dbVars, engVars

LEMMA CommitStores ==
  ASSUME Types, NEW a \in Admins,
         \/ CommitCreate(a) \/ CommitUpdate(a) \/ CommitToggle(a) \/ CommitDelete(a)
         \/ CommitImport(a) \/ CommitImportSdk(a)
  PROVE  Stores'
<1>1. a \in Processes /\ seen[a] \in Row /\ pc[a] = "commit" /\ UNCHANGED engVars
  BY Kinds0 DEF Types, Stores, CommitCreate, CommitUpdate, CommitToggle, CommitDelete,
     CommitImport, CommitImportSdk, Insert, Update, SetEnabled, Committing, engVars
<1>2. job[a] \in Job
  BY <1>1 DEF Types, Moves, Busied
<1>3. \A x \in DOMAIN rows : rows[x] \in Row
  BY RulesAre DEF Types, Stores
<1>4. sdkOn' \subseteq Sdk
  <2>1. CASE UNCHANGED sdkOn
    BY <2>1 DEF Types, Stores
  <2>2. CASE CommitToggle(a) \/ CommitDelete(a) \/ CommitImportSdk(a)
    <3>1. \/ UNCHANGED sdkOn
          \/ sdkOn' = sdkOn \ {job[a].rule}
          \/ sdkOn' = sdkOn \cup {job[a].rule} /\ job[a].op \in {"toggle", "import_sdk"}
      BY <2>2 DEF CommitToggle, CommitDelete, CommitImportSdk, SetEnabled, Committing
    <3> QED
      BY <1>2, <3>1, JobsAre DEF Types, Stores
  <2> QED
    BY <2>1, <2>2 DEF CommitCreate, CommitUpdate, CommitImport, Insert, Update
<1>5. rows' \in Rules(Custom)
  <2>1. ASSUME NEW op \in {"create", "import_new"}, Insert(a, op)
        PROVE  rows' \in Rules(Custom)
    <3>1. job[a].rule \in Custom /\ job[a].arg \in Row
      BY <1>2, <2>1, JobsAre DEF Insert, Committing
    <3>2. UNCHANGED rows \/ rows' = With(rows, job[a].rule, job[a].arg)
      BY <2>1 DEF Insert
    <3> QED
      BY <3>1, <3>2, WithIsRules DEF Types, Stores
  <2>2. ASSUME NEW op \in {"update", "import"}, Update(a, op)
        PROVE  rows' \in Rules(Custom)
    <3>1. job[a].rule \in Custom /\ job[a].arg \in Row
      BY <1>2, <2>2, JobsAre DEF Update, Committing
    <3>2. CASE rows' = rows
      BY <3>2 DEF Types, Stores
    <3>3. CASE /\ job[a].rule \in DOMAIN rows
               /\ rows' = With(rows, job[a].rule, Updated(rows[job[a].rule], seen[a], job[a].arg))
      <4>1. Updated(rows[job[a].rule], seen[a], job[a].arg) \in Row
        BY <1>1, <1>3, <3>1, <3>3, UpdatedIsRow
      <4> QED
        BY <3>1, <3>3, <4>1, WithIsRules DEF Types, Stores
    <3> QED
      BY <2>2, <3>2, <3>3 DEF Update
  <2>3. CASE CommitToggle(a) \/ CommitDelete(a) \/ CommitImportSdk(a)
    BY <2>3, WithoutIsRules DEF CommitToggle, CommitDelete, CommitImportSdk, SetEnabled, Types, Stores
  <2> QED
    BY <2>1, <2>2, <2>3 DEF CommitCreate, CommitUpdate, CommitImport
<1>6. \/ End(a) \/ UNCHANGED <<seen, snap, off>>
  BY DEF CommitCreate, CommitUpdate, CommitToggle, CommitDelete, CommitImport, CommitImportSdk,
     Insert, Update
<1>7. /\ seen' \in [Processes -> Row]
      /\ snap' \in [Processes -> Rules(Custom)]
      /\ off' \in [Processes -> SUBSET (Sdk \cup Custom)]
  BY <1>1, <1>6, EndStores DEF Types, Stores
<1> QED
  BY <1>1, <1>4, <1>5, <1>7 DEF Types, Stores, engVars

LEMMA SyncStores ==
  ASSUME Types, NEW a \in Admins, Refresh(a) \/ Switch(a) \/ Remove(a) \/ Add(a)
  PROVE  Stores'
<1>1. /\ a \in Processes /\ seen[a] \in Row /\ seen[a].enabled \in BOOLEAN
      /\ pc[a] # "idle" /\ UNCHANGED dbVars
  BY Kinds0 DEF Types, Stores, Row, Refresh, Switch, Remove, Add
<1>2. job[a].at \in Workers /\ (pc[a] = "add" => job[a].rule \in Custom)
  BY <1>1, JobsAre DEF Types, Moves, Busied
<1>3. /\ io[job[a].at] \in Rules(IoSdk \cup Custom)
      /\ scanner[job[a].at] \in Rules(CrSdk \cup Custom)
  BY <1>2 DEF Types, Stores
<1>4. \A x \in DOMAIN rows : rows[x] \in Row
  BY RulesAre DEF Types, Stores
<1>5. io' \in [Workers -> Rules(IoSdk \cup Custom)]
  <2>1. CASE Refresh(a)
    BY <2>1 DEF Refresh, engVars, Types, Stores
  <2>2. ASSUME NEW f \in Rules(IoSdk \cup Custom), io' = [io EXCEPT ![job[a].at] = f]
        PROVE  io' \in [Workers -> Rules(IoSdk \cup Custom)]
    BY <1>2, <2>2 DEF Types, Stores
  <2>3. CASE Switch(a)
    <3>1. SwitchedTo(io[job[a].at], {job[a].rule}, seen[a].enabled) \in Rules(IoSdk \cup Custom)
      BY <1>1, <1>3, SwitchedIsRules
    <3> QED
      BY <2>2, <2>3, <3>1 DEF Switch
  <2>4. CASE Remove(a)
    BY <1>3, <2>2, <2>4, WithoutIsRules DEF Remove
  <2>5. CASE Add(a)
    <3>1. job[a].rule \in IoSdk \cup Custom
      BY <1>2, <2>5 DEF Add
    <3>2. With(io[job[a].at], job[a].rule, seen[a]) \in Rules(IoSdk \cup Custom)
      BY <1>1, <1>3, <3>1, WithIsRules
    <3>3. \/ io' = io \/ io' = [io EXCEPT ![job[a].at] = With(io[job[a].at], job[a].rule, seen[a])]
      BY <2>5 DEF Add
    <3> QED
      BY <2>2, <3>2, <3>3 DEF Types, Stores
  <2> QED
    BY <2>1, <2>3, <2>4, <2>5
<1>6. scanner' \in [Workers -> Rules(CrSdk \cup Custom)]
  <2>1. SwitchedTo(scanner[job[a].at], {job[a].rule}, seen[a].enabled) \in Rules(CrSdk \cup Custom)
    BY <1>1, <1>3, SwitchedIsRules
  <2>2. \/ scanner' = scanner
        \/ scanner' = [scanner EXCEPT ![job[a].at] =
                         SwitchedTo(scanner[job[a].at], {job[a].rule}, seen[a].enabled)]
    BY DEF Refresh, Switch, Remove, Add, engVars
  <2> QED
    BY <1>2, <2>1, <2>2 DEF Types, Stores
<1>7. (seen' \in [Processes -> Row] /\ UNCHANGED <<snap, off>>) \/ End(a)
  <2>1. CASE Refresh(a)
    <3>1. ASSUME NEW e \in BOOLEAN
          PROVE  [seen EXCEPT ![a].enabled = e] \in [Processes -> Row]
      <4>1. [seen[a] EXCEPT !.enabled = e] \in Row
        BY <1>1, EnabledIsRow
      <4>2. [seen EXCEPT ![a].enabled = e] = [seen EXCEPT ![a] = [seen[a] EXCEPT !.enabled = e]]
        BY <1>1 DEF Types, Stores
      <4> QED
        BY <4>1, <4>2 DEF Types, Stores
    <3>2. (job[a].rule \in sdkOn) \in BOOLEAN
      OBVIOUS
    <3>3. \/ seen' = [seen EXCEPT ![a].enabled = job[a].rule \in sdkOn] /\ UNCHANGED <<snap, off>>
          \/ /\ job[a].rule \in DOMAIN rows
             /\ seen' = [seen EXCEPT ![a] = rows[job[a].rule]] /\ UNCHANGED <<snap, off>>
          \/ End(a)
      BY <2>1 DEF Refresh
    <3> QED
      BY <1>1, <1>4, <3>1, <3>2, <3>3 DEF Types, Stores
  <2>2. CASE Switch(a) \/ Remove(a) \/ Add(a)
    BY <2>2 DEF Switch, Remove, Add, Types, Stores
  <2> QED
    BY <2>1, <2>2
<1>8. /\ seen' \in [Processes -> Row]
      /\ snap' \in [Processes -> Rules(Custom)]
      /\ off' \in [Processes -> SUBSET (Sdk \cup Custom)]
  BY <1>1, <1>7, EndStores DEF Types, Stores
<1> QED
  BY <1>1, <1>5, <1>6, <1>8 DEF Types, Stores, dbVars

LEMMA ReloadStores ==
  ASSUME Types, NEW p \in Processes, Reload(p)
  PROVE  Stores'
<1>1. pc[p] # "idle" /\ UNCHANGED dbVars
  BY DEF Reload, Load, SetScanner, AddCustoms, Inject, FindOff, SwitchOff, FindCustomOff, CustomOff
<1>2. PICK w \in Workers : w = Home(p)
  BY <1>1, HomeIsWorker DEF Types
<1>3. /\ io[w] \in Rules(IoSdk \cup Custom)
      /\ scanner[w] \in Rules(CrSdk \cup Custom)
      /\ snap[p] \in Rules(Custom)
  BY <1>2 DEF Types, Stores
<1>4. /\ DOMAIN snap[p] \subseteq Custom /\ DOMAIN rows \subseteq Custom
      /\ \A x \in DOMAIN snap[p] : snap[p][x] \in Row
      /\ DOMAIN scanner[w] \subseteq CrSdk \cup Custom
      /\ \A x \in DOMAIN scanner[w] : scanner[w][x] \in Row
  BY <1>3, RulesAre DEF Types, Stores
<1>5. io' \in [Workers -> Rules(IoSdk \cup Custom)]
  <2>1. ASSUME NEW f \in Rules(IoSdk \cup Custom), io' = [io EXCEPT ![w] = f]
        PROVE  io' \in [Workers -> Rules(IoSdk \cup Custom)]
    BY <2>1 DEF Types, Stores
  <2>2. \A xs : SwitchedTo(io[w], xs, FALSE) \in Rules(IoSdk \cup Custom)
    BY <1>3, SwitchedIsRules
  <2>3. CASE Load(p) \/ SetScanner(p) \/ AddCustoms(p) \/ FindOff(p) \/ FindCustomOff(p)
    BY <2>3 DEF Load, SetScanner, AddCustoms, FindOff, FindCustomOff, engVars, Types, Stores
  <2>4. CASE Inject(p)
    <3> DEFINE custom == {x \in DOMAIN snap[p] : snap[p][x].kind = "io" /\ snap[p][x].pattern}
               new == [x \in IoSdk \cup custom |-> IF x \in IoSdk THEN On("io") ELSE snap[p][x]]
    <3>1. IoSdk \cup custom \in SUBSET (IoSdk \cup Custom)
      BY <1>4
    <3>2. new \in [IoSdk \cup custom -> Row]
      BY <1>4, OnIsRow
    <3>3. new \in Rules(IoSdk \cup Custom)
      <4> HIDE DEF new, custom
      <4> QED
        BY <3>1, <3>2, IsRules
    <3>4. io' = [io EXCEPT ![w] = new]
      BY <1>2, <2>4 DEF Inject
    <3> QED
      BY <2>1, <3>3, <3>4
  <2>5. CASE SwitchOff(p)
    <3>1. io' = [io EXCEPT ![w] = SwitchedTo(io[w], off[p] \cap IoSdk, FALSE)]
      BY <1>2, <2>5 DEF SwitchOff
    <3> QED
      BY <2>1, <2>2, <3>1
  <2>6. CASE CustomOff(p)
    <3>1. PICK xs : io' = [io EXCEPT ![w] = SwitchedTo(io[w], xs, FALSE)]
      BY <1>2, <2>6 DEF CustomOff
    <3> QED
      BY <2>1, <2>2, <3>1
  <2> QED
    BY <2>3, <2>4, <2>5, <2>6 DEF Reload
<1>6. scanner' \in [Workers -> Rules(CrSdk \cup Custom)]
  <2>1. ASSUME NEW f \in Rules(CrSdk \cup Custom), scanner' = [scanner EXCEPT ![w] = f]
        PROVE  scanner' \in [Workers -> Rules(CrSdk \cup Custom)]
    BY <2>1 DEF Types, Stores
  <2>2. CASE Load(p) \/ Inject(p) \/ FindOff(p) \/ FindCustomOff(p)
    BY <2>2 DEF Load, Inject, FindOff, FindCustomOff, engVars, Types, Stores
  <2>3. CASE SetScanner(p)
    <3>1. [r \in CrSdk |-> On("cr")] \in Rules(CrSdk \cup Custom)
      <4>1. CrSdk \in SUBSET (CrSdk \cup Custom) /\ [r \in CrSdk |-> On("cr")] \in [CrSdk -> Row]
        BY OnIsRow
      <4> QED
        BY <4>1, IsRules
    <3> QED
      BY <1>2, <2>1, <2>3, <3>1 DEF SetScanner
  <2>4. CASE AddCustoms(p)
    <3> DEFINE With2(xs) == [x \in DOMAIN scanner[w] \cup xs |->
                               IF x \in xs THEN On("cr") ELSE scanner[w][x]]
    <3>1. PICK xs \in SUBSET DOMAIN rows : scanner' = [scanner EXCEPT ![w] = With2(xs)]
      BY <1>2, <2>4 DEF AddCustoms
    <3>2. /\ With2(xs) \in [DOMAIN scanner[w] \cup xs -> Row]
          /\ DOMAIN scanner[w] \cup xs \in SUBSET (CrSdk \cup Custom)
      BY <1>4, <3>1, OnIsRow
    <3>3. With2(xs) \in Rules(CrSdk \cup Custom)
      <4> HIDE DEF With2
      <4> QED
        BY <3>2, IsRules
    <3> QED
      BY <2>1, <3>1, <3>3
  <2>5. CASE SwitchOff(p)
    <3>1. SwitchedTo(scanner[w], off[p] \cap CrSdk, FALSE) \in Rules(CrSdk \cup Custom)
      BY <1>3, SwitchedIsRules
    <3>2. scanner' = [scanner EXCEPT ![w] = SwitchedTo(scanner[w], off[p] \cap CrSdk, FALSE)]
      BY <1>2, <2>5 DEF SwitchOff
    <3> QED
      BY <2>1, <3>1, <3>2
  <2>6. CASE CustomOff(p)
    <3>1. PICK xs : scanner' = [scanner EXCEPT ![w] = Restrict(scanner[w], DOMAIN scanner[w] \ xs)]
      BY <1>2, <2>6 DEF CustomOff
    <3>2. Restrict(scanner[w], DOMAIN scanner[w] \ xs) \in Rules(CrSdk \cup Custom)
      BY <1>3, RestrictIsRules
    <3> QED
      BY <2>1, <3>1, <3>2
  <2> QED
    BY <2>2, <2>3, <2>4, <2>5, <2>6 DEF Reload
<1>7. /\ seen' \in [Processes -> Row]
      /\ snap' \in [Processes -> Rules(Custom)]
      /\ off' \in [Processes -> SUBSET (Sdk \cup Custom)]
  <2>1. CASE Load(p) \/ SetScanner(p) \/ Inject(p) \/ FindOff(p) \/ SwitchOff(p)
    BY <2>1 DEF Load, SetScanner, Inject, FindOff, SwitchOff, Types, Stores
  <2>2. CASE AddCustoms(p) \/ FindCustomOff(p)
    <3>1. PICK xs \in SUBSET DOMAIN rows :
            /\ snap' = [snap EXCEPT ![p] = Held(p, xs)]
            /\ off' = off \/ off' = [off EXCEPT ![p] = xs]
      BY <2>2 DEF AddCustoms, FindCustomOff
    <3>2. Held(p, xs) \in Rules(Custom)
      BY <3>1, HeldIsRules DEF Types
    <3>3. seen' = seen
      BY <2>2 DEF AddCustoms, FindCustomOff
    <3> QED
      BY <1>4, <3>1, <3>2, <3>3 DEF Types, Stores
  <2>3. CASE CustomOff(p)
    BY <2>3, EndStores DEF CustomOff, Types
  <2> QED
    BY <2>1, <2>2, <2>3 DEF Reload
<1> QED
  BY <1>1, <1>5, <1>6, <1>7 DEF Types, Stores, dbVars

LEMMA StoreStep ==
  ASSUME Types, [Next]_vars
  PROVE  Stores'
<1>1. ASSUME NEW a \in Admins, NEW w \in Workers, Request(a, w)
      PROVE  Stores'
  BY <1>1, RequestStores DEF Types
<1>2. ASSUME NEW a \in Admins, Handle(a)
      PROVE  Stores'
  BY <1>2, CommitStores, SyncStores DEF Handle
<1>3. ASSUME NEW p \in Processes, Reload(p)
      PROVE  Stores'
  BY <1>3, ReloadStores
<1>4. ASSUME NEW w \in Workers, Stop(w)
      PROVE  Stores'
  <2>1. /\ io' \in [Workers -> Rules(IoSdk \cup Custom)]
        /\ scanner' \in [Workers -> Rules(CrSdk \cup Custom)]
    BY <1>4, NoRuleIsRules DEF Stop, Types, Stores
  <2>2. /\ seen' \in [Processes -> Row]
        /\ off' \in [Processes -> SUBSET (Sdk \cup Custom)]
    BY <1>4, OnIsRow DEF Stop, Types, Stores
  <2>3. snap' \in [Processes -> Rules(Custom)]
    BY <1>4, NoRuleIsRules DEF Stop, Types, Stores
  <2> QED
    BY <1>4, <2>1, <2>2, <2>3 DEF Stop, dbVars, Types, Stores
<1>5. ASSUME NEW w \in Workers, Startup(w)
      PROVE  Stores'
  <2>1. CASE InitDb(w)
    BY <2>1 DEF InitDb, dbVars, engVars, Types, Stores
  <2>2. CASE Imported(w)
    BY <2>2 DEF Imported, dbVars, engVars, Types, Stores
  <2>3. ASSUME NEW bundle \in SUBSET Sdk, ImportBundle(w, bundle)
        PROVE  Stores'
    BY <2>3 DEF ImportBundle, engVars, Types, Stores
  <2> QED
    BY <1>5, <2>1, <2>2, <2>3 DEF Startup
<1>6. ASSUME NEW p \in Processes, Fail(p)
      PROVE  Stores'
  BY <1>6, EndStores DEF Fail, dbVars, engVars, Types, Stores
<1>7. CASE UNCHANGED vars
  BY <1>7 DEF vars, dbVars, engVars, reqVars, Types, Stores
<1> QED
  BY <1>1, <1>2, <1>3, <1>4, <1>5, <1>6, <1>7 DEF Next, Calm

LEMMA TypesHold ==
  Spec => []Types
<1>1. Types /\ [Next]_vars => Types'
  BY MoveStep, StoreStep DEF Types
<1> QED
  BY <1>1, InitTypes, PTL DEF Spec

-----------------------------------------------------------------------------
(***************************************************************************)
(* What is in force after a step of a reload                               *)
(***************************************************************************)
LEMMA IoSwitchedOff ==
  ASSUME Stores, NEW w \in Workers, NEW xs, io'[w] = SwitchedTo(io[w], xs, FALSE)
  PROVE  IoActive(w)' = IoActive(w) \ xs
<1>1. io[w] \in Rules(IoSdk \cup Custom) /\ DOMAIN io'[w] = DOMAIN io[w]
  BY DEF Stores, SwitchedTo
<1>2. ASSUME NEW x \in DOMAIN io[w]
      PROVE  x \in IoActive(w)' <=> x \in IoActive(w) /\ x \notin xs
  <2>0. io[w][x] \in Row
    BY <1>1, RulesAre
  <2>1. io'[w][x] = IF x \in xs THEN [io[w][x] EXCEPT !.enabled = FALSE] ELSE io[w][x]
    BY DEF SwitchedTo
  <2>2. CASE x \in xs
    <3>1. io'[w][x].enabled = FALSE
      BY <2>0, <2>1, <2>2, EnabledIsRow
    <3> QED
      BY <2>2, <3>1, Zenon DEF IoActive
  <2>3. CASE x \notin xs
    <3>1. io'[w][x] = io[w][x]
      BY <2>1, <2>3
    <3> QED
      BY <1>1, <2>3, <3>1, Zenon DEF IoActive
  <2> QED
    BY <2>2, <2>3
<1>3. IoActive(w) \subseteq DOMAIN io[w] /\ IoActive(w)' \subseteq DOMAIN io[w]
  BY <1>1 DEF IoActive
<1> QED
  BY <1>2, <1>3

LEMMA CrSwitchedOff ==
  ASSUME Stores, NEW w \in Workers, NEW xs, scanner'[w] = SwitchedTo(scanner[w], xs, FALSE)
  PROVE  CrActive(w)' = CrActive(w) \ xs
<1>1. scanner[w] \in Rules(CrSdk \cup Custom) /\ DOMAIN scanner'[w] = DOMAIN scanner[w]
  BY DEF Stores, SwitchedTo
<1>2. ASSUME NEW x \in DOMAIN scanner[w]
      PROVE  x \in CrActive(w)' <=> x \in CrActive(w) /\ x \notin xs
  <2>0. scanner[w][x] \in Row
    BY <1>1, RulesAre
  <2>1. scanner'[w][x] = IF x \in xs THEN [scanner[w][x] EXCEPT !.enabled = FALSE] ELSE scanner[w][x]
    BY DEF SwitchedTo
  <2>2. CASE x \in xs
    <3>1. scanner'[w][x].enabled = FALSE
      BY <2>0, <2>1, <2>2, EnabledIsRow
    <3> QED
      BY <2>2, <3>1, Zenon DEF CrActive
  <2>3. CASE x \notin xs
    <3>1. scanner'[w][x] = scanner[w][x]
      BY <2>1, <2>3
    <3> QED
      BY <1>1, <2>3, <3>1, Zenon DEF CrActive
  <2> QED
    BY <2>2, <2>3
<1>3. CrActive(w) \subseteq DOMAIN scanner[w] /\ CrActive(w)' \subseteq DOMAIN scanner[w]
  BY <1>1 DEF CrActive
<1> QED
  BY <1>2, <1>3

LEMMA CrRemoved ==
  ASSUME NEW w \in Workers, NEW xs, scanner'[w] = Restrict(scanner[w], DOMAIN scanner[w] \ xs)
  PROVE  CrActive(w)' = CrActive(w) \ xs
BY DEF CrActive, Restrict

LEMMA OnIs ==
  \A k : On(k).kind = k /\ On(k).enabled /\ On(k).pattern
BY DEF On

-----------------------------------------------------------------------------
(***************************************************************************)
(* Undisturbed reloads                                                     *)
(***************************************************************************)
LEMMA Frame ==
  ASSUME NEW q, NEW w, Progress(q, w), UNCHANGED dbVars, pc'[q] = pc[q],
         snap'[q] = snap[q], off'[q] = off[q], io'[w] = io[w], scanner'[w] = scanner[w]
  PROVE  Progress(q, w)'
BY DEF Progress, dbVars, IoActive, CrActive, CrPatterns, Wanted, IoWanted

LEMMA AgreesStill ==
  ASSUME NEW w, Agrees(w), UNCHANGED dbVars, io'[w] = io[w], scanner'[w] = scanner[w]
  PROVE  Agrees(w)'
BY DEF Agrees, dbVars, IoActive, CrActive, Wanted, IoWanted, CrWanted

\* A step of process p, on the engines of worker h if it is on any.
Alone(p, h) ==
  /\ UNCHANGED dbVars
  /\ \A q \in Processes \ {p} : /\ pc'[q] = pc[q] /\ job'[q] = job[q]
                                /\ snap'[q] = snap[q] /\ off'[q] = off[q]
  /\ \A w \in Workers \ {h} : io'[w] = io[w] /\ scanner'[w] = scanner[w]

LEMMA AloneKeeps ==
  ASSUME Reloads, NEW p \in Processes, NEW h \in Workers, Alone(p, h),
         \A q \in undisturbed' : q = p \/ (q \in undisturbed /\ (Home(q) # h \/ UNCHANGED engVars)),
         \A w \in fresh' : w = h \/ w \in fresh,
         p \in undisturbed' => (Home(p)' = h) /\ Progress(p, h)',
         h \in fresh' => Agrees(h)'
  PROVE  Reloads'
<1>1. undisturbed' \subseteq Processes /\ fresh' \subseteq Workers
  BY DEF Reloads
<1>2. ASSUME NEW q \in undisturbed', NEW w \in Workers, (Home(q) = w)'
      PROVE  Progress(q, w)'
  <2>1. CASE q = p
    BY <1>2, <2>1
  <2>2. CASE q # p
    <3>1. q \in undisturbed /\ q \in Processes \ {p} /\ (Home(q) # h \/ UNCHANGED engVars)
      BY <2>2, <1>1
    <3>2. Home(q) = w
      BY <1>2, <3>1 DEF Home, Alone
    <3>3. Progress(q, w)
      BY <3>1, <3>2 DEF Reloads
    <3>4. io'[w] = io[w] /\ scanner'[w] = scanner[w]
      BY <3>1, <3>2 DEF Alone, engVars
    <3> QED
      BY <3>1, <3>3, <3>4, Frame DEF Alone
  <2> QED
    BY <2>1, <2>2
<1>3. ASSUME NEW q \in undisturbed'
      PROVE  pc'[q] \in Reloading \ {"load"}
  <2>1. CASE q = p
    BY <2>1 DEF Progress
  <2>2. CASE q # p
    BY <2>2, <1>1 DEF Reloads, Alone
  <2> QED
    BY <2>1, <2>2
<1>4. ASSUME NEW w \in fresh'
      PROVE  Agrees(w)'
  <2>1. CASE w = h
    BY <2>1
  <2>2. CASE w # h
    <3>1. w \in fresh /\ io'[w] = io[w] /\ scanner'[w] = scanner[w]
      BY <1>1, <2>2 DEF Alone
    <3>2. Agrees(w)
      BY <3>1 DEF Reloads
    <3> QED
      BY <3>1, <3>2, AgreesStill DEF Alone
  <2> QED
    BY <2>1, <2>2
<1> QED
  BY <1>1, <1>2, <1>3, <1>4 DEF Reloads

LEMMA ChangesKeep ==
  ASSUME undisturbed' = {}, fresh' = {}
  PROVE  Reloads'
BY DEF Reloads

\* What Goto, End and EXCEPT say of the other processes.
LEMMA GotoAlone ==
  ASSUME Types, NEW p \in Processes, NEW step, Goto(p, step)
  PROVE  /\ \A q \in Processes \ {p} : pc'[q] = pc[q] /\ job'[q] = job[q]
         /\ pc'[p] = step /\ Home(p)' = Home(p)
BY DEF Goto, Types, Moves, Home

LEMMA EndAlone ==
  ASSUME Types, NEW p, End(p)
  PROVE  \A q \in Processes \ {p} : /\ pc'[q] = pc[q] /\ job'[q] = job[q]
                                  /\ snap'[q] = snap[q] /\ off'[q] = off[q]
BY DEF End, Types, Stores, Moves

LEMMA ScannerSet ==
  ASSUME NEW h, scanner'[h] = [r \in CrSdk |-> On("cr")]
  PROVE  CrActive(h)' = CrSdk
<1>1. \A x : x \in CrActive(h)' <=> x \in CrSdk
  <2> TAKE x
  <2>1. CASE x \in CrSdk
    BY <2>1, OnIs DEF CrActive
  <2>2. CASE x \notin CrSdk
    BY <2>2 DEF CrActive
  <2> QED
    BY <2>1, <2>2
<1> QED
  BY <1>1

LEMMA CustomsAdded ==
  ASSUME NEW h, NEW add,
         scanner'[h] = [x \in DOMAIN scanner[h] \cup add |-> IF x \in add THEN On("cr") ELSE scanner[h][x]]
  PROVE  CrActive(h)' = CrActive(h) \cup add
<1>1. \A x : x \in CrActive(h)' <=> x \in CrActive(h) \cup add
  <2> TAKE x
  <2>1. CASE x \in add
    BY <2>1, OnIs DEF CrActive
  <2>2. CASE x \notin add /\ x \in DOMAIN scanner[h]
    <3>1. scanner'[h][x] = scanner[h][x] /\ x \in DOMAIN scanner'[h]
      BY <2>2
    <3> QED
      BY <2>2, <3>1, Zenon DEF CrActive
  <2>3. CASE x \notin add /\ x \notin DOMAIN scanner[h]
    BY <2>3 DEF CrActive
  <2> QED
    BY <2>1, <2>2, <2>3
<1> QED
  BY <1>1

LEMMA Injected ==
  ASSUME NEW h, NEW p, snap[p] = rows, UNCHANGED rows,
         io'[h] = [x \in IoSdk \cup {y \in DOMAIN snap[p] : snap[p][y].kind = "io" /\ snap[p][y].pattern} |->
                     IF x \in IoSdk THEN On("io") ELSE snap[p][x]]
  PROVE  IoActive(h)' = IoSdk \cup Wanted({"io"})'
<1> DEFINE custom == {y \in DOMAIN rows : rows[y].kind = "io" /\ rows[y].pattern}
<1>1. io'[h] = [x \in IoSdk \cup custom |-> IF x \in IoSdk THEN On("io") ELSE rows[x]]
  OBVIOUS
<1>2. Wanted({"io"})' = {x \in custom : rows[x].enabled}
  BY Zenon DEF Wanted
<1>3. \A x \in custom : rows[x].kind = "io"
  OBVIOUS
<1> HIDE DEF custom
<1>4. ASSUME NEW x
      PROVE  x \in IoActive(h)' <=> x \in IoSdk \/ (x \in custom /\ rows[x].enabled)
  <2>1. CASE x \in IoSdk
    BY <1>1, <2>1, OnIs DEF IoActive
  <2>2. CASE x \notin IoSdk /\ x \in custom
    <3>1. io'[h][x] = rows[x] /\ x \in DOMAIN io'[h]
      BY <1>1, <2>2
    <3> QED
      BY <1>3, <2>2, <3>1, Zenon DEF IoActive
  <2>3. CASE x \notin IoSdk /\ x \notin custom
    BY <1>1, <2>3 DEF IoActive
  <2> QED
    BY <2>1, <2>2, <2>3
<1>5. \A x : x \in IoActive(h)' <=> x \in IoSdk \cup Wanted({"io"})'
  BY <1>2, <1>4, Zenon
<1> QED
  BY <1>5

LEMMA HeldAll ==
  ASSUME Stores, NEW p, NEW xs \in SUBSET DOMAIN rows, snap[p] = rows
  PROVE  Held(p, xs) = rows
<1>1. rows \in [DOMAIN rows -> Row]
  BY RulesAre DEF Stores
<1>2. Held(p, xs) = [x \in DOMAIN rows |-> rows[x]]
  BY DEF Held
<1> QED
  BY <1>1, <1>2

LEMMA ReloadKeeps ==
  ASSUME Types, Reloads, NEW p \in Processes, Reload(p)
  PROVE  Reloads'
<1>1. pc[p] # "idle" /\ UNCHANGED dbVars
  BY DEF Reload, Load, SetScanner, AddCustoms, Inject, FindOff, SwitchOff, FindCustomOff, CustomOff
<1>2. PICK h \in Workers : h = Home(p)
  BY <1>1, HomeIsWorker DEF Types
<1>3. Alone(p, h)
  <2>1. \A q \in Processes \ {p} : /\ pc'[q] = pc[q] /\ job'[q] = job[q]
                                 /\ snap'[q] = snap[q] /\ off'[q] = off[q]
    <3>1. CASE CustomOff(p)
      BY <3>1, EndAlone DEF CustomOff
    <3>2. CASE ~CustomOff(p)
      <4>1. \E step : Goto(p, step)
        BY <3>2 DEF Reload, Load, SetScanner, AddCustoms, Inject, FindOff, SwitchOff, FindCustomOff
      <4>2. \A q \in Processes \ {p} : snap'[q] = snap[q] /\ off'[q] = off[q]
        BY <3>2 DEF Reload, Load, SetScanner, AddCustoms, Inject, FindOff, SwitchOff,
           FindCustomOff, Types, Stores
      <4> QED
        BY <4>1, <4>2, GotoAlone
    <3> QED
      BY <3>1, <3>2
  <2>2. \A w \in Workers \ {h} : io'[w] = io[w] /\ scanner'[w] = scanner[w]
    BY <1>2 DEF Reload, Load, SetScanner, AddCustoms, Inject, FindOff, SwitchOff,
       FindCustomOff, CustomOff, engVars, Types, Stores
  <2> QED
    BY <1>1, <2>1, <2>2 DEF Alone
<1>4. io \in [Workers -> Rules(IoSdk \cup Custom)] /\ scanner \in [Workers -> Rules(CrSdk \cup Custom)]
      /\ snap = [q \in Processes |-> snap[q]] /\ off = [q \in Processes |-> off[q]]
  BY DEF Types, Stores
<1>5. ASSUME NEW step, Goto(p, step), UNCHANGED engVars, UNCHANGED fresh,
             \A q \in undisturbed' : q = p \/ q \in undisturbed,
             p \in undisturbed' => Progress(p, h)'
      PROVE  Reloads'
  <2>1. h \in fresh' => Agrees(h)'
    BY <1>1, <1>5, AgreesStill DEF Reloads, engVars
  <2>2. Home(p)' = h
    BY <1>2, <1>5, GotoAlone
  <2> QED
    BY <1>3, <1>5, <2>1, <2>2, AloneKeeps
<1>6. ASSUME NEW step, Goto(p, step), EngineChange(p), p \in undisturbed => Progress(p, h)'
      PROVE  Reloads'
  <2>1. /\ h \notin fresh' /\ \A w \in fresh' : w \in fresh
        /\ \A q \in undisturbed' : q = p \/ (q \in undisturbed /\ Home(q) # h)
        /\ p \in undisturbed' => p \in undisturbed
    BY <1>2, <1>6, Zenon DEF EngineChange
  <2>2. Home(p)' = h
    BY <1>2, <1>6, GotoAlone
  <2> QED
    BY <1>3, <1>6, <2>1, <2>2, AloneKeeps
<1>7. p \in undisturbed => Progress(p, h)
  BY <1>2 DEF Reloads
<1>8. DOMAIN rows \subseteq Custom /\ \A x \in Custom : x \notin Sdk
  BY ConstantsAssumption, RulesAre DEF Types, Stores
<1>9. CASE Load(p)
  <2>1. Progress(p, h)'
    <3>1. pc'[p] = "scanner"
      BY <1>9, GotoAlone DEF Load
    <3>2. snap'[p] = rows /\ rows' = rows
      BY <1>1, <1>4, <1>9 DEF Load, dbVars
    <3> QED
      BY <3>1, <3>2 DEF Progress, Reloading
  <2> QED
    BY <1>5, <1>9, <2>1 DEF Load
<1>10. CASE SetScanner(p)
  <2>1. ASSUME p \in undisturbed
        PROVE  Progress(p, h)'
    <3>1. pc'[p] = "customs"
      BY <1>10, GotoAlone DEF SetScanner
    <3>2. snap'[p] = rows'
      BY <1>1, <1>7, <1>10, <2>1 DEF SetScanner, dbVars, Progress
    <3>3. CrActive(h)' = CrSdk
      <4>1. scanner'[h] = [r \in CrSdk |-> On("cr")]
        BY <1>2, <1>4, <1>10 DEF SetScanner
      <4> QED
        BY <4>1, ScannerSet
    <3> QED
      BY <3>1, <3>2, <3>3 DEF Progress, Reloading
  <2> QED
    BY <1>6, <1>10, <2>1 DEF SetScanner
<1>11. CASE AddCustoms(p)
  <2>1. ASSUME p \in undisturbed
        PROVE  Progress(p, h)'
    <3> DEFINE found == {x \in DOMAIN rows : rows[x].kind \in Review}
    <3>1. /\ pc[p] = "customs" /\ snap[p] = rows /\ CrActive(h) = CrSdk
      BY <1>7, <1>11, <2>1 DEF AddCustoms, Progress
    <3>2. pc'[p] = "inject"
      BY <1>11, GotoAlone DEF AddCustoms
    <3>3. Held(p, found) = rows
      <4>1. found \in SUBSET DOMAIN rows
        OBVIOUS
      <4> HIDE DEF found
      <4> QED
        BY <3>1, <4>1, HeldAll DEF Types
    <3>4. {x \in found : Held(p, found)[x].pattern} = CrPatterns
      BY <3>3 DEF CrPatterns
    <3>5. scanner'[h] = [x \in DOMAIN scanner[h] \cup CrPatterns |->
                           IF x \in CrPatterns THEN On("cr") ELSE scanner[h][x]]
      BY <1>2, <1>4, <1>11, <3>4 DEF AddCustoms
    <3>6. CrActive(h)' = CrSdk \cup CrPatterns'
      <4>1. CrPatterns' = CrPatterns
        BY <1>1 DEF CrPatterns, dbVars
      <4> QED
        BY <3>1, <3>5, <4>1, CustomsAdded
    <3>7. snap'[p] = rows'
      BY <1>1, <1>4, <1>11, <3>3 DEF AddCustoms, dbVars
    <3> QED
      BY <3>2, <3>6, <3>7 DEF Progress, Reloading
  <2> QED
    BY <1>6, <1>11, <2>1 DEF AddCustoms
<1>12. CASE Inject(p)
  <2>1. ASSUME p \in undisturbed
        PROVE  Progress(p, h)'
    <3>1. /\ pc[p] = "inject" /\ snap[p] = rows /\ CrActive(h) = CrSdk \cup CrPatterns
      BY <1>7, <1>12, <2>1 DEF Inject, Progress
    <3>2. pc'[p] = "find_off"
      BY <1>12, GotoAlone DEF Inject
    <3>3. snap'[p] = rows' /\ rows' = rows
      BY <1>1, <1>12, <3>1 DEF Inject, dbVars
    <3>4. CrActive(h)' = CrSdk \cup CrPatterns'
      BY <1>12, <3>1, <3>3 DEF Inject, CrActive, CrPatterns
    <3>5. io'[h] = [x \in IoSdk \cup {y \in DOMAIN snap[p] : snap[p][y].kind = "io" /\ snap[p][y].pattern} |->
                     IF x \in IoSdk THEN On("io") ELSE snap[p][x]]
      BY <1>2, <1>4, <1>12 DEF Inject
    <3>6. IoActive(h)' = IoSdk \cup Wanted({"io"})'
      BY <3>1, <3>3, <3>5, Injected
    <3> QED
      BY <3>2, <3>3, <3>4, <3>6 DEF Progress, Reloading
  <2> QED
    BY <1>6, <1>12, <2>1 DEF Inject
<1>13. CASE FindOff(p)
  <2>1. ASSUME p \in undisturbed
        PROVE  Progress(p, h)'
    <3>1. /\ pc[p] = "find_off" /\ snap[p] = rows /\ CrActive(h) = CrSdk \cup CrPatterns
          /\ IoActive(h) = IoSdk \cup Wanted({"io"})
      BY <1>7, <1>13, <2>1 DEF FindOff, Progress
    <3>2. pc'[p] = "switch_off" /\ off'[p] = Sdk \ sdkOn'
      BY <1>1, <1>4, <1>13, GotoAlone DEF FindOff, dbVars
    <3>3. snap'[p] = rows'
      BY <1>1, <1>13, <3>1 DEF FindOff, dbVars
    <3>4. CrActive(h)' = CrSdk \cup CrPatterns' /\ IoActive(h)' = IoSdk \cup Wanted({"io"})'
      BY <1>1, <1>13, <3>1 DEF FindOff, dbVars, engVars, CrActive, CrPatterns, IoActive, Wanted
    <3> QED
      BY <3>2, <3>3, <3>4 DEF Progress, Reloading
  <2> QED
    BY <1>5, <1>7, <1>13, <2>1 DEF FindOff, histVars
<1>14. CASE SwitchOff(p)
  <2>1. ASSUME p \in undisturbed
        PROVE  Progress(p, h)'
    <3>1. /\ pc[p] = "switch_off" /\ snap[p] = rows /\ CrActive(h) = CrSdk \cup CrPatterns
          /\ IoActive(h) = IoSdk \cup Wanted({"io"}) /\ off[p] = Sdk \ sdkOn
      BY <1>7, <1>14, <2>1 DEF SwitchOff, Progress
    <3>2. pc'[p] = "find_custom_off"
      BY <1>14, GotoAlone DEF SwitchOff
    <3>3. snap'[p] = rows'
      BY <1>1, <1>14, <3>1 DEF SwitchOff, dbVars
    <3>4. IoActive(h)' = IoActive(h) \ (off[p] \cap IoSdk)
      <4>1. io'[h] = SwitchedTo(io[h], off[p] \cap IoSdk, FALSE)
        BY <1>2, <1>4, <1>14 DEF SwitchOff
      <4> QED
        BY <4>1, IoSwitchedOff DEF Types
    <3>5. CrActive(h)' = CrActive(h) \ (off[p] \cap CrSdk)
      <4>1. scanner'[h] = SwitchedTo(scanner[h], off[p] \cap CrSdk, FALSE)
        BY <1>2, <1>4, <1>14 DEF SwitchOff
      <4> QED
        BY <4>1, CrSwitchedOff DEF Types
    <3>6. Wanted({"io"}) \cap Sdk = {} /\ CrPatterns \cap Sdk = {}
      BY <1>8 DEF Wanted, CrPatterns
    <3>7. IoActive(h)' = (IoSdk \cap sdkOn) \cup Wanted({"io"})
      BY <3>1, <3>4, <3>6, Kinds0
    <3>8. CrActive(h)' = (CrSdk \cap sdkOn) \cup CrPatterns
      BY <3>1, <3>5, <3>6, Kinds0
    <3>9. IoActive(h)' = IoWanted' /\ CrActive(h)' = (CrSdk \cap sdkOn') \cup CrPatterns'
      BY <1>1, <3>7, <3>8 DEF IoWanted, Wanted, CrPatterns, dbVars
    <3> QED
      BY <3>2, <3>3, <3>9 DEF Progress, Reloading
  <2> QED
    BY <1>6, <1>14, <2>1 DEF SwitchOff
<1>15. CASE FindCustomOff(p)
  <2>1. ASSUME p \in undisturbed
        PROVE  Progress(p, h)'
    <3> DEFINE found == {x \in DOMAIN rows : ~rows[x].enabled}
    <3>1. /\ pc[p] = "find_custom_off" /\ snap[p] = rows
          /\ IoActive(h) = IoWanted /\ CrActive(h) = (CrSdk \cap sdkOn) \cup CrPatterns
      BY <1>7, <1>15, <2>1 DEF FindCustomOff, Progress
    <3>2. pc'[p] = "custom_off"
      BY <1>15, GotoAlone DEF FindCustomOff
    <3>3. Held(p, found) = rows
      <4>1. found \in SUBSET DOMAIN rows
        OBVIOUS
      <4> HIDE DEF found
      <4> QED
        BY <3>1, <4>1, HeldAll DEF Types
    <3>4. snap'[p] = rows' /\ off'[p] = found'
      BY <1>1, <1>4, <1>15, <3>3 DEF FindCustomOff, dbVars
    <3>5. IoActive(h)' = IoWanted' /\ CrActive(h)' = (CrSdk \cap sdkOn') \cup CrPatterns'
      BY <1>1, <1>15, <3>1 DEF FindCustomOff, dbVars, engVars, CrActive, CrPatterns,
         IoActive, IoWanted, Wanted
    <3> QED
      BY <3>2, <3>4, <3>5 DEF Progress, Reloading
  <2> QED
    BY <1>5, <1>7, <1>15, <2>1 DEF FindCustomOff, histVars
<1>16. CASE CustomOff(p)
  <2> DEFINE ioOff == {x \in off[p] : snap[p][x].kind = "io"}
             missing == ioOff \ DOMAIN io[h]
  <2>1. PICK done \in SUBSET (off[p] \ missing) :
          /\ missing = {} => done = off[p]
          /\ io' = [io EXCEPT ![h] = SwitchedTo(io[h], done \cap ioOff, FALSE)]
          /\ scanner' = [scanner EXCEPT ![h] = Restrict(scanner[h], DOMAIN scanner[h] \ (done \ ioOff))]
    BY <1>2, <1>16 DEF CustomOff
  <2>2. /\ \A q \in undisturbed' : q \in undisturbed /\ Home(q) # h
        /\ \A w \in fresh' : w = h \/ w \in fresh
        /\ h \in fresh' => p \in undisturbed /\ missing = {}
    BY <1>2, <1>16, Zenon DEF CustomOff
  <2>3. ASSUME p \in undisturbed, missing = {}
        PROVE  Agrees(h)'
    <3>1. /\ pc[p] = "custom_off" /\ snap[p] = rows /\ off[p] = {x \in DOMAIN rows : ~rows[x].enabled}
          /\ IoActive(h) = IoWanted /\ CrActive(h) = (CrSdk \cap sdkOn) \cup CrPatterns
      BY <1>7, <1>16, <2>3 DEF CustomOff, Progress
    <3>2. IoActive(h)' = IoActive(h) \ (done \cap ioOff)
      <4>1. io'[h] = SwitchedTo(io[h], done \cap ioOff, FALSE)
        BY <1>4, <2>1
      <4> QED
        BY <4>1, IoSwitchedOff DEF Types
    <3>3. CrActive(h)' = CrActive(h) \ (done \ ioOff)
      <4>1. scanner'[h] = Restrict(scanner[h], DOMAIN scanner[h] \ (done \ ioOff))
        BY <1>4, <2>1
      <4> QED
        BY <4>1, CrRemoved
    <3>4. done = {x \in DOMAIN rows : ~rows[x].enabled}
      BY <2>1, <2>3, <3>1
    <3>5. done \cap IoWanted = {}
      <4>1. \A x \in done : x \in Custom /\ x \notin Sdk /\ ~rows[x].enabled
        BY <1>8, <3>4
      <4> QED
        BY <4>1, Zenon DEF IoWanted, Wanted, Sdk
    <3>6. IoActive(h)' = IoWanted
      BY <3>1, <3>2, <3>5
    <3>7. \A x : x \in done \ ioOff <=> x \in done /\ rows[x].kind # "io"
      BY <3>1, <3>4
    <3>8. ASSUME NEW x
          PROVE  x \in CrActive(h)' <=> x \in CrWanted
      <4>1. CASE x \in Sdk
        <5>1. x \notin done /\ x \notin CrPatterns /\ x \notin Wanted(Review)
          BY <1>8, <3>4, <4>1 DEF CrPatterns, Wanted
        <5> QED
          BY <3>1, <3>3, <5>1 DEF CrWanted
      <4>2. CASE x \notin Sdk
        <5>1. x \notin CrSdk
          BY <4>2, Kinds0
        <5>2. x \in CrActive(h)' <=> x \in CrPatterns /\ ~(x \in done /\ rows[x].kind # "io")
          BY <3>1, <3>3, <3>7, <5>1
        <5>3. x \in CrPatterns /\ ~(x \in done /\ rows[x].kind # "io") <=> x \in Wanted(Review)
          <6>1. CASE x \in DOMAIN rows /\ rows[x].kind \in Review
            <7>1. x \in done <=> ~rows[x].enabled
              BY <3>4, <6>1
            <7>2. rows[x].kind # "io"
              BY <6>1 DEF Review
            <7> QED
              BY <6>1, <7>1, <7>2, Zenon DEF CrPatterns, Wanted
          <6>2. CASE ~(x \in DOMAIN rows /\ rows[x].kind \in Review)
            BY <6>2 DEF CrPatterns, Wanted
          <6> QED
            BY <6>1, <6>2
        <5> QED
          BY <5>1, <5>2, <5>3 DEF CrWanted
      <4> QED
        BY <4>1, <4>2
    <3>9. CrActive(h)' = CrWanted
      BY <3>8
    <3>10. IoWanted' = IoWanted /\ CrWanted' = CrWanted
      BY <1>1 DEF IoWanted, CrWanted, Wanted, dbVars
    <3> QED
      BY <3>6, <3>9, <3>10 DEF Agrees
  <2>4. p \notin undisturbed'
    BY <1>2, <2>2
  <2> QED
    BY <1>3, <2>2, <2>3, <2>4, AloneKeeps
<1> QED
  BY <1>9, <1>10, <1>11, <1>12, <1>13, <1>14, <1>15, <1>16 DEF Reload

\* A request begins or ends without a change to tables and engines.
LEMMA QuietStep ==
  ASSUME Types, Reloads, NEW p \in Processes, UNCHANGED <<dbVars, engVars>>,
         \A q \in Processes \ {p} : /\ pc'[q] = pc[q] /\ job'[q] = job[q]
                                  /\ snap'[q] = snap[q] /\ off'[q] = off[q],
         undisturbed' \subseteq undisturbed \ {p}, fresh' = fresh
  PROVE  Reloads'
<1>1. CASE undisturbed' = {} /\ fresh' = {}
  BY <1>1, ChangesKeep
<1>2. ASSUME NEW h \in Workers
      PROVE  Reloads'
  <2>1. Alone(p, h)
    BY DEF Alone, engVars
  <2>2. h \in fresh' => Agrees(h)'
    BY AgreesStill DEF Reloads, engVars
  <2> QED
    BY <2>1, <2>2, AloneKeeps
<1>3. ASSUME Workers = {}
      PROVE  Reloads'
  <2>1. fresh' = {} /\ undisturbed' \subseteq Processes
    BY <1>3 DEF Reloads
  <2>2. \A q \in undisturbed' : pc'[q] \in Reloading \ {"load"}
    BY DEF Reloads
  <2> QED
    BY <1>3, <2>1, <2>2 DEF Reloads
<1> QED
  BY <1>2, <1>3

LEMMA IdleIsNot ==
  ASSUME Reloads, NEW p, pc[p] \notin Reloading
  PROVE  p \notin undisturbed
BY DEF Reloads

LEMMA RequestKeeps ==
  ASSUME Types, Reloads, NEW a \in Admins, NEW w \in Workers, Request(a, w)
  PROVE  Reloads'
<1>1. PICK op, x, arg : Start(a, w, op, x, arg)
  BY DEF Request, StartCreate, StartUpdate, StartToggle, StartDelete, StartImport, StartImportSdk
<1>2. a \notin undisturbed
  BY <1>1, IdleIsNot DEF Start, Reloading
<1>3. \A q \in Processes \ {a} : /\ pc'[q] = pc[q] /\ job'[q] = job[q]
                               /\ snap'[q] = snap[q] /\ off'[q] = off[q]
  BY <1>1 DEF Start, Types, Moves
<1> QED
  BY <1>1, <1>2, <1>3, Kinds0, QuietStep DEF Start

LEMMA HandleKeeps ==
  ASSUME Types, Reloads, NEW a \in Admins, Handle(a)
  PROVE  Reloads'
<1>1. a \in Processes /\ pc[a] \notin Reloading /\ pc[a] # "idle"
  BY Kinds0 DEF Handle, CommitCreate, CommitUpdate, CommitToggle, CommitDelete, CommitImport,
     CommitImportSdk, Insert, Update, Committing, Refresh, Switch, Remove, Add, Reloading
<1>2. a \notin undisturbed
  BY <1>1, IdleIsNot
<1>3. PICK h \in Workers : h = Home(a)
  BY <1>1, HomeIsWorker DEF Types
<1>4. CASE TablesChange
  BY <1>4, ChangesKeep DEF TablesChange
<1>5. CASE ~TablesChange
  <2>1. \/ \E op : Insert(a, op) \/ Update(a, op)
        \/ Refresh(a) \/ Switch(a) \/ Remove(a) \/ Add(a)
    BY <1>5 DEF Handle, CommitCreate, CommitUpdate, CommitToggle, CommitDelete, CommitImport,
       CommitImportSdk, SetEnabled
  <2>2. \A q \in Processes \ {a} : /\ pc'[q] = pc[q] /\ job'[q] = job[q]
                                 /\ snap'[q] = snap[q] /\ off'[q] = off[q]
    <3>1. \/ End(a)
          \/ UNCHANGED <<snap, off>> /\ \E step : Goto(a, step)
      BY <2>1 DEF Insert, Update, Refresh, Switch, Remove, Add
    <3> QED
      BY <3>1, <1>1, EndAlone, GotoAlone
  <2>3. CASE (\E op : Insert(a, op) \/ Update(a, op)) \/ Refresh(a)
    <3>1. UNCHANGED <<dbVars, engVars, histVars>>
      BY <1>5, <2>3 DEF Insert, Update, Refresh, dbVars, engVars, histVars
    <3> QED
      BY <1>1, <1>2, <2>2, <3>1, QuietStep DEF histVars
  <2>4. CASE Switch(a) \/ Remove(a) \/ Add(a)
    <3>1. h = job[a].at
      BY <1>3, Kinds0 DEF Home
    <3>2. \A v \in Workers \ {h} : io'[v] = io[v] /\ scanner'[v] = scanner[v]
      BY <2>4, <3>1 DEF Switch, Remove, Add, Types, Stores
    <3>3. EngineChange(a) /\ UNCHANGED dbVars
      BY <2>4 DEF Switch, Remove, Add
    <3>4. /\ h \notin fresh' /\ \A v \in fresh' : v \in fresh
          /\ a \notin undisturbed' /\ \A q \in undisturbed' : q \in undisturbed /\ Home(q) # h
      BY <1>2, <1>3, <3>3, Zenon DEF EngineChange
    <3>5. Alone(a, h)
      BY <2>2, <3>2, <3>3 DEF Alone
    <3> QED
      BY <1>1, <3>4, <3>5, AloneKeeps
  <2> QED
    BY <2>1, <2>3, <2>4
<1> QED
  BY <1>4, <1>5

LEMMA StopKeeps ==
  ASSUME Types, Reloads, NEW v \in Workers, Stop(v)
  PROVE  Reloads'
<1> DEFINE gone == {v} \cup {a \in Admins : pc[a] # "idle" /\ Home(a) = v}
<1>1. UNCHANGED dbVars /\ undisturbed' = undisturbed \ gone /\ fresh' = fresh \ {v}
  BY DEF Stop
<1>2. \A w \in Workers \ {v} : io'[w] = io[w] /\ scanner'[w] = scanner[w]
  BY DEF Stop, Types, Stores
<1>3. ASSUME NEW q \in Processes, q \notin gone
      PROVE  pc'[q] = pc[q] /\ job'[q] = job[q] /\ snap'[q] = snap[q] /\ off'[q] = off[q]
  BY <1>3 DEF Stop
<1>4. ASSUME NEW q \in undisturbed'
      PROVE  q \in undisturbed /\ q \in Processes /\ q \notin gone /\ Home(q) # v
  <2>1. q \in undisturbed /\ q \in Processes /\ q \notin gone
    BY <1>1 DEF Reloads
  <2>2. pc[q] # "idle"
    BY <2>1 DEF Reloads, Reloading
  <2>3. CASE q \in Workers
    BY <2>1, <2>3 DEF Home
  <2>4. CASE q \in Admins
    BY <2>1, <2>2, <2>4
  <2> QED
    BY <2>1, <2>3, <2>4 DEF Processes
<1> HIDE DEF gone
<1>5. ASSUME NEW q \in undisturbed', NEW w \in Workers, (Home(q) = w)'
      PROVE  Progress(q, w)'
  <2>1. Home(q) = w
    BY <1>3, <1>4, <1>5 DEF Home
  <2>2. Progress(q, w)
    BY <1>4, <2>1 DEF Reloads
  <2>3. io'[w] = io[w] /\ scanner'[w] = scanner[w]
    BY <1>2, <1>4, <2>1
  <2> QED
    BY <1>1, <1>3, <1>4, <2>2, <2>3, Frame
<1>6. \A q \in undisturbed' : pc'[q] \in Reloading \ {"load"}
  BY <1>3, <1>4 DEF Reloads
<1>7. ASSUME NEW w \in fresh'
      PROVE  Agrees(w)'
  <2>1. w \in fresh /\ w \in Workers \ {v}
    BY <1>1 DEF Reloads
  <2> QED
    BY <1>1, <1>2, <2>1, AgreesStill DEF Reloads
<1>8. undisturbed' \subseteq Processes /\ fresh' \subseteq Workers
  BY <1>1 DEF Reloads
<1> QED
  BY <1>5, <1>6, <1>7, <1>8 DEF Reloads

LEMMA ReloadsStep ==
  ASSUME Types, Reloads, [Next]_vars
  PROVE  Reloads'
<1>1. ASSUME NEW a \in Admins, NEW w \in Workers, Request(a, w)
      PROVE  Reloads'
  BY <1>1, RequestKeeps
<1>2. ASSUME NEW a \in Admins, Handle(a)
      PROVE  Reloads'
  BY <1>2, HandleKeeps
<1>3. ASSUME NEW p \in Processes, Reload(p)
      PROVE  Reloads'
  BY <1>3, ReloadKeeps
<1>4. ASSUME NEW w \in Workers, Stop(w)
      PROVE  Reloads'
  BY <1>4, StopKeeps
<1>5. ASSUME NEW w \in Workers, Startup(w)
      PROVE  Reloads'
  <2>1. ASSUME NEW bundle \in SUBSET Sdk, ImportBundle(w, bundle)
        PROVE  Reloads'
    BY <2>1, ChangesKeep DEF ImportBundle, TablesChange
  <2>2. CASE InitDb(w) \/ Imported(w)
    <3>1. w \notin undisturbed /\ w \in Processes
      BY <2>2, IdleIsNot, Kinds0 DEF InitDb, Imported, Reloading
    <3>2. /\ UNCHANGED <<dbVars, engVars, snap, undisturbed, fresh>>
          /\ \A q \in Processes \ {w} : off'[q] = off[q]
          /\ \E step : Goto(w, step)
      BY <2>2 DEF InitDb, Imported, histVars, Types, Stores
    <3>3. \A q \in Processes \ {w} : pc'[q] = pc[q] /\ job'[q] = job[q]
      BY <3>1, <3>2, GotoAlone
    <3> QED
      BY <3>1, <3>2, <3>3, QuietStep
  <2> QED
    BY <1>5, <2>1, <2>2 DEF Startup
<1>6. ASSUME NEW p \in Processes, Fail(p)
      PROVE  Reloads'
  <2>1. \A q \in Processes \ {p} : /\ pc'[q] = pc[q] /\ job'[q] = job[q]
                                 /\ snap'[q] = snap[q] /\ off'[q] = off[q]
    BY <1>6, EndAlone DEF Fail
  <2> QED
    BY <1>6, <2>1, QuietStep DEF Fail
<1>7. CASE UNCHANGED vars
  <2>1. UNCHANGED <<dbVars, engVars, pc, job, snap, off, undisturbed, fresh>>
    BY <1>7 DEF vars, reqVars, histVars
  <2>2. ASSUME NEW q \in undisturbed, NEW w \in Workers, Home(q) = w
        PROVE  Progress(q, w)'
    <3>1. Progress(q, w)
      BY <2>2 DEF Reloads
    <3> QED
      BY <2>1, <3>1, Frame DEF engVars
  <2>3. \A w \in fresh : Agrees(w)'
    BY <2>1, AgreesStill DEF Reloads, engVars
  <2>4. \A q \in undisturbed : Home(q)' = Home(q)
    BY <2>1 DEF Home
  <2> QED
    BY <2>1, <2>2, <2>3, <2>4 DEF Reloads
<1> QED
  BY <1>1, <1>2, <1>3, <1>4, <1>5, <1>6, <1>7 DEF Next, Calm

-----------------------------------------------------------------------------
(***************************************************************************)
(* The theorems                                                            *)
(***************************************************************************)
LEMMA Invariance ==
  Spec => []IInv
<1>1. Init => IInv
  <2>1. Init => Reloads
    BY DEF Init, Reloads
  <2> QED
    BY <2>1, InitTypes DEF IInv
<1>2. IInv /\ [Next]_vars => IInv'
  BY MoveStep, StoreStep, ReloadsStep DEF IInv, Types
<1> QED
  BY <1>1, <1>2, PTL DEF Spec

\* The variables hold what tables, engines and locals of the code hold: no
\* built-in rule is ever kept as a custom row, and no engine ever holds a
\* built-in rule of the other one.
THEOREM TypeCorrect ==
  Spec => []TypeOK
<1>1. IInv => TypeOK
  <2> SUFFICES ASSUME IInv PROVE TypeOK
    OBVIOUS
  <2>1. DOMAIN rows \subseteq Custom /\ \A x \in DOMAIN rows : rows[x] \in Row
    BY RulesAre DEF IInv, Types, Stores
  <2>2. ASSUME NEW w \in Workers
        PROVE  /\ DOMAIN io[w] \subseteq IoSdk \cup Custom
               /\ \A x \in DOMAIN io[w] : io[w][x] \in Row
               /\ DOMAIN scanner[w] \subseteq CrSdk \cup Custom
               /\ \A x \in DOMAIN scanner[w] : scanner[w][x] \in Row
    <3>1. io[w] \in Rules(IoSdk \cup Custom) /\ scanner[w] \in Rules(CrSdk \cup Custom)
      BY DEF IInv, Types, Stores
    <3> QED
      BY <3>1, RulesAre
  <2> QED
    BY <2>1, <2>2 DEF TypeOK, IInv, Types, Stores, Reloads
<1> QED
  BY <1>1, Invariance, PTL

\* A reload_rules_from_db that ran to its end while nothing was committed and
\* nothing else touched its worker's engines leaves both engines with exactly
\* the rules the tables enable: whatever they held before, and whatever other
\* workers and requests do meanwhile that commits nothing.
THEOREM FreshReloads ==
  Spec => []FreshReloadAgrees
<1>1. IInv => FreshReloadAgrees
  BY DEF IInv, Reloads, FreshReloadAgrees
<1> QED
  BY <1>1, Invariance, PTL
=============================================================================
