--------------------------- MODULE RuleSyncCauses ---------------------------
(***************************************************************************)
(* Theorems about RuleSync: when nothing is in flight, a worker's engines  *)
(* and the tables differ for a named cause only. The invariant follows one *)
(* rule x in one worker w that has no excuse. Then at most one request is  *)
(* about x, it is served by w, and no reload runs there beside it; and if  *)
(* w is wrong about x, that request or a reload has yet to put it right.   *)
(* A custom rule that does not lag in w is in the scanner as the row says, *)
(* or a reload has yet to put it in or take it out.                        *)
(* The last part is about one worker asked by one thread.                  *)
(***************************************************************************)
EXTENDS RuleSyncProofs

\* The steps of a reload before which the I/O engine gets the built-in rules,
\* and before which the disabled ones among them are switched off. A start
\* imports the bundles first.
Early     == {"bundles", "load", "scanner", "customs", "inject"}
BeforeOff == Early \cup {"find_off", "switch_off"}
Starting  == Reloading \cup {"bundles"}

Serving(a) == pc[a] # "idle"
Asks(a, x) == Serving(a) /\ job[a].rule = x
ReloadingAt(p, w) == pc[p] \in Reloading /\ Home(p) = w

\* What a request does is known from its operation, and its worker is up.
Plan(a) ==
  /\ pc[job[a].at] = "up"
  /\ pc[a] \in Reloading => job[a].op = "import_sdk"
  /\ pc[a] = "refresh" => job[a].op \in {"create", "update", "toggle"} \cup Imports
  /\ pc[a] = "switch" => job[a].op = "toggle"
  /\ pc[a] = "remove" => job[a].op \in {"update", "delete"}
  /\ pc[a] = "add" => job[a].op \in {"create", "update"} \cup Imports
  /\ job[a].op = "delete" => job[a].rule \in Custom

IoKinds == \A w \in Workers : \A x \in DOMAIN io[w] \cap IoSdk : io[w][x].kind = "io"

Plans == IoKinds /\ \A a \in Admins : Serving(a) => Plan(a)

\* Who asks for x is alone with it, and w serves it.
Sole(x, w) == \A a \in Admins : Asks(a, x) =>
  /\ job[a].at = w
  /\ \A b \in Admins \ {a} : Serving(b) /\ job[b].at = w =>
       job[b].rule # x /\ job[b].op # "import_sdk"

SameRow(f, x) ==
  /\ x \in DOMAIN f <=> x \in DOMAIN rows
  /\ x \in DOMAIN rows => f[x] = rows[x]

\* What reload p has read of x is still so.
Reads(x, p) ==
  /\ pc[p] # "load" => SameRow(snap[p], x)
  /\ pc[p] = "switch_off" => (x \in off[p] <=> x \in Sdk \ sdkOn)
  /\ pc[p] = "custom_off" => (x \in off[p] => x \in DOMAIN rows /\ ~rows[x].enabled)

\* What request a about x has read, written and done in w so far.
Knows(a, x, w) ==
  /\ job[a].op # "delete_sdk"
  /\ job[a].op \in Imports => job[a].arg.enabled
  /\ job[a].op \in {"create", "update"} \cup Imports => job[a].arg.kind # "both"
  /\ pc[a] = "commit" /\ job[a].op = "import" =>
       /\ x \in DOMAIN rows
       /\ seen[a] = rows[x] /\ job[a].arg.pattern = rows[x].pattern
  /\ (pc[a] = "commit" /\ job[a].op = "toggle") \/ pc[a] = "switch" =>
       (seen[a].enabled <=> x \in sdkOn)
  /\ pc[a] = "refresh" /\ job[a].op # "toggle" =>
       /\ x \in DOMAIN rows
       /\ job[a].op \in Imports => rows[x].enabled
       /\ job[a].op # "update" /\ ~rows[x].pattern => x \notin IoActive(w)
  /\ pc[a] = "remove" /\ job[a].op = "delete" => x \notin DOMAIN rows
  /\ (pc[a] = "remove" /\ job[a].op = "update") \/ pc[a] = "add" =>
       x \in DOMAIN rows /\ seen[a] = rows[x]
  /\ pc[a] = "add" /\ ~seen[a].pattern => x \notin IoActive(w)

\* The engines of w are right about x, or somebody is about to see to it.
Syncing == {"refresh", "switch", "remove", "add"}
InSync(x, S, w) ==
  \/ \E a \in Admins : Asks(a, x) /\ pc[a] \in Syncing
  \/ \E p \in Processes : pc[p] \in S /\ Home(p) = w

IoSteps(x) == IF x \in Sdk \ sdkOn THEN BeforeOff ELSE Early
CrSteps(x) == IF x \in sdkOn THEN {"bundles", "load", "scanner"} ELSE BeforeOff

IoRight(x, w) == x \in IoActive(w) <=> x \in IoWanted
CrRight(x, w) == x \in CrActive(w) <=> x \in sdkOn

\* The built-in rules a loaded engine holds, enabled or not.
Loaded(x, w) ==
  /\ x \in IoSdk /\ pc[w] \notin Early => x \in DOMAIN io[w]
  /\ x \in CrSdk /\ pc[w] \notin {"bundles", "load", "scanner"} => x \in DOMAIN scanner[w]

Tidy(x, w) ==
  /\ Sole(x, w)
  /\ x \in DOMAIN rows => rows[x].kind # "both"
  /\ pc[w] # "down" =>
       /\ \A p \in Processes : ReloadingAt(p, w) => Reads(x, p)
       /\ \A a \in Admins : Asks(a, x) => Knows(a, x, w)
       /\ IoRight(x, w) \/ InSync(x, IoSteps(x), w)
       /\ x \in CrSdk => CrRight(x, w) \/ InSync(x, CrSteps(x), w)
       /\ Loaded(x, w)

Causes == \A x \in Sdk \cup Custom, w \in Workers : <<x, w>> \notin excused => Tidy(x, w)

\* A start puts the other workers out of step with the built-in rules.
Told == \A v \in Workers : pc[v] = "bundles" => Sdk \X (Workers \ {v}) \subseteq excused

CInv == Types /\ Plans /\ Told /\ Causes

-----------------------------------------------------------------------------
(***************************************************************************)
(* Steps beside x and w                                                    *)
(***************************************************************************)
SameTables(x) ==
  /\ x \in sdkOn' <=> x \in sdkOn
  /\ x \in DOMAIN rows' <=> x \in DOMAIN rows
  /\ x \in DOMAIN rows => rows'[x] = rows[x]

SameEngines(x, w) ==
  /\ x \in IoActive(w)' <=> x \in IoActive(w)
  /\ x \in CrActive(w)' <=> x \in CrActive(w)
  /\ x \in DOMAIN io[w] => x \in DOMAIN io'[w]
  /\ x \in DOMAIN scanner[w] => x \in DOMAIN scanner'[w]

\* Only the processes in G do anything.
Beside(G) == \A q \in Processes \ G :
  /\ pc'[q] = pc[q] /\ job'[q] = job[q] /\ seen'[q] = seen[q]
  /\ snap'[q] = snap[q] /\ off'[q] = off[q]

LEMMA StillWanted ==
  ASSUME NEW x, SameTables(x)
  PROVE  /\ x \in IoWanted' <=> x \in IoWanted
         /\ IoSteps(x)' = IoSteps(x) /\ CrSteps(x)' = CrSteps(x)
BY DEF SameTables, IoWanted, Wanted, IoSteps, CrSteps

LEMMA StillRight ==
  ASSUME NEW x, NEW w, SameTables(x), SameEngines(x, w)
  PROVE  /\ IoRight(x, w) => IoRight(x, w)'
         /\ CrRight(x, w) => CrRight(x, w)'
<1>1. x \in IoWanted' <=> x \in IoWanted
  BY StillWanted
<1>2. IoRight(x, w)' <=> IoRight(x, w)
  BY <1>1 DEF IoRight, SameEngines
<1>3. CrRight(x, w)' <=> CrRight(x, w)
  BY DEF CrRight, SameEngines, SameTables
<1> QED
  BY <1>2, <1>3

LEMMA StillReads ==
  ASSUME NEW x, NEW p, SameTables(x), Reads(x, p), pc'[p] = pc[p],
         snap'[p] = snap[p], off'[p] = off[p]
  PROVE  Reads(x, p)'
<1>1. SameRow(snap[p], x) => SameRow(snap[p], x)'
  BY DEF SameTables, SameRow
<1> QED
  BY <1>1 DEF SameTables, Reads

LEMMA StillKnows ==
  ASSUME NEW x, NEW w, NEW a, SameTables(x), SameEngines(x, w), Knows(a, x, w),
         pc'[a] = pc[a], job'[a] = job[a], seen'[a] = seen[a]
  PROVE  Knows(a, x, w)'
BY DEF SameTables, SameEngines, Knows

LEMMA StartingWorker ==
  ASSUME Moves, NEW p \in Processes, pc[p] = "bundles"
  PROVE  p \in Workers
BY DEF Moves, Steps, Reloading

LEMMA Kept ==
  ASSUME Moves, NEW x, NEW w \in Workers, NEW G \in SUBSET Processes, Tidy(x, w),
         Beside(G), SameTables(x), SameEngines(x, w), w \notin G,
         \A a \in G \cap Admins : ~Asks(a, x) /\ ~Asks(a, x)',
         \A p \in G : ~ReloadingAt(p, w) /\ (ReloadingAt(p, w)' => pc'[p] = "load"),
         \A a \in G \cap Admins :
           Serving(a)' /\ job'[a].at = w /\ job'[a].op = "import_sdk" =>
             (Serving(a) /\ job'[a] = job[a]) \/ \A b \in Admins : ~Asks(b, x)
  PROVE  Tidy(x, w)'
<1>1. ASSUME NEW a \in Admins, a \notin G
      PROVE  /\ pc'[a] = pc[a] /\ job'[a] = job[a] /\ seen'[a] = seen[a]
             /\ (Asks(a, x)' => Asks(a, x)) /\ (Asks(a, x) => Asks(a, x)')
  BY <1>1, Kinds0 DEF Beside, Asks, Serving
<1>2. ASSUME NEW p \in Processes
      PROVE  p \notin G => /\ pc'[p] = pc[p] /\ Home(p)' = Home(p)
                          /\ snap'[p] = snap[p] /\ off'[p] = off[p]
  BY DEF Beside, Home
<1>3. pc'[w] = pc[w] /\ w \in Processes
  BY <1>2, Kinds0
<1>4. Sole(x, w)'
  <2>1. SUFFICES ASSUME NEW a \in Admins, Asks(a, x)'
                 PROVE  /\ job'[a].at = w
                        /\ \A b \in Admins \ {a} : Serving(b)' /\ job'[b].at = w =>
                             job'[b].rule # x /\ job'[b].op # "import_sdk"
    BY DEF Sole
  <2>2. Asks(a, x) /\ job'[a] = job[a]
    <3>1. a \notin G
      BY <2>1
    <3> QED
      BY <1>1, <2>1, <3>1
  <2>3. ASSUME NEW b \in Admins \ {a}, Serving(b)', job'[b].at = w
        PROVE  job'[b].rule # x /\ job'[b].op # "import_sdk"
    <3>0. Sole(x, w)
      BY Zenon DEF Tidy
    <3>1. CASE b \notin G
      <4>1. job'[b] = job[b] /\ pc'[b] = pc[b]
        BY <1>1, <3>1
      <4>2. Serving(b) /\ job[b].at = w
        BY <2>3, <4>1 DEF Serving
      <4> QED
        BY <2>2, <3>0, <4>1, <4>2 DEF Sole
    <3>2. CASE b \in G
      <4>1. job'[b].rule # x
        BY <1>1, <2>3, <3>2 DEF Asks
      <4>2. ASSUME job'[b].op = "import_sdk"
            PROVE  FALSE
        <5>1. Serving(b) /\ job'[b] = job[b]
          BY <2>2, <2>3, <3>2, <4>2
        <5> QED
          BY <2>2, <2>3, <3>0, <4>2, <5>1 DEF Sole
      <4> QED
        BY <4>1, <4>2
    <3> QED
      BY <3>1, <3>2
  <2> QED
    BY <2>2, <2>3 DEF Tidy, Sole
<1>5. ASSUME pc[w] # "down"
      PROVE  /\ \A p \in Processes : ReloadingAt(p, w)' => Reads(x, p)'
             /\ \A a \in Admins : Asks(a, x)' => Knows(a, x, w)'
             /\ (IoRight(x, w) \/ InSync(x, IoSteps(x), w))'
             /\ x \in CrSdk => (CrRight(x, w) \/ InSync(x, CrSteps(x), w))'
             /\ Loaded(x, w)'
  <2>1. ASSUME NEW p \in Processes, ReloadingAt(p, w)'
        PROVE  Reads(x, p)'
    <3>1. CASE p \in G
      BY <2>1, <3>1 DEF Reads
    <3>2. CASE p \notin G
      <4>1. Reads(x, p)
        BY <1>2, <1>5, <2>1, <3>2 DEF Tidy, ReloadingAt
      <4> QED
        BY <1>2, <3>2, <4>1, StillReads
    <3> QED
      BY <3>1, <3>2
  <2>2. ASSUME NEW a \in Admins, Asks(a, x)'
        PROVE  Knows(a, x, w)'
    <3>0. a \notin G
      BY <2>2
    <3>1. /\ Asks(a, x) /\ pc'[a] = pc[a] /\ job'[a] = job[a] /\ seen'[a] = seen[a]
      BY <1>1, <2>2, <3>0
    <3>2. Knows(a, x, w)
      BY <1>5, <3>1, Zenon DEF Tidy
    <3> QED
      BY <3>1, <3>2, StillKnows
  <2>3. ASSUME NEW S, S \subseteq Starting, InSync(x, S, w)
        PROVE  InSync(x, S, w)'
    <3>1. CASE \E a \in Admins : Asks(a, x) /\ pc[a] \in Syncing
      BY <1>1, <3>1 DEF InSync, Syncing
    <3>2. CASE \E p \in Processes : pc[p] \in S /\ Home(p) = w
      <4>1. PICK p \in Processes : pc[p] \in S /\ Home(p) = w
        BY <3>2
      <4>2. pc[p] = "bundles" => p = w
        BY <4>1, StartingWorker DEF Home
      <4>3. p \notin G
        BY <2>3, <4>1, <4>2 DEF ReloadingAt, Starting
      <4> QED
        BY <1>2, <4>1, <4>3 DEF InSync
    <3> QED
      BY <2>3, <3>1, <3>2 DEF InSync
  <2>4. IoSteps(x) \subseteq Starting /\ CrSteps(x) \subseteq Starting
    BY DEF IoSteps, CrSteps, Early, BeforeOff, Starting, Reloading
  <2>5. (IoRight(x, w) \/ InSync(x, IoSteps(x), w))'
    <3>1. CASE IoRight(x, w)
      BY <3>1, StillRight
    <3>2. CASE InSync(x, IoSteps(x), w)
      BY <2>3, <2>4, <3>2, StillWanted
    <3> QED
      BY <1>5, <3>1, <3>2 DEF Tidy
  <2>6. ASSUME x \in CrSdk
        PROVE  (CrRight(x, w) \/ InSync(x, CrSteps(x), w))'
    <3>1. CASE CrRight(x, w)
      BY <3>1, StillRight
    <3>2. CASE InSync(x, CrSteps(x), w)
      BY <2>3, <2>4, <3>2, StillWanted
    <3> QED
      BY <1>5, <2>6, <3>1, <3>2 DEF Tidy
  <2>7. Loaded(x, w)'
    BY <1>3, <1>5 DEF Tidy, Loaded, SameEngines
  <2> QED
    BY <2>1, <2>2, <2>5, <2>6, <2>7
<1>6. x \in DOMAIN rows' => rows'[x].kind # "both"
  BY Zenon DEF Tidy, SameTables
<1> QED
  BY <1>3, <1>4, <1>5, <1>6 DEF Tidy
-----------------------------------------------------------------------------
(***************************************************************************)
(* Plans                                                                   *)
(***************************************************************************)
LEMMA SwitchedEntry ==
  ASSUME NEW S, NEW f \in Rules(S), NEW xs, NEW e \in BOOLEAN, NEW y \in DOMAIN f
  PROVE  /\ y \in DOMAIN SwitchedTo(f, xs, e)
         /\ SwitchedTo(f, xs, e)[y].kind = f[y].kind
         /\ y \in xs => SwitchedTo(f, xs, e)[y].enabled = e
         /\ y \notin xs => SwitchedTo(f, xs, e)[y] = f[y]
<1>1. f[y] \in Row
  BY RulesAre
<1>2. SwitchedTo(f, xs, e)[y] = IF y \in xs THEN [f[y] EXCEPT !.enabled = e] ELSE f[y]
  BY DEF SwitchedTo
<1>3. y \in DOMAIN SwitchedTo(f, xs, e)
  BY DEF SwitchedTo
<1> QED
  BY <1>1, <1>2, <1>3, EnabledIsRow

LEMMA SwitchedKinds ==
  ASSUME Stores, IoKinds, NEW h \in Workers, NEW xs, NEW e \in BOOLEAN,
         io' = [io EXCEPT ![h] = SwitchedTo(@, xs, e)]
  PROVE  IoKinds'
<1>1. \A w \in Workers : io[w] \in Rules(IoSdk \cup Custom)
  BY DEF Stores
<1>2. \A w \in Workers : io'[w] = IF w = h THEN SwitchedTo(io[h], xs, e) ELSE io[w]
  BY DEF Stores
<1>3. \A y \in DOMAIN SwitchedTo(io[h], xs, e) : y \in DOMAIN io[h]
  BY DEF SwitchedTo
<1>4. \A y \in DOMAIN io[h] : SwitchedTo(io[h], xs, e)[y].kind = io[h][y].kind
  BY <1>1, SwitchedEntry
<1> QED
  BY <1>2, <1>3, <1>4 DEF IoKinds

LEMMA PlansKept ==
  ASSUME Types, Plans, NEW G \in SUBSET Processes, Beside(G), IoKinds',
         \A w \in Workers : pc[w] = "up" => pc'[w] = "up",
         \A a \in G \cap Admins : Serving(a)' => Plan(a)'
  PROVE  Plans'
<1>1. ASSUME NEW a \in Admins, Serving(a)', a \notin G
      PROVE  Plan(a)'
  <2>1. pc'[a] = pc[a] /\ job'[a] = job[a] /\ a \in Processes
    BY <1>1, Kinds0 DEF Beside
  <2>2. Plan(a) /\ job[a].at \in Workers
    BY <1>1, <2>1, JobsAre DEF Plans, Serving, Types, Moves, Busied
  <2> QED
    BY <2>1, <2>2 DEF Plan
<1> QED
  BY <1>1 DEF Plans

\* What Goto and End say of the other processes.
LEMMA GotoBeside ==
  ASSUME Types, NEW p \in Processes, NEW step, Goto(p, step)
  PROVE  /\ \A q \in Processes \ {p} : pc'[q] = pc[q]
         /\ job' = job /\ pc'[p] = step /\ Home(p)' = Home(p)
BY DEF Goto, Types, Moves, Home

LEMMA EndBeside ==
  ASSUME Types, NEW p \in Processes, End(p)
  PROVE  /\ Beside({p})
         /\ pc'[p] = IF p \in Workers THEN "up" ELSE "idle"
BY DEF End, Types, Stores, Moves, Beside

LEMMA StartBeside ==
  ASSUME Types, NEW a \in Admins, NEW w, NEW op, NEW x, NEW arg, Start(a, w, op, x, arg),
         seen' = seen \/ \E row : seen' = [seen EXCEPT ![a] = row]
  PROVE  /\ Beside({a}) /\ pc'[a] = "commit"
         /\ job'[a] = [op |-> op, rule |-> x, at |-> w, arg |-> arg]
BY Kinds0 DEF Start, Types, Stores, Moves, Beside

-----------------------------------------------------------------------------
(***************************************************************************)
(* A request begins                                                        *)
(***************************************************************************)
Begins(a, h, op, r, arg) ==
  /\ Start(a, h, op, r, arg) /\ Beside({a}) /\ pc'[a] = "commit"
  /\ job'[a] = [op |-> op, rule |-> r, at |-> h, arg |-> arg]
  /\ op = "delete" => r \in Custom
  /\ op = "toggle" => (seen'[a].enabled <=> r \in sdkOn)
  /\ op = "import" =>
       /\ r \in DOMAIN rows
       /\ seen'[a] = rows[r] /\ arg.pattern = rows[r].pattern

LEMMA RequestBegins ==
  ASSUME Types, NEW a \in Admins, NEW h \in Workers, Request(a, h)
  PROVE  \E op, r, arg : r \in Sdk \cup Custom /\ Begins(a, h, op, r, arg)
<1>1. /\ a \in Processes /\ seen \in [Processes -> Row]
      /\ DOMAIN rows \subseteq Custom
  BY Kinds0, RulesAre DEF Types, Stores
<1>2. ASSUME NEW op, NEW r \in Sdk \cup Custom, NEW arg, Start(a, h, op, r, arg),
             seen' = seen \/ \E row : seen' = [seen EXCEPT ![a] = row],
             op = "delete" => r \in Custom,
             op = "toggle" => (seen'[a].enabled <=> r \in sdkOn),
             op = "import" => /\ r \in DOMAIN rows
                              /\ seen'[a] = rows[r] /\ arg.pattern = rows[r].pattern
      PROVE  Begins(a, h, op, r, arg)
  <2>1. /\ Beside({a}) /\ pc'[a] = "commit"
        /\ job'[a] = [op |-> op, rule |-> r, at |-> h, arg |-> arg]
    BY <1>2, StartBeside
  <2> QED
    BY <1>2, <2>1 DEF Begins
<1>3. ASSUME NEW x \in Custom, NEW row \in Row,
             StartCreate(a, h, x, row) \/ StartUpdate(a, h, x, row) \/ StartImport(a, h, x, row)
      PROVE  \E op \in {"create", "update"} \cup Imports :
               /\ Start(a, h, op, x, row)
               /\ seen' = seen \/ \E read : seen' = [seen EXCEPT ![a] = read]
               /\ op = "import" => /\ x \in DOMAIN rows
                                   /\ seen'[a] = rows[x] /\ row.pattern = rows[x].pattern
  BY <1>1, <1>3 DEF StartCreate, StartUpdate, StartImport, Imports
<1>4. ASSUME NEW r \in Sdk, NEW e \in BOOLEAN,
             StartToggle(a, h, r, e) \/ StartImportSdk(a, h, r, e)
      PROVE  \E op \in {"toggle", "import_sdk"} :
               /\ Start(a, h, op, r, e)
               /\ \E read : seen' = [seen EXCEPT ![a] = read]
               /\ seen'[a].enabled <=> r \in sdkOn
  <2>1. seen' = [seen EXCEPT ![a] = [seen[a] EXCEPT !.enabled = r \in sdkOn]]
    BY <1>4 DEF StartToggle, StartImportSdk
  <2>2. seen'[a] = [seen[a] EXCEPT !.enabled = r \in sdkOn] /\ seen[a] \in Row
    BY <1>1, <2>1
  <2>3. seen'[a].enabled = (r \in sdkOn)
    BY <2>2, EnabledIsRow
  <2> QED
    BY <1>4, <2>1, <2>3 DEF StartToggle, StartImportSdk
<1>5. ASSUME NEW x \in Custom \cup Sdk, StartDelete(a, h, x)
      PROVE  /\ seen' = seen \/ \E read : seen' = [seen EXCEPT ![a] = read]
             /\ \/ x \in Custom /\ Start(a, h, "delete", x, FALSE)
                \/ x \in Sdk /\ Start(a, h, "delete_sdk", x, FALSE)
  <2>1. CASE x \in DOMAIN rows /\ Start(a, h, "delete", x, FALSE) /\ UNCHANGED seen
    BY <1>1, <2>1
  <2>2. CASE /\ x \in Sdk /\ Start(a, h, "delete_sdk", x, FALSE)
             /\ seen' = [seen EXCEPT ![a].enabled = x \in sdkOn]
    <3>1. seen' = [seen EXCEPT ![a] = [seen[a] EXCEPT !.enabled = x \in sdkOn]]
      BY <2>2
    <3> QED
      BY <2>2, <3>1
  <2> QED
    BY <1>5, <2>1, <2>2 DEF StartDelete
<1>6. CASE \E x \in Custom, row \in Row :
             StartCreate(a, h, x, row) \/ StartUpdate(a, h, x, row) \/ StartImport(a, h, x, row)
  <2>1. PICK x \in Custom, row \in Row, op \in {"create", "update"} \cup Imports :
          /\ Start(a, h, op, x, row)
          /\ seen' = seen \/ \E read : seen' = [seen EXCEPT ![a] = read]
          /\ op = "import" => /\ x \in DOMAIN rows
                              /\ seen'[a] = rows[x] /\ row.pattern = rows[x].pattern
    BY <1>3, <1>6
  <2>2. op # "delete" /\ op # "toggle"
    BY DEF Imports
  <2> QED
    BY <1>2, <2>1, <2>2
<1>7. CASE \E r \in Sdk, e \in BOOLEAN : StartToggle(a, h, r, e) \/ StartImportSdk(a, h, r, e)
  <2>1. PICK r \in Sdk, e \in BOOLEAN, op \in {"toggle", "import_sdk"} :
          /\ Start(a, h, op, r, e)
          /\ \E read : seen' = [seen EXCEPT ![a] = read]
          /\ seen'[a].enabled <=> r \in sdkOn
    BY <1>4, <1>7
  <2>2. op # "delete" /\ op # "import"
    OBVIOUS
  <2> QED
    BY <1>2, <2>1, <2>2
<1>8. CASE \E x \in Custom \cup Sdk : StartDelete(a, h, x)
  <2>1. PICK x \in Custom \cup Sdk : StartDelete(a, h, x)
    BY <1>8
  <2> QED
    BY <1>2, <1>5, <2>1
<1> QED
  BY <1>6, <1>7, <1>8 DEF Request

\* What the absence of an excuse says of the other requests at a worker.
LEMMA NobodyElse ==
  ASSUME NEW a \in Admins, NEW h \in Workers, NEW op, NEW r, NEW arg, Start(a, h, op, r, arg),
         NEW x, NEW w \in Workers, <<x, w>> \notin excused'
  PROVE  /\ x = r => /\ w = h /\ op # "delete_sdk" /\ (op \in Imports => arg.enabled)
                     /\ op \in {"create", "update"} \cup Imports => arg.kind # "both"
                     /\ \A b \in Admins \ {a} : Serving(b) /\ job[b].at = h =>
                          job[b].rule # r /\ job[b].op # "import_sdk" /\ op # "import_sdk"
         /\ w = h /\ op = "import_sdk" => \A b \in Admins \ {a} : Serving(b) /\ job[b].at = h =>
              job[b].rule # x
<1> DEFINE overlap == {b \in Busy(h, a) : \/ job[b].rule = r
                                          \/ "import_sdk" \in {op, job[b].op}}
           unsynced == op = "delete_sdk" \/ (op \in Imports /\ ~arg.enabled)
           mixed == op \in {"create", "update"} \cup Imports /\ arg.kind = "both"
<1>1. /\ <<x, w>> \notin {r} \X (Workers \ {h})
      /\ <<x, w>> \notin {<<job[b].rule, h>> : b \in overlap}
      /\ <<x, w>> \notin (IF overlap # {} \/ unsynced \/ mixed THEN {<<r, h>>} ELSE {})
  BY DEF Start, Excuse
<1>2. \A b \in Admins \ {a} : Serving(b) /\ job[b].at = h => b \in Busy(h, a)
  BY Kinds0 DEF Busy, Home, Serving
<1>3. \A b \in Admins \ {a} : Serving(b) /\ job[b].at = h =>
        (job[b].rule = r \/ job[b].op = "import_sdk" \/ op = "import_sdk" => b \in overlap)
  BY <1>2
<1>4. ASSUME x = r
      PROVE  w = h /\ overlap = {} /\ ~unsynced /\ ~mixed
  <2>1. w = h
    BY <1>1, <1>4
  <2> HIDE DEF overlap, unsynced, mixed
  <2> QED
    BY <1>1, <1>4, <2>1
<1>5. ASSUME w = h, NEW b \in overlap
      PROVE  job[b].rule # x
  BY <1>1, <1>5
<1> HIDE DEF overlap
<1> QED
  BY <1>3, <1>4, <1>5

LEMMA BeginTidy ==
  ASSUME Types, Plans, Causes, NEW a \in Admins, NEW h \in Workers, Request(a, h),
         NEW x \in Sdk \cup Custom, NEW w \in Workers, <<x, w>> \notin excused'
  PROVE  Tidy(x, w)'
<1>1. PICK op, r, arg : r \in Sdk \cup Custom /\ Begins(a, h, op, r, arg)
  BY RequestBegins
<1>2. /\ Start(a, h, op, r, arg) /\ Beside({a}) /\ pc'[a] = "commit"
      /\ job'[a] = [op |-> op, rule |-> r, at |-> h, arg |-> arg]
      /\ pc[a] = "idle" /\ pc[h] = "up" /\ UNCHANGED <<dbVars, engVars, snap, off>>
      /\ a \in Processes /\ a \notin Workers
  BY <1>1, Kinds0 DEF Begins, Start, Running
<1>3. Tidy(x, w) /\ Moves
  BY <1>2 DEF Causes, Start, Types
<1>4. SameTables(x) /\ SameEngines(x, w)
  BY <1>2 DEF SameTables, SameEngines, dbVars, engVars, IoActive, CrActive
<1>5. CASE x # r
  <2>1. ASSUME NEW b \in Admins, Asks(b, x), h = w, op = "import_sdk"
        PROVE  FALSE
    <3>1. job[b].at = w /\ b # a
      BY <1>2, <1>3, <2>1 DEF Tidy, Sole, Asks, Serving
    <3> QED
      BY <1>2, <2>1, <3>1, NobodyElse DEF Asks
  <2>2. ~Asks(a, x) /\ ~Asks(a, x)'
    BY <1>2, <1>5 DEF Asks, Serving
  <2>3. ~ReloadingAt(a, w) /\ ~ReloadingAt(a, w)'
    BY <1>2 DEF ReloadingAt, Reloading
  <2>4. Serving(a)' /\ job'[a].at = w /\ job'[a].op = "import_sdk" =>
          \A b \in Admins : ~Asks(b, x)
    BY <1>2, <2>1
  <2> DEFINE G == {a}
  <2>5. G \in SUBSET Processes /\ Beside(G) /\ w \notin G
    BY <1>2
  <2>6. \A b \in G : b = a
    OBVIOUS
  <2> HIDE DEF G
  <2> QED
    BY <1>3, <1>4, <2>2, <2>3, <2>4, <2>5, <2>6, Kept
<1>6. CASE x = r
  <2>1. /\ w = h /\ op # "delete_sdk" /\ (op \in Imports => arg.enabled)
        /\ op \in {"create", "update"} \cup Imports => arg.kind # "both"
        /\ \A b \in Admins \ {a} : Serving(b) /\ job[b].at = w =>
             job[b].rule # x /\ job[b].op # "import_sdk"
    BY <1>2, <1>6, NobodyElse
  <2>2. \A b \in Admins \ {a} : /\ b \in Processes /\ pc'[b] = pc[b] /\ job'[b] = job[b]
                                /\ Serving(b)' <=> Serving(b)
    BY <1>2, Kinds0 DEF Beside, Serving
  <2>3. \A b \in Admins : ~Asks(b, x)
    BY <1>2, <1>3, <2>1 DEF Tidy, Sole, Asks, Serving
  <2>4. \A b \in Admins \ {a} : ~Asks(b, x)'
    BY <2>2, <2>3 DEF Asks
  <2>5. ASSUME NEW p \in Processes, pc[p] \in Starting, Home(p) = w
        PROVE  FALSE
    <3>1. CASE p \in Workers
      BY <1>2, <2>1, <2>5, <3>1 DEF Home, Starting, Reloading
    <3>2. CASE p \in Admins \ {a}
      <4>0. pc[p] \in Reloading
        BY <2>5, <3>2, Kinds0, StartingWorker DEF Types, Starting
      <4>1. Serving(p) /\ job[p].at = w
        BY <2>5, <3>2, <4>0, Kinds0 DEF Serving, Home, Reloading
      <4>2. job[p].op = "import_sdk"
        BY <3>2, <4>0, <4>1 DEF Plans, Plan
      <4> QED
        BY <2>1, <3>2, <4>1, <4>2
    <3> QED
      BY <1>2, <2>5, <3>1, <3>2 DEF Processes, Starting, Reloading
  <2>6. \A p \in Processes : ~ReloadingAt(p, w)'
    <3>1. ASSUME NEW p \in Processes \ {a}, ReloadingAt(p, w)'
          PROVE  pc[p] \in Reloading /\ Home(p) = w
      BY <1>2, <3>1 DEF ReloadingAt, Beside, Home
    <3>2. ~ReloadingAt(a, w)'
      BY <1>2 DEF ReloadingAt, Reloading
    <3> QED
      BY <2>5, <3>1, <3>2 DEF Starting
  <2>7. Sole(x, w)'
    BY <1>2, <2>1, <2>2, <2>4 DEF Sole
  <2>8. Knows(a, x, w)'
    BY <1>1, <1>2, <1>6, <2>1 DEF Knows, Begins, dbVars
  <2>9. ASSUME NEW S, S \subseteq Starting
        PROVE  ~InSync(x, S, w)
    BY <2>3, <2>5, <2>9 DEF InSync
  <2>10. IoSteps(x) \subseteq Starting /\ CrSteps(x) \subseteq Starting
    BY DEF IoSteps, CrSteps, Early, BeforeOff, Starting, Reloading
  <2>11. pc[w] # "down" /\ pc'[w] = pc[w]
    BY <1>2, <2>1, Kinds0 DEF Beside
  <2>12. /\ IoRight(x, w) /\ (x \in CrSdk => CrRight(x, w)) /\ Loaded(x, w)
    BY <1>3, <2>9, <2>10, <2>11 DEF Tidy
  <2>13. IoRight(x, w)' /\ (x \in CrSdk => CrRight(x, w)') /\ Loaded(x, w)'
    BY <1>4, <2>11, <2>12, StillRight DEF Loaded, SameEngines
  <2>14. x \in DOMAIN rows' => rows'[x].kind # "both"
    BY <1>2, <1>3, Zenon DEF Tidy, dbVars
  <2> QED
    BY <2>4, <2>6, <2>7, <2>8, <2>13, <2>14 DEF Tidy
<1> QED
  BY <1>5, <1>6

LEMMA BeginPlans ==
  ASSUME Types, Plans, NEW a \in Admins, NEW h \in Workers, Request(a, h)
  PROVE  Plans'
<1>1. PICK op, r, arg : r \in Sdk \cup Custom /\ Begins(a, h, op, r, arg)
  BY RequestBegins
<1>2. /\ Start(a, h, op, r, arg) /\ Beside({a}) /\ pc'[a] = "commit"
      /\ job'[a] = [op |-> op, rule |-> r, at |-> h, arg |-> arg]
      /\ pc[h] = "up" /\ UNCHANGED io /\ {a} \in SUBSET Processes
      /\ op = "delete" => r \in Custom
  BY <1>1, Kinds0 DEF Begins, Start, Running, engVars
<1>3. \A w \in Workers : pc'[w] = pc[w]
  BY <1>2, Kinds0 DEF Beside
<1>4. IoKinds'
  BY <1>2 DEF Plans, IoKinds
<1>5. Plan(a)'
  BY <1>2, <1>3 DEF Plan, Reloading
<1> QED
  BY <1>2, <1>3, <1>4, <1>5, PlansKept

-----------------------------------------------------------------------------
(***************************************************************************)
(* A request goes on                                                       *)
(***************************************************************************)
SameEntry(f, g, x) == (x \in DOMAIN g <=> x \in DOMAIN f) /\ (x \in DOMAIN f => g[x] = f[x])

LEMMA StillActive ==
  ASSUME NEW x, NEW w, SameEntry(io[w], io'[w], x), SameEntry(scanner[w], scanner'[w], x)
  PROVE  SameEngines(x, w)
<1>1. x \in IoActive(w)' <=> x \in IoActive(w)
  BY DEF SameEntry, IoActive
<1>2. x \in CrActive(w)' <=> x \in CrActive(w)
  BY DEF SameEntry, CrActive
<1> QED
  BY <1>1, <1>2 DEF SameEntry, SameEngines

LEMMA EntriesBeside ==
  ASSUME NEW f, NEW r, NEW x, x # r
  PROVE  /\ SameEntry(f, f, x)
         /\ SameEntry(f, Without(f, r), x)
         /\ \A row : SameEntry(f, With(f, r, row), x)
         /\ \A e : SameEntry(f, SwitchedTo(f, {r}, e), x)
BY DEF SameEntry, Without, With, SwitchedTo, Restrict

LEMMA HandleTables ==
  ASSUME NEW a \in Admins, Handle(a), NEW x, x # job[a].rule
  PROVE  SameTables(x)
<1>1. \/ rows' = rows
      \/ \E row : rows' = With(rows, job[a].rule, row)
      \/ rows' = Without(rows, job[a].rule)
  BY DEF Handle, CommitCreate, CommitUpdate, CommitToggle, CommitDelete, CommitImport,
     CommitImportSdk, Insert, Update, SetEnabled, Refresh, Switch, Remove, Add, dbVars
<1>2. SameEntry(rows, rows', x)
  BY <1>1, EntriesBeside
<1>3. \/ sdkOn' = sdkOn
      \/ sdkOn' = sdkOn \cup {job[a].rule} \/ sdkOn' = sdkOn \ {job[a].rule}
  BY DEF Handle, CommitCreate, CommitUpdate, CommitToggle, CommitDelete, CommitImport,
     CommitImportSdk, Insert, Update, SetEnabled, Refresh, Switch, Remove, Add, dbVars
<1> QED
  BY <1>2, <1>3 DEF SameTables, SameEntry

LEMMA HandleEngines ==
  ASSUME Stores, NEW a \in Admins, Handle(a), NEW x, x # job[a].rule, NEW w \in Workers
  PROVE  SameEngines(x, w)
<1>1. /\ io = [v \in Workers |-> io[v]] /\ scanner = [v \in Workers |-> scanner[v]]
  BY DEF Stores
<1>2. \/ UNCHANGED engVars
      \/ Switch(a) \/ Remove(a) \/ Add(a)
  BY DEF Handle, CommitCreate, CommitUpdate, CommitToggle, CommitDelete, CommitImport,
     CommitImportSdk, Insert, Update, SetEnabled, Refresh
<1>3. \/ io'[w] = io[w]
      \/ \E e : io'[w] = SwitchedTo(io[w], {job[a].rule}, e)
      \/ io'[w] = Without(io[w], job[a].rule)
      \/ \E row : io'[w] = With(io[w], job[a].rule, row)
  <2>1. CASE UNCHANGED engVars
    BY <2>1 DEF engVars
  <2>2. CASE Switch(a)
    BY <1>1, <2>2 DEF Switch
  <2>3. CASE Remove(a)
    BY <1>1, <2>3 DEF Remove
  <2>4. CASE Add(a)
    BY <1>1, <2>4 DEF Add
  <2> QED
    BY <1>2, <2>1, <2>2, <2>3, <2>4
<1>4. \/ scanner'[w] = scanner[w]
      \/ \E e : scanner'[w] = SwitchedTo(scanner[w], {job[a].rule}, e)
  <2>1. CASE UNCHANGED engVars
    BY <2>1 DEF engVars
  <2>2. CASE Switch(a)
    BY <1>1, <2>2 DEF Switch
  <2>3. CASE Remove(a) \/ Add(a)
    BY <2>3 DEF Remove, Add
  <2> QED
    BY <1>2, <2>1, <2>2, <2>3
<1>5. SameEntry(io[w], io'[w], x)
  BY <1>3, EntriesBeside
<1>6. SameEntry(scanner[w], scanner'[w], x)
  BY <1>4, EntriesBeside
<1> QED
  BY <1>5, <1>6, StillActive

LEMMA HandleBeside ==
  ASSUME Types, NEW a \in Admins, Handle(a)
  PROVE  /\ a \in Processes /\ a \notin Workers /\ Serving(a) /\ pc[a] \notin Reloading
         /\ pc[a] # "bundles"
         /\ job[a] \in Job /\ job[a].at \in Workers /\ job[a].rule \in Sdk \cup Custom
         /\ Beside({a}) /\ UNCHANGED excused
         /\ \/ pc'[a] = "idle"
            \/ job' = job /\ pc'[a] \in Syncing \cup {"load"}
<1>1. /\ a \in Processes /\ a \notin Workers /\ Serving(a) /\ pc[a] \notin Reloading
      /\ pc[a] # "bundles"
  BY Kinds0 DEF Handle, CommitCreate, CommitUpdate, CommitToggle, CommitDelete, CommitImport,
     CommitImportSdk, Insert, Update, Committing, Refresh, Switch, Remove, Add, Reloading,
     Serving
<1>2. job[a] \in Job
  BY <1>1 DEF Types, Moves, Busied, Serving
<1>3. UNCHANGED excused
  BY DEF Handle, CommitCreate, CommitUpdate, CommitToggle, CommitDelete, CommitImport,
     CommitImportSdk, Insert, Update, SetEnabled, Refresh, Switch, Remove, Add, TablesChange,
     EngineChange, histVars
<1>4. \/ End(a)
      \/ /\ UNCHANGED <<snap, off>>
         /\ seen' = seen \/ \E row : seen' = [seen EXCEPT ![a] = row]
         /\ \E step \in Syncing \cup {"load"} : Goto(a, step)
  BY DEF Handle, CommitCreate, CommitUpdate, CommitToggle, CommitDelete, CommitImport,
     CommitImportSdk, Insert, Update, SetEnabled, Refresh, Switch, Remove, Add, Syncing
<1>5. CASE End(a)
  BY <1>1, <1>2, <1>3, <1>5, EndBeside, JobsAre
<1>6. CASE ~End(a)
  <2>1. PICK step \in Syncing \cup {"load"} : Goto(a, step)
    BY <1>4, <1>6
  <2>2. /\ \A q \in Processes \ {a} : pc'[q] = pc[q]
        /\ job' = job /\ pc'[a] = step
    BY <1>1, <2>1, GotoBeside
  <2>3. \A q \in Processes \ {a} : seen'[q] = seen[q] /\ snap'[q] = snap[q] /\ off'[q] = off[q]
    BY <1>4, <1>6 DEF Types, Stores
  <2> QED
    BY <1>1, <1>2, <1>3, <2>2, <2>3, JobsAre DEF Beside
<1> QED
  BY <1>5, <1>6

\* Rules a request is not about.
LEMMA HandleOther ==
  ASSUME Types, NEW a \in Admins, Handle(a), NEW x, x # job[a].rule, NEW w \in Workers, Tidy(x, w)
  PROVE  Tidy(x, w)'
<1>1. /\ a \in Processes /\ a \notin Workers /\ Serving(a) /\ pc[a] \notin Reloading
      /\ Beside({a})
      /\ \/ pc'[a] = "idle"
         \/ job' = job /\ pc'[a] \in Syncing \cup {"load"}
  BY HandleBeside
<1>2. SameTables(x) /\ SameEngines(x, w)
  BY HandleTables, HandleEngines DEF Types
<1>3. ~Asks(a, x) /\ ~Asks(a, x)'
  BY <1>1 DEF Asks, Serving
<1>4. ~ReloadingAt(a, w) /\ (ReloadingAt(a, w)' => pc'[a] = "load")
  BY <1>1 DEF ReloadingAt, Reloading, Syncing
<1>5. Serving(a)' => Serving(a) /\ job'[a] = job[a]
  BY <1>1 DEF Serving
<1> DEFINE G == {a}
<1>6. G \in SUBSET Processes /\ Beside(G) /\ w \notin G
  BY <1>1
<1>7. \A b \in G : b = a
  OBVIOUS
<1> HIDE DEF G
<1> QED
  BY <1>2, <1>3, <1>4, <1>5, <1>6, <1>7, Kept DEF Types

\* A request about x has it, and the engines of w, to itself.
LEMMA AloneAt ==
  ASSUME Types, Plans, NEW x, NEW w \in Workers, Sole(x, w),
         NEW a \in Admins, Asks(a, x), pc[a] \notin Reloading
  PROVE  /\ w = job[a].at /\ pc[w] = "up"
         /\ \A p \in Processes : ~(pc[p] \in Starting /\ Home(p) = w)
         /\ \A b \in Admins \ {a} : ~Asks(b, x)
<1>1. w = job[a].at /\ pc[w] = "up"
  BY DEF Sole, Plans, Plan, Asks
<1>2. \A b \in Admins \ {a} : ~Asks(b, x)
  BY <1>1 DEF Sole, Asks
<1>3. ASSUME NEW p \in Processes, pc[p] \in Starting, Home(p) = w
      PROVE  FALSE
  <2>1. CASE p \in Workers
    BY <1>1, <1>3, <2>1 DEF Home, Starting, Reloading
  <2>2. CASE p \in Admins
    <3>0. pc[p] \in Reloading /\ p # a
      BY <1>3, <2>2, Kinds0, StartingWorker DEF Types, Starting
    <3>1. Serving(p) /\ job[p].at = w
      BY <1>3, <2>2, <3>0, Kinds0 DEF Serving, Home, Reloading
    <3>2. job[p].op = "import_sdk"
      BY <2>2, <3>0, <3>1 DEF Plans, Plan
    <3> QED
      BY <2>2, <3>0, <3>1, <3>2 DEF Sole
  <2> QED
    BY <1>3, <2>1, <2>2 DEF Processes
<1> QED
  BY <1>1, <1>2, <1>3

LEMMA OwnTidy ==
  ASSUME Types, Plans, NEW a \in Admins, Handle(a), NEW x, x = job[a].rule,
         NEW w \in Workers, Tidy(x, w),
         x \in DOMAIN rows' => rows'[x].kind # "both",
         pc'[a] # "idle" => Knows(a, x, w)',
         pc'[a] = "idle" => IoRight(x, w)' /\ (x \in CrSdk => CrRight(x, w)'),
         x \in IoSdk /\ x \in DOMAIN io[w] => x \in DOMAIN io'[w],
         x \in CrSdk /\ x \in DOMAIN scanner[w] => x \in DOMAIN scanner'[w]
  PROVE  Tidy(x, w)'
<1>1. /\ a \in Processes /\ a \notin Workers /\ Serving(a) /\ pc[a] \notin Reloading
      /\ Beside({a})
      /\ \/ pc'[a] = "idle"
         \/ job' = job /\ pc'[a] \in Syncing \cup {"load"}
  BY HandleBeside
<1>2. Asks(a, x) /\ Sole(x, w)
  BY <1>1, Zenon DEF Asks, Tidy
<1>3. /\ w = job[a].at /\ pc[w] = "up"
      /\ \A p \in Processes : ~(pc[p] \in Starting /\ Home(p) = w)
      /\ \A b \in Admins \ {a} : ~Asks(b, x)
  BY <1>1, <1>2, AloneAt
<1>4. /\ pc'[w] = pc[w]
      /\ \A b \in Admins \ {a} : /\ pc'[b] = pc[b] /\ job'[b] = job[b]
                                 /\ Serving(b)' <=> Serving(b)
      /\ \A p \in Processes \ {a} : Home(p)' = Home(p) /\ pc'[p] = pc[p]
  BY <1>1, Kinds0 DEF Beside, Serving, Home
<1>5. \A b \in Admins \ {a} : ~Asks(b, x)'
  BY <1>3, <1>4 DEF Asks
<1>6. Sole(x, w)'
  <2>1. Asks(a, x)' => job'[a] = job[a]
    BY <1>1 DEF Asks, Serving
  <2> QED
    BY <1>2, <1>4, <1>5, <2>1 DEF Sole
<1>7. \A p \in Processes : ReloadingAt(p, w)' => Reads(x, p)'
  <2>1. ASSUME NEW p \in Processes, ReloadingAt(p, w)'
        PROVE  p = a /\ pc'[a] = "load"
    <3>1. p = a
      BY <1>3, <1>4, <2>1 DEF ReloadingAt, Starting
    <3> QED
      BY <1>1, <2>1, <3>1 DEF ReloadingAt, Reloading, Syncing
  <2> QED
    BY <2>1 DEF Reads
<1>8. \A b \in Admins : Asks(b, x)' => Knows(b, x, w)'
  BY <1>5 DEF Asks, Serving
<1>9. ASSUME pc'[a] # "idle"
      PROVE  \/ \E b \in Admins : Asks(b, x)' /\ pc'[b] \in Syncing
             \/ \E p \in Processes : pc'[p] = "load" /\ Home(p)' = w
  <2>1. job' = job
    BY <1>1, <1>9
  <2>2. CASE pc'[a] \in Syncing
    BY <1>2, <1>9, <2>1, <2>2 DEF Asks, Serving
  <2>3. CASE pc'[a] = "load"
    BY <1>1, <1>3, <2>1, <2>3 DEF Home
  <2> QED
    BY <1>1, <1>9, <2>2, <2>3
<1>10. "load" \in IoSteps(x)' /\ "load" \in CrSteps(x)'
  BY DEF IoSteps, CrSteps, Early, BeforeOff
<1>11. /\ (IoRight(x, w) \/ InSync(x, IoSteps(x), w))'
       /\ x \in CrSdk => (CrRight(x, w) \/ InSync(x, CrSteps(x), w))'
  <2>1. CASE pc'[a] = "idle"
    BY <2>1
  <2>2. CASE pc'[a] # "idle"
    <3>1. InSync(x, IoSteps(x), w)'
      BY <1>9, <1>10, <2>2 DEF InSync
    <3>2. InSync(x, CrSteps(x), w)'
      BY <1>9, <1>10, <2>2 DEF InSync
    <3> QED
      BY <3>1, <3>2
  <2> QED
    BY <2>1, <2>2
<1>12. Loaded(x, w)'
  BY <1>3, <1>4 DEF Tidy, Loaded
<1> QED
  BY <1>6, <1>7, <1>8, <1>11, <1>12 DEF Tidy

\* What is known of x and w when its request has read a row and not yet written.
LEMMA OwnKnown ==
  ASSUME Types, Plans, NEW a \in Admins, Handle(a), NEW x, x = job[a].rule,
         NEW w \in Workers, Tidy(x, w)
  PROVE  /\ w = job[a].at /\ Knows(a, x, w) /\ Plan(a) /\ Loaded(x, w) /\ pc[w] = "up"
         /\ pc[a] = "commit" => IoRight(x, w) /\ (x \in CrSdk => CrRight(x, w))
<1>1. Serving(a) /\ pc[a] \notin Reloading
  BY HandleBeside
<1>2. Asks(a, x) /\ Sole(x, w)
  BY <1>1, Zenon DEF Asks, Tidy
<1>3. /\ w = job[a].at /\ pc[w] = "up"
      /\ \A p \in Processes : ~(pc[p] \in Starting /\ Home(p) = w)
      /\ \A b \in Admins \ {a} : ~Asks(b, x)
  BY <1>1, <1>2, AloneAt
<1>4. Knows(a, x, w) /\ Plan(a) /\ Loaded(x, w)
  BY <1>1, <1>2, <1>3 DEF Tidy, Plans
<1>5. ASSUME pc[a] = "commit", NEW S, S \subseteq Starting
      PROVE  ~InSync(x, S, w)
  <2>1. pc[a] \notin Syncing
    BY <1>5 DEF Syncing
  <2> QED
    BY <1>3, <1>5, <2>1 DEF InSync
<1>6. IoSteps(x) \subseteq Starting /\ CrSteps(x) \subseteq Starting
  BY DEF IoSteps, CrSteps, Early, BeforeOff, Starting, Reloading
<1>7. pc[a] = "commit" => IoRight(x, w) /\ (x \in CrSdk => CrRight(x, w))
  BY <1>3, <1>5, <1>6 DEF Tidy
<1> QED
  BY <1>3, <1>4, <1>7

LEMMA WantedIs ==
  ASSUME Stores, NEW x
  PROVE  /\ x \in Custom => (x \in IoWanted <=> /\ x \in DOMAIN rows
                                                /\ rows[x].kind = "io"
                                                /\ rows[x].enabled /\ rows[x].pattern)
         /\ x \in Sdk => (x \in IoWanted <=> x \in IoSdk /\ x \in sdkOn)
<1>1. x \in Custom => x \notin IoSdk
  BY ConstantsAssumption DEF Sdk
<1>2. x \in Sdk => x \notin DOMAIN rows
  BY ConstantsAssumption, RulesAre DEF Stores
<1> QED
  BY <1>1, <1>2 DEF IoWanted, Wanted

LEMMA Entries ==
  ASSUME NEW f, NEW x
  PROVE  /\ x \notin DOMAIN Without(f, x)
         /\ \A row : x \in DOMAIN With(f, x, row) /\ With(f, x, row)[x] = row
BY DEF Without, With, Restrict

LEMMA UpdatedRow ==
  ASSUME NEW row \in Row, NEW read \in Row, NEW new \in Row
  PROVE  /\ Updated(row, read, new).kind \in {row.kind, new.kind}
         /\ read = row => /\ Updated(row, read, new).enabled = new.enabled
                          /\ Updated(row, read, new).pattern = new.pattern
BY DEF Updated, Written, Row

LEMMA CommitOwn ==
  ASSUME Types, Plans, NEW a \in Admins, Handle(a), pc[a] = "commit",
         NEW x, x = job[a].rule, NEW w \in Workers, Tidy(x, w)
  PROVE  Tidy(x, w)'
<1>1. /\ a \in Processes /\ a \notin Workers /\ job[a] \in Job
      /\ (pc'[a] = "idle" \/ job' = job)
      /\ Stores /\ Stores'
  BY HandleBeside, StoreStep DEF Types, Next, Calm
<1>2. /\ w = job[a].at /\ Knows(a, x, w) /\ Plan(a)
      /\ IoRight(x, w) /\ (x \in CrSdk => CrRight(x, w))
  BY OwnKnown
<1>3. UNCHANGED engVars /\ IoActive(w)' = IoActive(w) /\ CrActive(w)' = CrActive(w)
  <2>1. UNCHANGED engVars
    BY DEF Handle, CommitCreate, CommitUpdate, CommitToggle, CommitDelete, CommitImport,
       CommitImportSdk, Insert, Update, SetEnabled, Committing, Refresh, Switch, Remove, Add
  <2> QED
    BY <2>1 DEF engVars, IoActive, CrActive
<1>4. SUFFICES /\ x \in DOMAIN rows' => rows'[x].kind # "both"
               /\ pc'[a] # "idle" => Knows(a, x, w)'
               /\ pc'[a] = "idle" => IoRight(x, w)' /\ (x \in CrSdk => CrRight(x, w)')
  BY <1>3, OwnTidy DEF engVars
<1>5. ASSUME NEW step, Goto(a, step)
      PROVE  pc'[a] = step /\ job' = job
  BY <1>1, <1>5, GotoBeside
<1>6. x \in DOMAIN rows => rows[x].kind # "both"
  BY Zenon DEF Tidy
<1>7. ASSUME End(a), UNCHANGED dbVars
      PROVE  /\ pc'[a] = "idle" /\ rows' = rows
             /\ IoRight(x, w)' /\ (x \in CrSdk => CrRight(x, w)')
  <2>1. IoWanted' = IoWanted /\ sdkOn' = sdkOn
    BY <1>7 DEF dbVars, IoWanted, Wanted
  <2> QED
    BY <1>1, <1>2, <1>3, <1>7, <2>1, EndBeside DEF IoRight, CrRight, dbVars
<1>8. /\ x \in Custom => (x \in IoWanted <=> /\ x \in DOMAIN rows
                                             /\ rows[x].kind = "io"
                                             /\ rows[x].enabled /\ rows[x].pattern)
      /\ x \in Sdk => x \notin DOMAIN rows
  <2>1. DOMAIN rows \subseteq Custom
    BY <1>1, RulesAre DEF Stores
  <2> QED
    BY <1>1, <2>1, WantedIs, ConstantsAssumption
<1>9. ASSUME NEW op \in {"create", "import_new"}, Insert(a, op)
      PROVE  /\ x \in DOMAIN rows' => rows'[x].kind # "both"
             /\ pc'[a] # "idle" => Knows(a, x, w)'
             /\ pc'[a] = "idle" => IoRight(x, w)' /\ (x \in CrSdk => CrRight(x, w)')
  <2>1. /\ x \in Custom /\ job[a].op = op /\ job[a].arg.kind # "both"
        /\ op \in Imports => job[a].arg.enabled
    BY <1>1, <1>2, <1>9, JobsAre DEF Insert, Committing, Knows, Imports
  <2>2. CASE x \in DOMAIN rows
    BY <1>6, <1>7, <1>9, <2>2 DEF Insert, dbVars
  <2>3. CASE x \notin DOMAIN rows
    <3>1. rows' = With(rows, x, job[a].arg) /\ Goto(a, "refresh")
      BY <1>9, <2>3 DEF Insert
    <3>2. pc'[a] = "refresh" /\ job' = job /\ x \in DOMAIN rows' /\ rows'[x] = job[a].arg
      <4>1. pc'[a] = "refresh" /\ job' = job
        BY <1>5, <3>1
      <4>2. x \in DOMAIN With(rows, x, job[a].arg) /\ With(rows, x, job[a].arg)[x] = job[a].arg
        BY DEF With
      <4> QED
        BY <3>1, <4>1, <4>2
    <3>3. x \notin IoActive(w)'
      BY <1>2, <1>3, <1>8, <2>1, <2>3 DEF IoRight
    <3>4. Knows(a, x, w)'
      BY <2>1, <3>2, <3>3 DEF Knows, Imports
    <3> QED
      BY <2>1, <3>2, <3>4
  <2> QED
    BY <2>2, <2>3
<1>10. ASSUME NEW op \in {"update", "import"}, Update(a, op)
       PROVE  /\ x \in DOMAIN rows' => rows'[x].kind # "both"
              /\ pc'[a] # "idle" => Knows(a, x, w)'
              /\ pc'[a] = "idle" => IoRight(x, w)' /\ (x \in CrSdk => CrRight(x, w)')
  <2>1. /\ x \in Custom /\ job[a].op = op /\ job[a].arg \in Row /\ job[a].arg.kind # "both"
        /\ op \in Imports => job[a].arg.enabled
        /\ op = "import" => seen[a] = rows[x] /\ job[a].arg.pattern = rows[x].pattern
    BY <1>1, <1>2, <1>10, JobsAre DEF Update, Committing, Knows, Imports
  <2>2. CASE x \notin DOMAIN rows
    BY <1>7, <1>10, <2>2 DEF Update, dbVars
  <2>3. CASE x \in DOMAIN rows
    <3> DEFINE new == Updated(rows[x], seen[a], job[a].arg)
    <3>1. rows' = With(rows, x, new) /\ Goto(a, "refresh")
      BY <1>10, <2>3 DEF Update
    <3>2. rows[x] \in Row /\ seen[a] \in Row
      BY <1>1, <2>3, RulesAre DEF Stores
    <3>3. /\ new.kind # "both"
          /\ op = "import" => new.enabled /\ new.pattern = rows[x].pattern
      BY <1>6, <2>1, <2>3, <3>2, UpdatedRow DEF Imports
    <3> HIDE DEF new
    <3>4. pc'[a] = "refresh" /\ job' = job /\ x \in DOMAIN rows' /\ rows'[x] = new
      <4>1. pc'[a] = "refresh" /\ job' = job
        BY <1>5, <3>1
      <4>2. x \in DOMAIN With(rows, x, new) /\ With(rows, x, new)[x] = new
        BY DEF With
      <4> QED
        BY <3>1, <4>1, <4>2
    <3>5. op = "import" /\ ~rows'[x].pattern => x \notin IoActive(w)'
      BY <1>2, <1>3, <1>8, <2>1, <3>3, <3>4 DEF IoRight
    <3>6. Knows(a, x, w)'
      BY <2>1, <3>3, <3>4, <3>5 DEF Knows, Imports
    <3> QED
      BY <3>3, <3>4, <3>6
  <2> QED
    BY <2>2, <2>3
<1>11. CASE CommitToggle(a)
  <2>1. pc'[a] = "refresh" /\ job' = job /\ job[a].op = "toggle" /\ rows' = rows
    BY <1>5, <1>11 DEF CommitToggle, SetEnabled, Committing
  <2> QED
    BY <1>6, <2>1 DEF Knows, Imports
<1>12. CASE CommitDelete(a)
  <2>1. Committing(a, "delete") /\ rows' = Without(rows, x) /\ Goto(a, "remove")
    BY <1>2, <1>12 DEF CommitDelete, Knows, Committing
  <2>2. pc'[a] = "remove" /\ job' = job /\ job[a].op = "delete" /\ x \notin DOMAIN rows'
    BY <1>5, <2>1, Entries DEF Committing
  <2> QED
    BY <2>2 DEF Knows, Imports
<1>13. CASE CommitImportSdk(a)
  <2>1. pc'[a] = "load" /\ job' = job /\ job[a].op = "import_sdk" /\ rows' = rows
    BY <1>5, <1>13 DEF CommitImportSdk, SetEnabled, Committing
  <2> QED
    BY <1>6, <2>1 DEF Knows, Imports
<1> QED
  BY <1>9, <1>10, <1>11, <1>12, <1>13 DEF Handle, CommitCreate, CommitUpdate, CommitImport,
     Refresh, Switch, Remove, Add

LEMMA SyncOwn ==
  ASSUME Types, Plans, NEW a \in Admins, Handle(a), pc[a] # "commit",
         NEW x, x = job[a].rule, NEW w \in Workers, Tidy(x, w)
  PROVE  Tidy(x, w)'
<1>1. /\ a \in Processes /\ a \notin Workers /\ job[a] \in Job
      /\ Stores /\ Stores'
  BY HandleBeside, StoreStep DEF Types, Next, Calm
<1>2. /\ w = job[a].at /\ Knows(a, x, w) /\ Plan(a) /\ Loaded(x, w) /\ pc[w] = "up"
  BY OwnKnown
<1>3. UNCHANGED dbVars
  BY DEF Handle, CommitCreate, CommitUpdate, CommitToggle, CommitDelete, CommitImport,
     CommitImportSdk, Insert, Update, Committing, Refresh, Switch, Remove, Add
<1>4. ASSUME NEW step, Goto(a, step)
      PROVE  pc'[a] = step /\ job' = job
  BY <1>1, <1>4, GotoBeside
<1>5. ASSUME End(a)
      PROVE  pc'[a] = "idle"
  BY <1>1, <1>5, EndBeside
<1>6. /\ io[w] \in Rules(IoSdk \cup Custom) /\ scanner[w] \in Rules(CrSdk \cup Custom)
      /\ seen[a] \in Row /\ io \in [Workers -> Rules(IoSdk \cup Custom)]
      /\ scanner \in [Workers -> Rules(CrSdk \cup Custom)]
      /\ seen \in [Processes -> Row]
  BY <1>1 DEF Stores
<1>7. /\ x \in Custom => x \notin IoSdk /\ x \notin CrSdk
      /\ x \in Sdk <=> x \in IoSdk \/ x \in CrSdk
      /\ x \in Sdk => x \notin Custom
      /\ x \in IoSdk => x \notin CrSdk
  BY ConstantsAssumption DEF Sdk
<1>8. /\ x \in Custom => (x \in IoWanted' <=> /\ x \in DOMAIN rows
                                              /\ rows[x].kind = "io"
                                              /\ rows[x].enabled /\ rows[x].pattern)
      /\ x \in Sdk => (x \in IoWanted' <=> x \in IoSdk /\ x \in sdkOn)
  <2>1. IoWanted' = IoWanted
    BY <1>3 DEF dbVars, IoWanted, Wanted
  <2> QED
    BY <1>1, <2>1, WantedIs
<1>9. x \in DOMAIN rows' => rows'[x].kind # "both"
  BY <1>3, Zenon DEF Tidy, dbVars
<1>10. CASE Refresh(a)
  <2>1. UNCHANGED engVars /\ IoActive(w)' = IoActive(w)
    BY <1>10 DEF Refresh, engVars, IoActive
  <2>2. pc[a] = "refresh"
    BY <1>10 DEF Refresh
  <2>3. CASE x \in Sdk
    <3>1. job[a].op = "toggle"
      BY <1>1, <1>2, <1>7, <2>2, <2>3, JobsAre DEF Plan, Imports
    <3>2. seen' = [seen EXCEPT ![a].enabled = x \in sdkOn] /\ Goto(a, "switch")
      BY <1>1, <1>7, <1>10, <2>3, RulesAre DEF Refresh, Stores
    <3>3. seen'[a].enabled = (x \in sdkOn)
      <4>1. seen'[a] = [seen[a] EXCEPT !.enabled = x \in sdkOn]
        BY <1>1, <1>6, <3>2
      <4> QED
        BY <1>6, <4>1, EnabledIsRow
    <3>4. pc'[a] = "switch" /\ job' = job /\ sdkOn' = sdkOn
      BY <1>3, <1>4, <3>2 DEF dbVars
    <3>5. Knows(a, x, w)'
      BY <3>1, <3>3, <3>4 DEF Knows, Imports
    <3> QED
      BY <2>1, <3>4, <3>5, <1>9, OwnTidy DEF engVars
  <2>4. CASE x \in Custom
    <3>1. /\ job[a].op \in {"create", "update"} \cup Imports /\ x \in DOMAIN rows
          /\ job[a].op \in Imports => rows[x].enabled
          /\ job[a].arg.kind # "both"
          /\ job[a].op # "update" /\ ~rows[x].pattern => x \notin IoActive(w)
      BY <1>1, <1>2, <1>7, <2>2, <2>4, JobsAre DEF Plan, Knows
    <3>2. /\ seen' = [seen EXCEPT ![a] = rows[x]]
          /\ Goto(a, IF job[a].op = "update" THEN "remove" ELSE "add")
      BY <1>7, <1>10, <2>4, <3>1 DEF Refresh
    <3>3. /\ pc'[a] = IF job[a].op = "update" THEN "remove" ELSE "add"
          /\ job' = job /\ rows' = rows /\ seen'[a] = rows[x]
      BY <1>1, <1>3, <1>4, <1>6, <3>2 DEF dbVars
    <3>4. Knows(a, x, w)'
      <4>1. CASE job[a].op = "update"
        BY <3>1, <3>3, <4>1 DEF Knows, Imports
      <4>2. CASE job[a].op # "update"
        <5>1. pc'[a] = "add" /\ (~seen'[a].pattern => x \notin IoActive(w)')
          BY <2>1, <3>1, <3>3, <4>2
        <5>2. job'[a].op # "delete_sdk" /\ (job'[a].op \in Imports => job'[a].arg.enabled)
          BY <1>2, <3>3 DEF Knows
        <5> QED
          BY <3>1, <3>3, <5>1, <5>2 DEF Knows
      <4> QED
        BY <4>1, <4>2
    <3> QED
      BY <2>1, <3>3, <3>4, <1>9, OwnTidy DEF engVars
  <2> QED
    BY <1>1, <2>3, <2>4, JobsAre
<1>11. CASE Switch(a)
  <2>1. /\ job[a].op = "toggle" /\ (seen[a].enabled <=> x \in sdkOn)
    BY <1>2, <1>11 DEF Switch, Plan, Knows
  <2>2. x \in Sdk
    BY <1>1, <2>1, JobsAre
  <2>3. /\ io'[w] = SwitchedTo(io[w], {x}, seen[a].enabled)
        /\ scanner'[w] = IF x \in DOMAIN io[w] THEN scanner[w]
                         ELSE SwitchedTo(scanner[w], {x}, seen[a].enabled)
        /\ pc'[a] = "idle" /\ sdkOn' = sdkOn
    BY <1>2, <1>3, <1>5, <1>6, <1>11 DEF Switch, dbVars
  <2>4. seen[a].enabled \in BOOLEAN
    BY <1>6 DEF Row
  <2>5. CASE x \in IoSdk
    <3>1. x \in DOMAIN io[w] /\ io[w][x].kind = "io"
      BY <1>2, <2>5 DEF Loaded, Plans, IoKinds, Early
    <3>2. x \in DOMAIN io'[w] /\ io'[w][x].kind = "io" /\ io'[w][x].enabled = seen[a].enabled
      BY <1>6, <2>3, <2>4, <3>1, SwitchedEntry
    <3>3. x \in IoActive(w)' <=> seen[a].enabled
      BY <3>2 DEF IoActive
    <3>4. IoRight(x, w)'
      BY <1>8, <2>1, <2>2, <2>5, <3>3 DEF IoRight
    <3> QED
      BY <1>7, <2>3, <2>5, <3>2, <3>4, <1>9, OwnTidy
  <2>6. CASE x \in CrSdk
    <3>1. x \in DOMAIN scanner[w] /\ x \notin DOMAIN io[w]
      BY <1>2, <1>6, <1>7, <2>2, <2>6, RulesAre DEF Loaded
    <3>2. x \in DOMAIN scanner'[w] /\ scanner'[w][x].enabled = seen[a].enabled
      BY <1>6, <2>3, <2>4, <3>1, SwitchedEntry
    <3>3. x \in CrActive(w)' <=> seen[a].enabled
      BY <3>2 DEF CrActive
    <3>4. CrRight(x, w)'
      BY <2>1, <2>3, <3>3 DEF CrRight
    <3>5. x \notin IoActive(w)'
      BY <2>3, <3>1 DEF IoActive, SwitchedTo
    <3>6. IoRight(x, w)'
      BY <1>7, <1>8, <2>2, <2>6, <3>5 DEF IoRight
    <3> QED
      BY <1>7, <2>3, <2>6, <3>2, <3>4, <3>6, <1>9, OwnTidy
  <2> QED
    BY <1>7, <2>2, <2>5, <2>6
<1>12. CASE Remove(a)
  <2>1. job[a].op \in {"update", "delete"} /\ x \in Custom
    BY <1>1, <1>2, <1>12, JobsAre DEF Remove, Plan
  <2>2. io'[w] = Without(io[w], x) /\ UNCHANGED scanner
    BY <1>2, <1>6, <1>12 DEF Remove
  <2>3. x \notin IoActive(w)'
    BY <2>2, Entries DEF IoActive
  <2>4. CASE job[a].op = "update" /\ seen[a].enabled
    <3>1. pc'[a] = "add" /\ job' = job /\ rows' = rows /\ seen' = seen
      BY <1>3, <1>4, <1>12, <2>4 DEF Remove, dbVars
    <3>2. x \in DOMAIN rows /\ seen[a] = rows[x]
      BY <1>2, <1>12, <2>4 DEF Knows, Remove
    <3>3. Knows(a, x, w)'
      BY <1>2, <2>3, <2>4, <3>1, <3>2 DEF Knows, Imports
    <3> QED
      BY <1>7, <2>1, <3>1, <3>3, <1>9, OwnTidy
  <2>5. CASE ~(job[a].op = "update" /\ seen[a].enabled)
    <3>1. pc'[a] = "idle"
      BY <1>5, <1>12, <2>5 DEF Remove
    <3>2. x \in DOMAIN rows => ~rows[x].enabled
      BY <1>2, <1>12, <2>1, <2>5 DEF Knows, Remove
    <3>3. IoRight(x, w)'
      BY <1>8, <2>1, <2>3, <3>2 DEF IoRight
    <3> QED
      BY <1>7, <2>1, <3>1, <3>3, <1>9, OwnTidy
  <2> QED
    BY <2>4, <2>5
<1>13. CASE Add(a)
  <2>1. /\ x \in Custom /\ x \in DOMAIN rows /\ seen[a] = rows[x]
        /\ ~seen[a].pattern => x \notin IoActive(w)
    BY <1>1, <1>2, <1>13, JobsAre DEF Add, Plan, Knows, Imports
  <2>2. /\ io'[w] = IF seen[a].pattern THEN With(io[w], x, seen[a]) ELSE io[w]
        /\ pc'[a] = "idle"
    BY <1>2, <1>5, <1>6, <1>13 DEF Add
  <2>3. IoRight(x, w)'
    <3>1. CASE seen[a].pattern
      <4>1. x \in DOMAIN io'[w] /\ io'[w][x] = rows[x]
        BY <2>1, <2>2, <3>1 DEF With
      <4>2. rows[x].kind # "both" /\ rows[x] \in Row
        BY <1>1, <2>1, RulesAre, Zenon DEF Tidy, Stores
      <4>3. x \in IoActive(w)' <=> rows[x].enabled /\ rows[x].kind = "io"
        BY <4>1, <4>2 DEF IoActive, Row
      <4> QED
        BY <1>8, <2>1, <3>1, <4>3 DEF IoRight
    <3>2. CASE ~seen[a].pattern
      <4>1. IoActive(w)' = IoActive(w)
        BY <2>2, <3>2 DEF IoActive
      <4> QED
        BY <1>8, <2>1, <3>2, <4>1 DEF IoRight
    <3> QED
      BY <3>1, <3>2
  <2> QED
    BY <1>7, <2>1, <2>2, <2>3, <1>9, OwnTidy
<1> QED
  BY <1>10, <1>11, <1>12, <1>13 DEF Handle, CommitCreate, CommitUpdate, CommitToggle,
     CommitDelete, CommitImport, CommitImportSdk, Insert, Update, Committing

LEMMA HandleTidy ==
  ASSUME Types, Plans, Causes, NEW a \in Admins, Handle(a),
         NEW x \in Sdk \cup Custom, NEW w \in Workers, <<x, w>> \notin excused'
  PROVE  Tidy(x, w)'
<1>1. Tidy(x, w)
  BY HandleBeside DEF Causes
<1> QED
  BY <1>1, HandleOther, CommitOwn, SyncOwn

LEMMA HandlePlans ==
  ASSUME Types, Plans, NEW a \in Admins, Handle(a)
  PROVE  Plans'
<1>1. /\ a \in Processes /\ a \notin Workers /\ Serving(a) /\ pc[a] \notin Reloading
      /\ job[a] \in Job /\ Beside({a}) /\ {a} \in SUBSET Processes
      /\ Plan(a) /\ Stores
  BY HandleBeside DEF Plans, Types
<1>2. \A w \in Workers : pc'[w] = pc[w]
  BY <1>1, Kinds0 DEF Beside
<1>3. IoKinds'
  <2>1. CASE UNCHANGED io
    BY <2>1 DEF Plans, IoKinds
  <2>2. CASE Switch(a)
    <3>1. seen[a].enabled \in BOOLEAN
      BY <1>1 DEF Stores, Row
    <3> QED
      BY <1>1, <2>2, <3>1, JobsAre, SwitchedKinds DEF Switch, Plans
  <2>3. CASE Remove(a) \/ Add(a)
    <3>1. job[a].rule \in Custom /\ job[a].rule \notin IoSdk
      BY <1>1, <2>3, JobsAre, ConstantsAssumption DEF Remove, Add, Plan, Sdk, Imports
    <3>2. ASSUME NEW w \in Workers, NEW y \in DOMAIN io'[w] \cap IoSdk
          PROVE  io'[w][y].kind = "io"
      <4>1. \/ io'[w] = io[w]
            \/ io'[w] = Without(io[w], job[a].rule)
            \/ \E row : io'[w] = With(io[w], job[a].rule, row)
        BY <1>1, <2>3 DEF Remove, Add, Stores
      <4>2. SameEntry(io[w], io'[w], y)
        BY <3>1, <3>2, <4>1, EntriesBeside
      <4> QED
        BY <3>2, <4>2 DEF SameEntry, Plans, IoKinds
    <3> QED
      BY <3>2 DEF IoKinds
  <2> QED
    BY <2>1, <2>2, <2>3 DEF Handle, CommitCreate, CommitUpdate, CommitToggle, CommitDelete,
       CommitImport, CommitImportSdk, Insert, Update, SetEnabled, Refresh, engVars
<1>4. ASSUME Serving(a)'
      PROVE  Plan(a)'
  <2>1. /\ pc'[a] = "refresh" => job[a].op \in {"create", "update", "toggle"} \cup Imports
        /\ pc'[a] = "switch" => job[a].op = "toggle"
        /\ pc'[a] = "remove" => job[a].op \in {"update", "delete"}
        /\ pc'[a] = "add" => job[a].op \in {"create", "update"} \cup Imports
        /\ pc'[a] \in Reloading => job[a].op = "import_sdk"
    <3>1. ASSUME NEW step, Goto(a, step)
          PROVE  pc'[a] = step
      BY <1>1, <3>1, GotoBeside
    <3>2. End(a) => pc'[a] = "idle"
      BY <1>1, EndBeside
    <3>3. ~End(a)
      BY <1>4, <3>2 DEF Serving
    <3>4. CASE CommitCreate(a) \/ CommitUpdate(a) \/ CommitToggle(a) \/ CommitImport(a)
      BY <3>1, <3>3, <3>4 DEF CommitCreate, CommitUpdate, CommitToggle, CommitImport,
         Insert, Update, Imports, Committing, Reloading
    <3>5. CASE CommitDelete(a) \/ CommitImportSdk(a)
      BY <3>1, <3>3, <3>5 DEF CommitDelete, CommitImportSdk, Committing, Reloading
    <3>6. CASE Refresh(a)
      <4>1. /\ job[a].op \in {"create", "update", "toggle"} \cup Imports
            /\ job[a].rule \in Custom => job[a].op # "toggle"
            /\ job[a].rule \in Sdk => job[a].op = "toggle"
        BY <1>1, <3>6, JobsAre, ConstantsAssumption DEF Refresh, Plan, Imports
      <4>2. DOMAIN rows \subseteq Custom
        BY <1>1, RulesAre DEF Stores
      <4>3. \/ job[a].rule \in Sdk /\ Goto(a, "switch")
            \/ job[a].rule \in DOMAIN rows
               /\ Goto(a, IF job[a].op = "update" THEN "remove" ELSE "add")
        BY <3>3, <3>6 DEF Refresh
      <4> QED
        BY <3>1, <4>1, <4>2, <4>3 DEF Reloading
    <3>7. CASE Switch(a) \/ Add(a)
      BY <3>3, <3>7 DEF Switch, Add
    <3>8. CASE Remove(a)
      BY <3>1, <3>3, <3>8 DEF Remove, Reloading
    <3> QED
      BY <3>4, <3>5, <3>6, <3>7, <3>8 DEF Handle
  <2>2. job' = job /\ job[a].at \in Workers
    BY <1>1, <1>4, HandleBeside DEF Serving
  <2> QED
    BY <1>1, <1>2, <2>1, <2>2 DEF Plan
<1> QED
  BY <1>1, <1>2, <1>3, <1>4, PlansKept

-----------------------------------------------------------------------------
(***************************************************************************)
(* A reload goes on                                                        *)
(***************************************************************************)
\* The next step, "" at the end.
After(step) ==
  CASE step = "load"      -> "scanner"    [] step = "scanner"         -> "customs"
    [] step = "customs"   -> "inject"     [] step = "inject"          -> "find_off"
    [] step = "find_off"  -> "switch_off" [] step = "switch_off"      -> "find_custom_off"
    [] step = "find_custom_off" -> "custom_off" [] OTHER -> ""

LEMMA ReloadBeside ==
  ASSUME Types, NEW p \in Processes, Reload(p)
  PROVE  /\ pc[p] \in Reloading /\ UNCHANGED dbVars /\ UNCHANGED excused
         /\ Home(p) \in Workers /\ Beside({p})
         /\ \/ /\ pc[p] # "custom_off" /\ pc'[p] = After(pc[p])
               /\ job' = job /\ Home(p)' = Home(p)
            \/ /\ pc[p] = "custom_off"
               /\ pc'[p] = IF p \in Workers THEN "up" ELSE "idle"
         /\ \A v \in Workers : v # Home(p) => io'[v] = io[v] /\ scanner'[v] = scanner[v]
<1>1. /\ pc[p] \in Reloading /\ UNCHANGED dbVars /\ UNCHANGED excused
  BY DEF Reload, Load, SetScanner, AddCustoms, Inject, FindOff, SwitchOff, FindCustomOff,
     CustomOff, EngineChange, histVars, Reloading
<1>2. Home(p) \in Workers
  BY <1>1, HomeIsWorker DEF Types, Reloading
<1>3. \A v \in Workers : v # Home(p) => io'[v] = io[v] /\ scanner'[v] = scanner[v]
  BY <1>2 DEF Reload, Load, SetScanner, AddCustoms, Inject, FindOff, SwitchOff,
     FindCustomOff, CustomOff, engVars, Types, Stores
<1>4. CASE CustomOff(p)
  BY <1>1, <1>2, <1>3, <1>4, EndBeside DEF CustomOff
<1>5. CASE ~CustomOff(p)
  <2>1. /\ Goto(p, After(pc[p])) /\ pc[p] # "custom_off"
        /\ seen' = seen
        /\ snap' = snap \/ \E f : snap' = [snap EXCEPT ![p] = f]
        /\ off' = off \/ \E f : off' = [off EXCEPT ![p] = f]
    BY <1>5 DEF Reload, Load, SetScanner, AddCustoms, Inject, FindOff, SwitchOff,
       FindCustomOff, After
  <2>2. /\ \A q \in Processes \ {p} : pc'[q] = pc[q]
        /\ job' = job /\ pc'[p] = After(pc[p]) /\ Home(p)' = Home(p)
    BY <2>1, GotoBeside
  <2>3. Beside({p})
    BY <2>1, <2>2 DEF Beside, Types, Stores
  <2> QED
    BY <1>1, <1>2, <1>3, <2>1, <2>2, <2>3
<1> QED
  BY <1>4, <1>5

LEMMA ReloadPlans ==
  ASSUME Types, Plans, NEW p \in Processes, Reload(p)
  PROVE  Plans'
<1>1. /\ pc[p] \in Reloading /\ Home(p) \in Workers /\ Beside({p})
      /\ \/ /\ pc[p] # "custom_off" /\ pc'[p] = After(pc[p]) /\ job' = job
         \/ /\ pc[p] = "custom_off"
            /\ pc'[p] = IF p \in Workers THEN "up" ELSE "idle"
      /\ Stores /\ {p} \in SUBSET Processes
  BY ReloadBeside DEF Types
<1>2. \A w \in Workers : pc[w] = "up" => pc'[w] = "up"
  BY <1>1, Kinds0 DEF Beside, Reloading
<1>5. \A v \in Workers : v # Home(p) => io'[v] = io[v]
  <2>1. \A v \in Workers : v # Home(p) => io'[v] = io[v] /\ scanner'[v] = scanner[v]
    BY ReloadBeside
  <2> QED
    BY <2>1
<1>3. IoKinds'
  <2>1. CASE UNCHANGED io
    BY <2>1 DEF Plans, IoKinds
  <2>2. CASE Inject(p)
    <3>1. ASSUME NEW w \in Workers, NEW y \in DOMAIN io'[w] \cap IoSdk
          PROVE  io'[w][y].kind = "io"
      <4>1. CASE w = Home(p)
        <5>1. PICK f : io' = [io EXCEPT ![w] = [x \in IoSdk \cup f |->
                                  IF x \in IoSdk THEN On("io") ELSE snap[p][x]]]
          BY <2>2, <4>1 DEF Inject
        <5>2. io'[w][y] = On("io")
          BY <1>1, <3>1, <5>1 DEF Stores
        <5> QED
          BY <5>2, OnIs
      <4>2. CASE w # Home(p)
        <5>1. io'[w] = io[w]
          BY <1>5, <4>2
        <5> QED
          BY <3>1, <5>1 DEF Plans, IoKinds
      <4> QED
        BY <4>1, <4>2
    <3> QED
      BY <3>1 DEF IoKinds
  <2>3. CASE SwitchOff(p) \/ CustomOff(p)
    <3>1. \E xs : io' = [io EXCEPT ![Home(p)] = SwitchedTo(@, xs, FALSE)]
      BY <2>3 DEF SwitchOff, CustomOff
    <3> QED
      BY <1>1, <3>1, SwitchedKinds DEF Plans
  <2> QED
    BY <2>1, <2>2, <2>3 DEF Reload, Load, SetScanner, AddCustoms, FindOff, FindCustomOff, engVars
<1>4. ASSUME p \in Admins, Serving(p)'
      PROVE  Plan(p)'
  <2>1. pc'[p] = After(pc[p]) /\ job' = job /\ pc[p] # "custom_off"
    BY <1>1, <1>4, Kinds0 DEF Serving
  <2>2. pc'[p] \in Reloading \ {"load"}
    BY <1>1, <2>1 DEF After, Reloading
  <2>3. Plan(p) /\ job[p].at \in Workers
    BY <1>1, <1>4, Kinds0 DEF Plans, Serving, Reloading, Home
  <2> QED
    BY <1>1, <1>2, <2>1, <2>2, <2>3 DEF Plan, Reloading
<1> QED
  BY <1>1, <1>2, <1>3, <1>4, PlansKept

\* The other workers.
LEMMA ReloadOther ==
  ASSUME Types, NEW p \in Processes, Reload(p), NEW x, NEW w \in Workers, w # Home(p), Tidy(x, w)
  PROVE  Tidy(x, w)'
<1>1. /\ pc[p] \in Reloading /\ UNCHANGED dbVars /\ Beside({p})
      /\ \/ /\ pc[p] # "custom_off" /\ pc'[p] = After(pc[p])
            /\ job' = job /\ Home(p)' = Home(p)
         \/ /\ pc[p] = "custom_off"
            /\ pc'[p] = IF p \in Workers THEN "up" ELSE "idle"
      /\ io'[w] = io[w] /\ scanner'[w] = scanner[w]
  BY ReloadBeside
<1>2. SameTables(x) /\ SameEngines(x, w)
  BY <1>1 DEF dbVars, SameTables, SameEngines, IoActive, CrActive
<1>3. p \in Admins => ~Asks(p, x) /\ ~Asks(p, x)'
  <2>1. ASSUME p \in Admins, Asks(p, x)
        PROVE  FALSE
    BY <2>1, Kinds0 DEF Tidy, Sole, Home
  <2> QED
    BY <1>1, <2>1, Kinds0 DEF Asks, Serving, Reloading
<1>4. ~ReloadingAt(p, w) /\ ~ReloadingAt(p, w)'
  BY <1>1 DEF ReloadingAt, Reloading
<1>5. p \in Admins /\ Serving(p)' => Serving(p) /\ job'[p] = job[p]
  BY <1>1, Kinds0 DEF Serving, Reloading
<1> DEFINE G == {p}
<1>6. G \in SUBSET Processes /\ Beside(G) /\ w \notin G
  BY <1>1 DEF Home
<1>7. \A b \in G : b = p
  OBVIOUS
<1> HIDE DEF G
<1> QED
  BY <1>2, <1>3, <1>4, <1>5, <1>6, <1>7, Kept DEF Types

\* What a step of reload p does about x in its worker w.
Brings(x, p, w) ==
  /\ pc'[p] \in Reloading => Reads(x, p)'
  /\ \/ IoRight(x, w)' \/ pc'[p] \in IoSteps(x)
     \/ pc[p] \notin IoSteps(x) /\ (x \in IoActive(w)' <=> x \in IoActive(w))
  /\ x \in CrSdk =>
       \/ CrRight(x, w)' \/ pc'[p] \in CrSteps(x)
       \/ pc[p] \notin CrSteps(x) /\ (x \in CrActive(w)' <=> x \in CrActive(w))

\* The worker that reloads: what a step has to do for x.
LEMMA ReloadOwn ==
  ASSUME Types, Plans, NEW p \in Processes, Reload(p), NEW x, NEW w \in Workers, w = Home(p),
         Tidy(x, w), Brings(x, p, w), Loaded(x, w)'
  PROVE  Tidy(x, w)'
<1>1. /\ pc[p] \in Reloading /\ UNCHANGED dbVars /\ Beside({p})
      /\ \/ /\ pc[p] # "custom_off" /\ pc'[p] = After(pc[p])
            /\ job' = job /\ Home(p)' = Home(p)
         \/ /\ pc[p] = "custom_off"
            /\ pc'[p] = IF p \in Workers THEN "up" ELSE "idle"
  BY ReloadBeside
<1>2. \A a \in Admins : Asks(a, x) => a = p
  <2>1. ASSUME NEW a \in Admins \ {p}, Asks(a, x)
        PROVE  FALSE
    <3>1. Sole(x, w)
      BY Zenon DEF Tidy
    <3>2. job[a].at = w /\ pc[w] = "up"
      BY <2>1, <3>1 DEF Sole, Plans, Plan, Asks
    <3>3. p \in Admins /\ Serving(p) /\ job[p].at = w
      BY <1>1, <3>2, Kinds0 DEF Home, Reloading, Serving, Processes
    <3>4. job[p].op = "import_sdk"
      BY <1>1, <3>3 DEF Plans, Plan
    <3> QED
      BY <2>1, <3>1, <3>3, <3>4 DEF Sole
  <2> QED
    BY <2>1
<1>3. /\ pc[w] # "down"
      /\ p \in Admins => job[p].op = "import_sdk"
  BY <1>1, Kinds0 DEF Home, Reloading, Serving, Plans, Plan, Processes
<1>4. /\ \A q \in Processes \ {p} : /\ pc'[q] = pc[q] /\ Home(q)' = Home(q)
                                    /\ snap'[q] = snap[q] /\ off'[q] = off[q]
                                    /\ job'[q] = job[q]
  BY <1>1 DEF Beside, Home
<1>5. \A a \in Admins : Asks(a, x)' => a = p /\ Asks(p, x) /\ job' = job
  <2>1. ASSUME NEW a \in Admins, Asks(a, x)', a # p
        PROVE  FALSE
    BY <1>2, <1>4, <2>1, Kinds0 DEF Asks, Serving
  <2>2. ASSUME p \in Admins, Asks(p, x)'
        PROVE  Asks(p, x) /\ job' = job
    BY <1>1, <2>2, Kinds0 DEF Asks, Serving, Reloading
  <2> QED
    BY <2>1, <2>2
<1>6. Sole(x, w)'
  <2>1. SUFFICES ASSUME NEW a \in Admins, Asks(a, x)'
                 PROVE  /\ job'[a].at = w
                        /\ \A b \in Admins \ {a} : Serving(b)' /\ job'[b].at = w =>
                             job'[b].rule # x /\ job'[b].op # "import_sdk"
    BY DEF Sole
  <2>2. a = p /\ Asks(p, x) /\ job' = job
    BY <1>5, <2>1
  <2>3. \A b \in Admins \ {a} : Serving(b)' => Serving(b)
    BY <1>4, <2>2, Kinds0 DEF Serving
  <2> QED
    BY <2>2, <2>3 DEF Tidy, Sole
<1>7. ASSUME NEW q \in Processes, ReloadingAt(q, w)'
      PROVE  Reads(x, q)'
  <2>1. CASE q = p
    BY <1>7, <2>1 DEF ReloadingAt, Brings
  <2>2. CASE q # p
    <3>1. Reads(x, q)
      BY <1>3, <1>4, <1>7, <2>2 DEF Tidy, ReloadingAt
    <3>2. SameTables(x)
      BY <1>1 DEF SameTables, dbVars
    <3> QED
      BY <1>4, <2>2, <3>1, <3>2, StillReads
  <2> QED
    BY <2>1, <2>2
<1>8. ASSUME NEW a \in Admins, Asks(a, x)'
      PROVE  Knows(a, x, w)'
  <2>1. a = p /\ job' = job /\ job[p].op = "import_sdk"
    BY <1>3, <1>5, <1>8
  <2>2. pc'[p] \in Reloading
    BY <1>1, <1>8, <2>1, Kinds0 DEF Asks, Serving, After, Reloading
  <2> QED
    BY <2>1, <2>2 DEF Knows, Imports, Reloading
<1>9. \A a \in Admins : ~(Asks(a, x) /\ pc[a] \in Syncing)
  BY <1>1, <1>2 DEF Syncing, Reloading
<1>10. ASSUME NEW S, S \subseteq Starting, InSync(x, S, w), pc[p] \notin S
       PROVE  \E q \in Processes : pc'[q] \in S /\ Home(q)' = w
  BY <1>4, <1>9, <1>10 DEF InSync
<1>11. ASSUME NEW S, S \subseteq Starting, pc'[p] \in S
       PROVE  \E q \in Processes : pc'[q] \in S /\ Home(q)' = w
  BY <1>1, <1>11 DEF Starting, Reloading
<1>12. /\ IoSteps(x) \subseteq Starting /\ CrSteps(x) \subseteq Starting
       /\ IoSteps(x)' = IoSteps(x) /\ CrSteps(x)' = CrSteps(x) /\ IoWanted' = IoWanted
       /\ sdkOn' = sdkOn
  BY <1>1 DEF IoSteps, CrSteps, Early, BeforeOff, Starting, Reloading, IoWanted, Wanted,
     dbVars
<1>13. (IoRight(x, w) \/ InSync(x, IoSteps(x), w))'
  <2>1. CASE IoRight(x, w)'
    BY <2>1
  <2>2. CASE pc'[p] \in IoSteps(x)
    BY <1>11, <1>12, <2>2 DEF InSync
  <2>3. CASE pc[p] \notin IoSteps(x) /\ (x \in IoActive(w)' <=> x \in IoActive(w))
    <3>1. CASE IoRight(x, w)
      BY <1>12, <2>3, <3>1 DEF IoRight
    <3>2. CASE InSync(x, IoSteps(x), w)
      BY <1>10, <1>12, <2>3, <3>2 DEF InSync
    <3> QED
      BY <1>3, <3>1, <3>2 DEF Tidy
  <2> QED
    BY <2>1, <2>2, <2>3 DEF Brings
<1>14. ASSUME x \in CrSdk
       PROVE  (CrRight(x, w) \/ InSync(x, CrSteps(x), w))'
  <2>1. CASE CrRight(x, w)'
    BY <2>1
  <2>2. CASE pc'[p] \in CrSteps(x)
    BY <1>11, <1>12, <2>2 DEF InSync
  <2>3. CASE pc[p] \notin CrSteps(x) /\ (x \in CrActive(w)' <=> x \in CrActive(w))
    <3>1. CASE CrRight(x, w)
      BY <1>12, <2>3, <3>1 DEF CrRight
    <3>2. CASE InSync(x, CrSteps(x), w)
      BY <1>10, <1>12, <2>3, <3>2 DEF InSync
    <3> QED
      BY <1>3, <1>14, <3>1, <3>2 DEF Tidy
  <2> QED
    BY <1>14, <2>1, <2>2, <2>3 DEF Brings
<1>15. x \in DOMAIN rows' => rows'[x].kind # "both"
  BY <1>1, Zenon DEF Tidy, dbVars
<1> QED
  BY <1>6, <1>7, <1>8, <1>13, <1>14, <1>15 DEF Tidy

LEMMA HeldRow ==
  ASSUME NEW x, NEW p, NEW xs \in SUBSET DOMAIN rows, SameRow(snap[p], x)
  PROVE  SameRow(Held(p, xs), x)
BY DEF SameRow, Held

LEMMA Disjoint ==
  ASSUME NEW x
  PROVE  /\ x \in Custom => x \notin IoSdk /\ x \notin CrSdk /\ x \notin Sdk
         /\ x \in IoSdk => x \notin CrSdk
         /\ x \in Sdk <=> x \in IoSdk \/ x \in CrSdk
BY ConstantsAssumption DEF Sdk

\* The steps that only read.
LEMMA ReadingBrings ==
  ASSUME Types, NEW p \in Processes, NEW x \in Sdk \cup Custom, NEW w \in Workers, w = Home(p),
         Load(p) \/ FindOff(p) \/ FindCustomOff(p), Reads(x, p)
  PROVE  Brings(x, p, w)
<1>1. /\ UNCHANGED dbVars /\ Stores
      /\ IoActive(w)' = IoActive(w) /\ CrActive(w)' = CrActive(w)
  BY DEF Load, FindOff, FindCustomOff, engVars, IoActive, CrActive, Types
<1>2. ASSUME NEW f
      PROVE  SameRow(f, x)' <=> SameRow(f', x)
  BY <1>1, <1>2 DEF SameRow, dbVars
<1>3. CASE Load(p)
  <2>1. pc[p] = "load" /\ pc'[p] = "scanner" /\ snap'[p] = rows
    BY <1>1, <1>3, GotoBeside DEF Load, Stores
  <2>2. SameRow(snap[p], x)'
    BY <1>1, <2>1 DEF SameRow, dbVars
  <2>3. Reads(x, p)'
    BY <2>1, <2>2 DEF Reads
  <2>4. "scanner" \in IoSteps(x) /\ "scanner" \in CrSteps(x)
    BY DEF IoSteps, CrSteps, Early, BeforeOff
  <2> QED
    BY <2>1, <2>3, <2>4 DEF Brings
<1>4. CASE FindOff(p)
  <2>1. /\ pc[p] = "find_off" /\ pc'[p] = "switch_off" /\ snap'[p] = snap[p]
        /\ off'[p] = Sdk \ sdkOn
    BY <1>1, <1>4, GotoBeside DEF FindOff, Stores
  <2>2. SameRow(snap[p], x)'
    BY <1>1, <2>1 DEF Reads, SameRow, dbVars
  <2>3. Reads(x, p)'
    BY <1>1, <2>1, <2>2 DEF Reads, dbVars
  <2>4. /\ "switch_off" \in IoSteps(x) \/ "find_off" \notin IoSteps(x)
        /\ "switch_off" \in CrSteps(x) \/ "find_off" \notin CrSteps(x)
    BY DEF IoSteps, CrSteps, Early, BeforeOff
  <2> QED
    BY <1>1, <2>1, <2>3, <2>4 DEF Brings
<1>5. CASE FindCustomOff(p)
  <2> DEFINE found == {y \in DOMAIN rows : ~rows[y].enabled}
  <2>1. /\ pc[p] = "find_custom_off" /\ pc'[p] = "custom_off"
        /\ snap'[p] = Held(p, found) /\ off'[p] = found
    BY <1>1, <1>5, GotoBeside DEF FindCustomOff, Stores
  <2>2. SameRow(Held(p, found), x)
    BY <2>1, HeldRow DEF Reads
  <2>3. SameRow(snap[p], x)'
    BY <1>1, <2>1, <2>2 DEF SameRow, dbVars
  <2>4. Reads(x, p)'
    BY <1>1, <2>1, <2>3 DEF Reads, dbVars
  <2>5. "find_custom_off" \notin IoSteps(x) /\ "find_custom_off" \notin CrSteps(x)
    BY DEF IoSteps, CrSteps, Early, BeforeOff
  <2> QED
    BY <1>1, <2>1, <2>4, <2>5 DEF Brings
<1> QED
  BY <1>3, <1>4, <1>5

LEMMA ScannerBrings ==
  ASSUME Types, NEW p \in Processes, NEW x \in Sdk \cup Custom, NEW w \in Workers, w = Home(p),
         SetScanner(p) \/ AddCustoms(p), Reads(x, p)
  PROVE  Brings(x, p, w)
<1>1. UNCHANGED dbVars /\ Stores /\ DOMAIN rows \subseteq Custom
  BY RulesAre DEF SetScanner, AddCustoms, Types, Stores, dbVars
<1>2. CASE SetScanner(p)
  <2>1. /\ pc[p] = "scanner" /\ pc'[p] = "customs" /\ snap'[p] = snap[p] /\ off'[p] = off[p]
        /\ scanner'[w] = [r \in CrSdk |-> On("cr")]
    BY <1>1, <1>2, GotoBeside DEF SetScanner, Stores
  <2>2. Reads(x, p)'
    BY <1>1, <2>1 DEF Reads, SameRow, dbVars
  <2>3. x \in CrSdk => x \in CrActive(w)'
    BY <2>1, OnIs DEF CrActive
  <2>4. "customs" \in IoSteps(x) /\ (x \notin sdkOn => "customs" \in CrSteps(x))
    BY DEF IoSteps, CrSteps, Early, BeforeOff
  <2>5. x \in CrSdk /\ x \in sdkOn => CrRight(x, w)'
    BY <1>1, <2>3 DEF CrRight, dbVars
  <2> QED
    BY <2>1, <2>2, <2>4, <2>5 DEF Brings
<1>3. CASE AddCustoms(p)
  <2> DEFINE found == {y \in DOMAIN rows : rows[y].kind \in Review}
             add   == {y \in found : Held(p, found)[y].pattern}
  <2>1. /\ pc[p] = "customs" /\ pc'[p] = "inject"
        /\ snap'[p] = Held(p, found) /\ off'[p] = off[p]
        /\ scanner'[w] = [y \in DOMAIN scanner[w] \cup add |->
                            IF y \in add THEN On("cr") ELSE scanner[w][y]]
    BY <1>1, <1>3, GotoBeside DEF AddCustoms, Stores
  <2>2. SameRow(Held(p, found), x)
    BY <2>1, HeldRow DEF Reads
  <2>3. SameRow(snap[p], x)'
    BY <1>1, <2>1, <2>2 DEF SameRow, dbVars
  <2>4. Reads(x, p)'
    BY <2>1, <2>3 DEF Reads
  <2>5. ASSUME x \in CrSdk
        PROVE  x \in CrActive(w)' <=> x \in CrActive(w)
    <3>1. x \notin add
      BY <1>1, <2>5, Disjoint
    <3> HIDE DEF add
    <3> QED
      BY <2>1, <3>1 DEF CrActive
  <2>6. /\ "inject" \in IoSteps(x)
        /\ "inject" \in CrSteps(x) \/ "customs" \notin CrSteps(x)
    BY DEF IoSteps, CrSteps, Early, BeforeOff
  <2> QED
    BY <2>1, <2>4, <2>5, <2>6 DEF Brings
<1> QED
  BY <1>2, <1>3

LEMMA InjectBrings ==
  ASSUME Types, NEW p \in Processes, NEW x \in Sdk \cup Custom, NEW w \in Workers, w = Home(p),
         Inject(p), Reads(x, p)
  PROVE  Brings(x, p, w) /\ (x \in IoSdk => x \in DOMAIN io'[w])
<1> DEFINE custom == {y \in DOMAIN snap[p] : snap[p][y].kind = "io" /\ snap[p][y].pattern}
<1>1. /\ UNCHANGED dbVars /\ Stores /\ DOMAIN snap[p] \subseteq Custom
      /\ pc[p] = "inject" /\ pc'[p] = "find_off" /\ snap'[p] = snap[p] /\ off'[p] = off[p]
      /\ CrActive(w)' = CrActive(w)
      /\ SameRow(snap[p], x)
  BY GotoBeside, RulesAre DEF Inject, Types, Stores, CrActive, Reads
<1>2. io'[w] = [y \in IoSdk \cup custom |-> IF y \in IoSdk THEN On("io") ELSE snap[p][y]]
  BY <1>1 DEF Inject, Stores
<1>3. Reads(x, p)'
  BY <1>1 DEF Reads, SameRow, dbVars
<1>4. x \in IoSdk => x \in DOMAIN io'[w] /\ x \in IoActive(w)'
  BY <1>2, OnIs DEF IoActive
<1>5. x \in CrSdk => x \notin IoActive(w)'
  BY <1>1, <1>2, Disjoint DEF IoActive
<1>6. ASSUME x \in Custom
      PROVE  x \in IoActive(w)' <=> /\ x \in DOMAIN rows
                                    /\ rows[x].kind = "io"
                                    /\ rows[x].enabled /\ rows[x].pattern
  <2>1. x \notin IoSdk
    BY <1>6, Disjoint
  <2>2. x \in DOMAIN io'[w] <=> x \in custom
    BY <1>2, <2>1
  <2>3. x \in custom => io'[w][x] = snap[p][x]
    BY <1>2, <2>1
  <2>4. x \in custom <=> x \in DOMAIN rows /\ rows[x].kind = "io" /\ rows[x].pattern
    BY <1>1 DEF SameRow
  <2>5. x \in custom => snap[p][x] = rows[x]
    BY <1>1 DEF SameRow
  <2> HIDE DEF custom
  <2> QED
    BY <2>2, <2>3, <2>4, <2>5 DEF IoActive
<1>7. IoWanted' = IoWanted
  BY <1>1 DEF IoWanted, Wanted, dbVars
<1>8. x \in sdkOn \/ x \in Custom => IoRight(x, w)'
  <2>1. x \in sdkOn => x \in Sdk
    BY <1>1 DEF Stores
  <2> QED
    BY <1>1, <1>4, <1>5, <1>6, <1>7, <2>1, WantedIs, Disjoint DEF IoRight
<1>9. /\ x \in Sdk \ sdkOn => "find_off" \in IoSteps(x)
      /\ "find_off" \in CrSteps(x) \/ "inject" \notin CrSteps(x)
  BY DEF IoSteps, CrSteps, Early, BeforeOff
<1> QED
  BY <1>1, <1>3, <1>4, <1>8, <1>9 DEF Brings

LEMMA SwitchOffBrings ==
  ASSUME Types, NEW p \in Processes, NEW x \in Sdk \cup Custom, NEW w \in Workers, w = Home(p),
         SwitchOff(p), Reads(x, p)
  PROVE  Brings(x, p, w)
<1>1. /\ UNCHANGED dbVars /\ Stores /\ DOMAIN io[w] \subseteq IoSdk \cup Custom
      /\ pc[p] = "switch_off" /\ pc'[p] = "find_custom_off"
      /\ snap'[p] = snap[p] /\ off'[p] = off[p]
      /\ SameRow(snap[p], x) /\ (x \in off[p] <=> x \in Sdk \ sdkOn)
  BY GotoBeside, RulesAre DEF SwitchOff, Types, Stores, Reads
<1>2. IoActive(w)' = IoActive(w) \ (off[p] \cap IoSdk)
  <2>1. io'[w] = SwitchedTo(io[w], off[p] \cap IoSdk, FALSE)
    BY <1>1 DEF SwitchOff, Stores
  <2> QED
    BY <1>1, <2>1, IoSwitchedOff
<1>3. CrActive(w)' = CrActive(w) \ (off[p] \cap CrSdk)
  <2>1. scanner'[w] = SwitchedTo(scanner[w], off[p] \cap CrSdk, FALSE)
    BY <1>1 DEF SwitchOff, Stores
  <2> QED
    BY <1>1, <2>1, CrSwitchedOff
<1>4. Reads(x, p)'
  BY <1>1 DEF Reads, SameRow, dbVars
<1>5. IoWanted' = IoWanted /\ sdkOn' = sdkOn
  BY <1>1 DEF IoWanted, Wanted, dbVars
<1>6. ASSUME x \in Sdk \ sdkOn
      PROVE  IoRight(x, w)'
  <2>1. x \notin IoActive(w)'
    BY <1>1, <1>2, <1>6, Disjoint DEF IoActive
  <2>2. x \notin IoWanted
    BY <1>1, <1>6, WantedIs
  <2> QED
    BY <1>5, <2>1, <2>2 DEF IoRight
<1>7. x \in CrSdk \ sdkOn => CrRight(x, w)'
  BY <1>1, <1>3, <1>5, Disjoint DEF CrRight
<1>8. /\ x \notin Sdk \ sdkOn => "switch_off" \notin IoSteps(x)
      /\ x \in sdkOn => "switch_off" \notin CrSteps(x)
  BY DEF IoSteps, CrSteps, Early, BeforeOff
<1> QED
  BY <1>1, <1>2, <1>3, <1>4, <1>6, <1>7, <1>8 DEF Brings

LEMMA CustomOffBrings ==
  ASSUME Types, NEW p \in Processes, NEW x \in Sdk \cup Custom, NEW w \in Workers, w = Home(p),
         CustomOff(p), Reads(x, p)
  PROVE  Brings(x, p, w)
<1> DEFINE ioOff == {y \in off[p] : snap[p][y].kind = "io"}
<1>1. /\ UNCHANGED dbVars /\ Stores /\ DOMAIN rows \subseteq Custom
      /\ pc[p] = "custom_off" /\ End(p)
      /\ x \in off[p] => x \in DOMAIN rows /\ ~rows[x].enabled
  BY RulesAre DEF CustomOff, Types, Stores, Reads, dbVars
<1>2. pc'[p] \notin Reloading
  BY <1>1, EndBeside DEF Reloading
<1>3. PICK done \in SUBSET off[p] :
        /\ io' = [io EXCEPT ![w] = SwitchedTo(@, done \cap ioOff, FALSE)]
        /\ scanner' = [scanner EXCEPT ![w] = Restrict(@, DOMAIN @ \ (done \ ioOff))]
  BY DEF CustomOff
<1> HIDE DEF ioOff
<1>4. IoActive(w)' = IoActive(w) \ (done \cap ioOff)
  <2>1. io'[w] = SwitchedTo(io[w], done \cap ioOff, FALSE)
    BY <1>1, <1>3 DEF Stores
  <2> QED
    BY <1>1, <2>1, IoSwitchedOff
<1>5. CrActive(w)' = CrActive(w) \ (done \ ioOff)
  <2>1. scanner'[w] = Restrict(scanner[w], DOMAIN scanner[w] \ (done \ ioOff))
    BY <1>1, <1>3 DEF Stores
  <2> QED
    BY <2>1, CrRemoved
<1>6. x \in CrSdk => (x \in CrActive(w)' <=> x \in CrActive(w))
  BY <1>1, <1>3, <1>5, Disjoint
<1>7. ASSUME x \in done
      PROVE  IoRight(x, w)' \/ (x \in IoActive(w)' <=> x \in IoActive(w))
  <2>1. x \in Custom /\ x \in off[p]
    BY <1>1, <1>3, <1>7
  <2>2. x \notin IoWanted'
    <3>1. x \notin IoWanted
      BY <1>1, <2>1, WantedIs
    <3> QED
      BY <1>1, <3>1 DEF IoWanted, Wanted, dbVars
  <2> QED
    BY <1>4, <2>2 DEF IoRight
<1>8. "custom_off" \notin IoSteps(x) /\ "custom_off" \notin CrSteps(x)
  BY DEF IoSteps, CrSteps, Early, BeforeOff
<1> QED
  BY <1>1, <1>2, <1>4, <1>6, <1>7, <1>8 DEF Brings

LEMMA ReloadLoaded ==
  ASSUME Types, NEW p \in Processes, Reload(p), NEW x, NEW w \in Workers, w = Home(p), Loaded(x, w),
         Reads(x, p)
  PROVE  Loaded(x, w)'
<1>1. /\ pc[p] \in Reloading /\ (p = w \/ p \notin Workers) /\ Stores
      /\ \A q \in Processes \ {p} : pc'[q] = pc[q]
      /\ w \in Processes
  BY ReloadBeside, Kinds0 DEF Home, Types, Beside
<1>2. p = w => pc'[w] = IF pc[w] = "custom_off" THEN "up" ELSE After(pc[w])
  <2>1. \/ pc[p] # "custom_off" /\ pc'[p] = After(pc[p])
        \/ pc[p] = "custom_off" /\ pc'[p] = IF p \in Workers THEN "up" ELSE "idle"
    BY ReloadBeside
  <2> QED
    BY <2>1
<1>3. Inject(p) /\ x \in IoSdk => x \in DOMAIN io'[w]
  BY <1>1 DEF Inject, Stores
<1>4. ~Inject(p) /\ x \in DOMAIN io[w] => x \in DOMAIN io'[w]
  <2>1. ~Inject(p) => \/ io' = io
                      \/ \E xs : io' = [io EXCEPT ![w] = SwitchedTo(@, xs, FALSE)]
    BY DEF Reload, Load, SetScanner, AddCustoms, FindOff, SwitchOff, FindCustomOff,
       CustomOff, engVars
  <2> QED
    BY <1>1, <2>1 DEF Stores, SwitchedTo
<1>5. SetScanner(p) /\ x \in CrSdk => x \in DOMAIN scanner'[w]
  BY <1>1 DEF SetScanner, Stores
<1>6. ~SetScanner(p) /\ x \in CrSdk /\ x \in DOMAIN scanner[w] => x \in DOMAIN scanner'[w]
  <2>1. CASE AddCustoms(p)
    <3>1. PICK add : scanner' = [scanner EXCEPT ![w] =
                       [y \in DOMAIN @ \cup add |-> IF y \in add THEN On("cr") ELSE @[y]]]
      BY <2>1 DEF AddCustoms
    <3> QED
      BY <1>1, <3>1 DEF Stores
  <2>2. CASE SwitchOff(p)
    BY <1>1, <2>2 DEF SwitchOff, SwitchedTo, Stores
  <2>3. CASE CustomOff(p)
    <3>1. DOMAIN rows \subseteq Custom
      BY <1>1, RulesAre DEF Stores
    <3>2. x \in CrSdk => x \notin off[p]
      BY <2>3, <3>1, Disjoint DEF CustomOff, Reads
    <3>3. PICK done \in SUBSET off[p], kept \in SUBSET off[p] :
            scanner' = [scanner EXCEPT ![w] = Restrict(@, DOMAIN @ \ (done \ kept))]
      BY <2>3 DEF CustomOff
    <3>4. scanner'[w] = Restrict(scanner[w], DOMAIN scanner[w] \ (done \ kept))
      BY <1>1, <3>3 DEF Stores
    <3> QED
      BY <3>2, <3>4 DEF Restrict
  <2>4. CASE UNCHANGED scanner
    BY <2>4
  <2> QED
    BY <2>1, <2>2, <2>3, <2>4 DEF Reload, Load, SetScanner, Inject, FindOff, FindCustomOff, engVars
<1>7. ASSUME p = w
      PROVE  /\ pc'[w] \notin Early => Inject(p) \/ pc[w] \notin Early
             /\ pc'[w] \notin {"bundles", "load", "scanner"} =>
                  SetScanner(p) \/ pc[w] \notin {"bundles", "load", "scanner"}
  <2>1. /\ pc[w] = "inject" => Inject(p)
        /\ pc[w] = "scanner" => SetScanner(p)
    BY <1>7 DEF Reload, Load, SetScanner, AddCustoms, Inject, FindOff, SwitchOff, FindCustomOff,
       CustomOff
  <2> QED
    BY <1>1, <1>2, <1>7, <2>1 DEF Early, After, Reloading
<1>8. p # w => pc'[w] = pc[w]
  BY <1>1
<1> QED
  BY <1>3, <1>4, <1>5, <1>6, <1>7, <1>8 DEF Loaded

LEMMA ReloadTidy ==
  ASSUME Types, Plans, Causes, NEW p \in Processes, Reload(p),
         NEW x \in Sdk \cup Custom, NEW w \in Workers, <<x, w>> \notin excused'
  PROVE  Tidy(x, w)'
<1>1. Tidy(x, w)
  BY ReloadBeside DEF Causes
<1>2. CASE w # Home(p)
  BY <1>1, <1>2, ReloadOther
<1>3. CASE w = Home(p)
  <2>1. pc[p] \in Reloading /\ pc[w] # "down"
    <3>1. pc[p] \in Reloading
      BY ReloadBeside
    <3>2. CASE p \in Workers
      BY <1>3, <3>1, <3>2 DEF Home, Reloading
    <3>3. CASE p \in Admins
      BY <1>3, <3>1, <3>3, Kinds0 DEF Home, Reloading, Plans, Plan, Serving
    <3> QED
      BY <3>1, <3>2, <3>3 DEF Processes
  <2>2. Reads(x, p) /\ Loaded(x, w)
    BY <1>1, <1>3, <2>1 DEF Tidy, ReloadingAt
  <2>3. Brings(x, p, w)
    BY <1>3, <2>2, ReadingBrings, ScannerBrings, InjectBrings, SwitchOffBrings,
       CustomOffBrings DEF Reload
  <2>4. Loaded(x, w)'
    BY <1>3, <2>2, ReloadLoaded
  <2> QED
    BY <1>1, <1>3, <2>3, <2>4, ReloadOwn
<1> QED
  BY <1>2, <1>3

-----------------------------------------------------------------------------
(***************************************************************************)
(* A worker stops or starts, a process gives up                            *)
(***************************************************************************)
LEMMA StopBeside ==
  ASSUME Types, Plans, NEW v \in Workers, Stop(v)
  PROVE  LET gone == {v} \cup {a \in Admins : Serving(a) /\ job[a].at = v}
         IN  /\ gone \in SUBSET Processes /\ Beside(gone) /\ UNCHANGED <<dbVars, excused>>
             /\ pc'[v] = "down" /\ \A a \in gone \cap Admins : pc'[a] = "idle"
             /\ \A w \in Workers \ {v} : io'[w] = io[w] /\ scanner'[w] = scanner[w]
             /\ \A y \in DOMAIN io'[v] : FALSE
             /\ DOMAIN scanner'[v] = {}
<1> DEFINE gone == {v} \cup {a \in Admins : Serving(a) /\ job[a].at = v}
<1>1. gone = {v} \cup {a \in Admins : pc[a] # "idle" /\ Home(a) = v}
  BY Kinds0 DEF Serving, Home
<1>2. /\ pc'   = [p \in Processes |-> IF p = v THEN "down"
                                      ELSE IF p \in gone THEN "idle" ELSE pc[p]]
      /\ job'  = [p \in Processes |-> IF p \in gone THEN NoJob ELSE job[p]]
      /\ seen' = [p \in Processes |-> IF p \in gone THEN On("io") ELSE seen[p]]
      /\ snap' = [p \in Processes |-> IF p \in gone THEN NoRule ELSE snap[p]]
      /\ off'  = [p \in Processes |-> IF p \in gone THEN {} ELSE off[p]]
  BY <1>1, Zenon DEF Stop
<1>3. gone \in SUBSET Processes /\ v \in gone
  BY Kinds0
<1>4. /\ io' = [io EXCEPT ![v] = NoRule] /\ scanner' = [scanner EXCEPT ![v] = NoRule]
      /\ UNCHANGED <<dbVars, excused>>
  BY DEF Stop
<1>5. \A a \in gone \cap Admins : a # v
  BY Kinds0
<1> HIDE DEF gone
<1>6. Beside(gone)
  BY <1>2, <1>3 DEF Beside
<1>7. pc'[v] = "down" /\ \A a \in gone \cap Admins : pc'[a] = "idle"
  BY <1>2, <1>3, <1>5
<1>8. /\ \A w \in Workers \ {v} : io'[w] = io[w] /\ scanner'[w] = scanner[w]
      /\ \A y \in DOMAIN io'[v] : FALSE
      /\ DOMAIN scanner'[v] = {}
  BY <1>4 DEF Types, Stores, NoRule
<1> QED
  BY <1>3, <1>4, <1>6, <1>7, <1>8 DEF gone

LEMMA StopTidy ==
  ASSUME Types, Plans, Causes, NEW v \in Workers, Stop(v),
         NEW x \in Sdk \cup Custom, NEW w \in Workers, <<x, w>> \notin excused'
  PROVE  Tidy(x, w)'
<1> DEFINE gone == {v} \cup {a \in Admins : Serving(a) /\ job[a].at = v}
<1>1. /\ gone \in SUBSET Processes /\ Beside(gone) /\ UNCHANGED <<dbVars, excused>>
      /\ pc'[v] = "down" /\ \A a \in gone \cap Admins : pc'[a] = "idle"
      /\ \A u \in Workers \ {v} : io'[u] = io[u] /\ scanner'[u] = scanner[u]
  BY StopBeside
<1>2. /\ \A a \in gone \cap Admins : Serving(a) /\ job[a].at = v
      /\ \A p \in gone : Home(p) = v
      /\ \A p \in gone : p \in Admins \/ p = v
      /\ \A a \in Admins : Serving(a) /\ job[a].at = v => a \in gone
      /\ \A u \in Workers : u \in gone => u = v
  BY Kinds0 DEF Home
<1> HIDE DEF gone
<1>3. Tidy(x, w)
  BY <1>1 DEF Causes
<1>4. Sole(x, w)
  BY <1>3, Zenon DEF Tidy
<1>5. CASE w = v
  <2>1. ASSUME NEW a \in Admins, Asks(a, x)'
        PROVE  FALSE
    <3>1. a \notin gone
      BY <1>1, <2>1 DEF Asks, Serving
    <3>2. Asks(a, x)
      BY <1>1, <2>1, <3>1, Kinds0 DEF Beside, Asks, Serving
    <3> QED
      BY <1>2, <1>4, <1>5, <3>1, <3>2 DEF Sole, Asks
  <2>2. x \in DOMAIN rows' => rows'[x].kind # "both"
    BY <1>1, <1>3, Zenon DEF Tidy, dbVars
  <2> QED
    BY <1>1, <1>5, <2>1, <2>2 DEF Tidy, Sole
<1>6. CASE w # v
  <2>1. SameTables(x) /\ SameEngines(x, w)
    BY <1>1, <1>6 DEF SameTables, SameEngines, dbVars, IoActive, CrActive
  <2>2. \A a \in gone \cap Admins : ~Asks(a, x) /\ ~Asks(a, x)' /\ ~Serving(a)'
    BY <1>1, <1>2, <1>4, <1>6 DEF Sole, Asks, Serving
  <2>3. \A p \in gone : ~ReloadingAt(p, w) /\ ~ReloadingAt(p, w)'
    BY <1>1, <1>2, <1>6 DEF ReloadingAt, Reloading
  <2>4. w \notin gone
    BY <1>2, <1>6
  <2> QED
    BY <1>1, <1>3, <2>1, <2>2, <2>3, <2>4, Kept DEF Types
<1> QED
  BY <1>5, <1>6

LEMMA StopPlans ==
  ASSUME Types, Plans, NEW v \in Workers, Stop(v)
  PROVE  Plans'
<1> DEFINE gone == {v} \cup {a \in Admins : Serving(a) /\ job[a].at = v}
<1>1. /\ gone \in SUBSET Processes /\ Beside(gone)
      /\ \A a \in gone \cap Admins : pc'[a] = "idle"
      /\ \A w \in Workers \ {v} : io'[w] = io[w]
      /\ \A y \in DOMAIN io'[v] : FALSE
  BY StopBeside
<1>2. IoKinds'
  BY <1>1 DEF Plans, IoKinds
<1>3. ASSUME NEW a \in Admins, Serving(a)'
      PROVE  Plan(a)'
  <2>1. a \notin gone
    BY <1>1, <1>3 DEF Serving
  <2>2. pc'[a] = pc[a] /\ job'[a] = job[a] /\ a \in Processes
    BY <1>1, <2>1, Kinds0 DEF Beside
  <2>3. Serving(a) /\ Plan(a) /\ job[a].at \in Workers
    BY <1>3, <2>2, JobsAre DEF Plans, Serving, Types, Moves, Busied
  <2>4. job[a].at \in Processes \ gone
    BY <2>1, <2>3, Kinds0
  <2>5. pc'[job[a].at] = "up"
    BY <1>1, <2>3, <2>4 DEF Beside, Plan
  <2> QED
    BY <2>2, <2>3, <2>5 DEF Plan
<1> QED
  BY <1>2, <1>3 DEF Plans

LEMMA StartupBeside ==
  ASSUME Types, NEW v \in Workers, Startup(v)
  PROVE  /\ Beside({v}) /\ job' = job
         /\ pc[v] \in {"down", "bundles"} /\ pc'[v] \in {"bundles", "load"}
         /\ UNCHANGED <<rows, engVars>> /\ excused \subseteq excused'
         /\ pc[v] = "down" => Sdk \X (Workers \ {v}) \subseteq excused'
         /\ \A x : x \notin Sdk => (x \in sdkOn' <=> x \in sdkOn)
<1>1. v \in Processes /\ off \in [Processes -> SUBSET (Sdk \cup Custom)]
  BY Kinds0 DEF Types, Stores
<1>2. CASE InitDb(v)
  <2>1. /\ \A q \in Processes \ {v} : pc'[q] = pc[q]
        /\ job' = job /\ pc'[v] = "bundles"
    BY <1>1, <1>2, GotoBeside DEF InitDb
  <2> QED
    BY <1>1, <1>2, <2>1 DEF InitDb, Beside, dbVars
<1>3. CASE Imported(v)
  <2>1. /\ \A q \in Processes \ {v} : pc'[q] = pc[q]
        /\ job' = job /\ pc'[v] = "load"
    BY <1>1, <1>3, GotoBeside DEF Imported
  <2> QED
    BY <1>3, <2>1 DEF Imported, Beside, dbVars, histVars
<1>4. CASE \E bundle \in SUBSET Sdk : ImportBundle(v, bundle)
  <2>1. PICK bundle \in SUBSET Sdk : ImportBundle(v, bundle)
    BY <1>4
  <2>2. PICK out : sdkOn' = sdkOn \cup (bundle \ out)
    BY <2>1 DEF ImportBundle
  <2>3. \A q \in Processes \ {v} : off'[q] = off[q]
    BY <1>1, <2>1 DEF ImportBundle
  <2> QED
    BY <2>1, <2>2, <2>3 DEF ImportBundle, TablesChange, Beside
<1> QED
  BY <1>2, <1>3, <1>4 DEF Startup

LEMMA StartupTidy ==
  ASSUME Types, Plans, Told, Causes, NEW v \in Workers, Startup(v),
         NEW x \in Sdk \cup Custom, NEW w \in Workers, <<x, w>> \notin excused'
  PROVE  Tidy(x, w)'
<1>1. /\ Beside({v}) /\ job' = job
      /\ pc[v] \in {"down", "bundles"} /\ pc'[v] \in {"bundles", "load"}
      /\ UNCHANGED <<rows, engVars>> /\ excused \subseteq excused'
      /\ pc[v] = "down" => Sdk \X (Workers \ {v}) \subseteq excused'
      /\ x \notin Sdk => (x \in sdkOn' <=> x \in sdkOn)
  BY StartupBeside
<1>2. Tidy(x, w) /\ v \in Processes /\ v \notin Admins
  BY <1>1, Kinds0 DEF Causes
<1>3. Sole(x, w)
  BY <1>2, Zenon DEF Tidy
<1>4. x \in DOMAIN rows' => rows'[x].kind # "both"
  BY <1>1, <1>2, Zenon DEF Tidy
<1>5. CASE w # v
  <2>1. x \notin Sdk
    <3>1. Sdk \X (Workers \ {v}) \subseteq excused'
      BY <1>1 DEF Told
    <3> QED
      BY <1>5, <3>1
  <2>2. SameTables(x)
    BY <1>1, <2>1 DEF SameTables
  <2>3. SameEngines(x, w)
    BY <1>1 DEF SameEngines, engVars, IoActive, CrActive
  <2>4. ~ReloadingAt(v, w) /\ ~ReloadingAt(v, w)'
    BY <1>5 DEF ReloadingAt, Home
  <2> DEFINE G == {v}
  <2>5. G \in SUBSET Processes /\ Beside(G) /\ w \notin G /\ G \cap Admins = {}
    BY <1>1, <1>2, <1>5
  <2>6. \A p \in G : p = v
    OBVIOUS
  <2> HIDE DEF G
  <2> QED
    BY <1>2, <2>2, <2>3, <2>4, <2>5, <2>6, Kept DEF Types
<1>6. CASE w = v
  <2>1. ASSUME NEW a \in Admins, Serving(a), job[a].at = w
        PROVE  FALSE
    BY <1>1, <1>6, <2>1 DEF Plans, Plan
  <2>2. \A a \in Admins : /\ pc'[a] = pc[a] /\ a \in Processes /\ a \notin Workers
                          /\ Serving(a)' <=> Serving(a)
    BY <1>1, Kinds0 DEF Beside, Serving
  <2>3. \A a \in Admins : ~Asks(a, x)'
    BY <1>1, <1>3, <2>1, <2>2 DEF Sole, Asks
  <2>4. ASSUME NEW p \in Processes, ReloadingAt(p, w)'
        PROVE  p = v
    <3>1. CASE p \in Workers
      BY <1>6, <2>4, <3>1 DEF ReloadingAt, Home
    <3>2. CASE p \in Admins
      <4>1. Serving(p) /\ job[p].at = w
        BY <1>1, <2>2, <2>4, <3>2 DEF ReloadingAt, Home, Reloading, Serving
      <4> QED
        BY <2>1, <3>2, <4>1
    <3> QED
      BY <3>1, <3>2 DEF Processes
  <2>5. \A p \in Processes : ReloadingAt(p, w)' => Reads(x, p)'
    BY <1>1, <2>4 DEF Reads, ReloadingAt, Reloading
  <2>6. {"bundles", "load"} \subseteq IoSteps(x)' /\ {"bundles", "load"} \subseteq CrSteps(x)'
    BY DEF IoSteps, CrSteps, Early, BeforeOff
  <2>7. Home(v)' = w
    BY <1>1, <1>6 DEF Home
  <2>8. InSync(x, IoSteps(x), w)' /\ InSync(x, CrSteps(x), w)'
    BY <1>1, <1>2, <2>6, <2>7 DEF InSync
  <2>9. Loaded(x, w)'
    BY <1>1, <1>6 DEF Loaded, Early
  <2> QED
    BY <1>4, <2>3, <2>5, <2>8, <2>9 DEF Tidy, Sole
<1> QED
  BY <1>5, <1>6

LEMMA StartupPlans ==
  ASSUME Types, Plans, NEW v \in Workers, Startup(v)
  PROVE  Plans'
<1> DEFINE G == {v}
<1>1. /\ Beside(G) /\ pc[v] \in {"down", "bundles"} /\ UNCHANGED engVars
      /\ G \in SUBSET Processes /\ G \cap Admins = {}
  BY StartupBeside, Kinds0
<1>2. \A w \in Workers : pc[w] = "up" => pc'[w] = "up"
  BY <1>1, Kinds0 DEF Beside
<1>3. IoKinds'
  BY <1>1 DEF Plans, IoKinds, engVars
<1> HIDE DEF G
<1> QED
  BY <1>1, <1>2, <1>3, PlansKept

LEMMA FailTidy ==
  ASSUME Types, Plans, Causes, NEW p \in Processes, Fail(p),
         NEW x \in Sdk \cup Custom, NEW w \in Workers, <<x, w>> \notin excused'
  PROVE  Tidy(x, w)'
<1>1. /\ UNCHANGED <<dbVars, engVars>> /\ End(p) /\ pc[p] \notin {"idle", "up", "down", "bundles"}
      /\ excused \subseteq excused'
      /\ Home(p) = w => ~(p \in Workers \/ job[p].op = "import_sdk") /\ x # job[p].rule
  BY DEF Fail
<1>2. Beside({p}) /\ pc'[p] = IF p \in Workers THEN "up" ELSE "idle"
  BY <1>1, EndBeside
<1>3. Tidy(x, w)
  BY <1>1 DEF Causes
<1>4. Sole(x, w)
  BY <1>3, Zenon DEF Tidy
<1>5. p # w
  BY <1>1 DEF Home
<1>6. ASSUME p \in Admins
      PROVE  ~Asks(p, x) /\ ~Asks(p, x)' /\ ~Serving(p)'
  BY <1>1, <1>2, <1>4, <1>6, Kinds0 DEF Sole, Asks, Serving, Home
<1>7. ASSUME ReloadingAt(p, w)
      PROVE  FALSE
  BY <1>1, <1>7, Kinds0 DEF ReloadingAt, Plans, Plan, Serving, Processes
<1>8. ~ReloadingAt(p, w)'
  BY <1>2 DEF ReloadingAt, Reloading
<1>9. SameTables(x) /\ SameEngines(x, w)
  BY <1>1 DEF SameTables, SameEngines, dbVars, engVars, IoActive, CrActive
<1> DEFINE G == {p}
<1>10. G \in SUBSET Processes /\ Beside(G) /\ w \notin G
  BY <1>2, <1>5
<1>11. \A q \in G : q = p
  OBVIOUS
<1> HIDE DEF G
<1> QED
  BY <1>3, <1>6, <1>7, <1>8, <1>9, <1>10, <1>11, Kept DEF Types

LEMMA FailPlans ==
  ASSUME Types, Plans, NEW p \in Processes, Fail(p)
  PROVE  Plans'
<1>1. UNCHANGED engVars /\ End(p)
  BY DEF Fail
<1>2. Beside({p}) /\ pc'[p] = IF p \in Workers THEN "up" ELSE "idle"
  BY <1>1, EndBeside
<1>3. \A w \in Workers : pc[w] = "up" => pc'[w] = "up"
  BY <1>2, Kinds0 DEF Beside
<1>4. IoKinds'
  BY <1>1 DEF Plans, IoKinds, engVars
<1> DEFINE G == {p}
<1>5. G \in SUBSET Processes /\ Beside(G) /\ \A a \in G \cap Admins : ~Serving(a)'
  BY <1>2, Kinds0 DEF Serving
<1> HIDE DEF G
<1> QED
  BY <1>3, <1>4, <1>5, PlansKept

-----------------------------------------------------------------------------
(***************************************************************************)
(* The invariant                                                           *)
(***************************************************************************)
LEMMA InitCauses ==
  ASSUME Init
  PROVE  Plans /\ Told /\ Causes
<1>1. /\ \A a \in Admins : ~Serving(a)
      /\ \A w \in Workers : pc[w] = "down"
      /\ \A w \in Workers : DOMAIN io[w] = {} /\ rows = NoRule
  BY Kinds0 DEF Init, Serving, NoRule
<1>2. Plans
  BY <1>1 DEF Plans, IoKinds
<1>3. ASSUME NEW x, NEW w \in Workers
      PROVE  Tidy(x, w)
  BY <1>1 DEF Tidy, Sole, Asks, NoRule
<1> QED
  BY <1>1, <1>2, <1>3 DEF Causes, Told

\* Who is told of a start stays so.
LEMMA ToldStep ==
  ASSUME Types, Plans, Told, Next
  PROVE  Told'
<1>1. SUFFICES ASSUME NEW v \in Workers, pc'[v] = "bundles"
               PROVE  Sdk \X (Workers \ {v}) \subseteq excused'
  BY DEF Told
<1>2. v \in Processes /\ v \notin Admins
  BY Kinds0
<1>3. pc[v] = "bundles" /\ excused \subseteq excused' => Sdk \X (Workers \ {v}) \subseteq excused'
  BY DEF Told
<1>4. ASSUME NEW a \in Admins, NEW w \in Workers, Request(a, w)
      PROVE  pc[v] = "bundles" /\ excused \subseteq excused'
  <2>1. PICK op, r, arg : Begins(a, w, op, r, arg)
    BY <1>4, RequestBegins
  <2> QED
    BY <1>1, <1>2, <2>1 DEF Begins, Start, Beside
<1>5. ASSUME NEW a \in Admins, Handle(a)
      PROVE  pc[v] = "bundles" /\ excused \subseteq excused'
  BY <1>1, <1>2, <1>5, HandleBeside DEF Beside
<1>6. ASSUME NEW p \in Processes, Reload(p)
      PROVE  pc[v] = "bundles" /\ excused \subseteq excused'
  <2>1. /\ pc[p] \in Reloading /\ Beside({p}) /\ UNCHANGED excused
        /\ \/ pc'[p] = After(pc[p]) \/ pc'[p] \in {"up", "idle"}
    BY <1>6, ReloadBeside
  <2>2. After(pc[p]) # "bundles"
    BY <2>1 DEF After, Reloading
  <2> QED
    BY <1>1, <1>2, <2>1, <2>2 DEF Beside
<1>7. ASSUME NEW w \in Workers, Stop(w)
      PROVE  pc[v] = "bundles" /\ excused \subseteq excused'
  <2> DEFINE gone == {w} \cup {a \in Admins : Serving(a) /\ job[a].at = w}
  <2>1. Beside(gone) /\ UNCHANGED excused /\ pc'[w] = "down"
    BY <1>7, StopBeside
  <2>2. v # w => v \notin gone
    BY <1>2
  <2> HIDE DEF gone
  <2> QED
    BY <1>1, <1>2, <2>1, <2>2 DEF Beside
<1>8. ASSUME NEW w \in Workers, Startup(w)
      PROVE  \/ pc[v] = "bundles" /\ excused \subseteq excused'
             \/ Sdk \X (Workers \ {v}) \subseteq excused'
  <2>1. /\ Beside({w}) /\ excused \subseteq excused' /\ pc[w] \in {"down", "bundles"}
        /\ pc[w] = "down" => Sdk \X (Workers \ {w}) \subseteq excused'
    BY <1>8, StartupBeside
  <2> QED
    BY <1>1, <1>2, <2>1 DEF Beside
<1>9. ASSUME NEW p \in Processes, Fail(p)
      PROVE  pc[v] = "bundles" /\ excused \subseteq excused'
  <2>1. End(p) /\ excused \subseteq excused'
    BY <1>9 DEF Fail
  <2> QED
    BY <1>1, <1>2, <2>1, EndBeside DEF Beside
<1> QED
  BY <1>3, <1>4, <1>5, <1>6, <1>7, <1>8, <1>9 DEF Next, Calm

LEMMA CausesStep ==
  ASSUME CInv, [Next]_vars
  PROVE  Plans' /\ Causes'
<1>1. Types /\ Plans /\ Told /\ Causes
  BY DEF CInv
<1>2. ASSUME NEW a \in Admins, NEW w \in Workers, Request(a, w)
      PROVE  Plans' /\ Causes'
  BY <1>1, <1>2, BeginPlans, BeginTidy DEF Causes
<1>3. ASSUME NEW a \in Admins, Handle(a)
      PROVE  Plans' /\ Causes'
  BY <1>1, <1>3, HandlePlans, HandleTidy DEF Causes
<1>4. ASSUME NEW p \in Processes, Reload(p)
      PROVE  Plans' /\ Causes'
  BY <1>1, <1>4, ReloadPlans, ReloadTidy DEF Causes
<1>5. ASSUME NEW v \in Workers, Stop(v)
      PROVE  Plans' /\ Causes'
  BY <1>1, <1>5, StopPlans, StopTidy DEF Causes
<1>6. ASSUME NEW v \in Workers, Startup(v)
      PROVE  Plans' /\ Causes'
  BY <1>1, <1>6, StartupPlans, StartupTidy DEF Causes
<1>7. ASSUME NEW p \in Processes, Fail(p)
      PROVE  Plans' /\ Causes'
  BY <1>1, <1>7, FailPlans, FailTidy DEF Causes
<1>8. ASSUME UNCHANGED vars
      PROVE  Plans' /\ Causes'
  <2>1. UNCHANGED <<sdkOn, rows, io, scanner, pc, job, seen, snap, off, excused>>
    BY <1>8 DEF vars, dbVars, engVars, reqVars, histVars
  <2>2. Plans'
    BY <1>1, <2>1 DEF Plans, IoKinds, Serving, Plan
  <2>3. ASSUME NEW x \in Sdk \cup Custom, NEW w \in Workers, <<x, w>> \notin excused'
        PROVE  Tidy(x, w)'
    <3>1. Tidy(x, w)
      BY <1>1, <2>1, <2>3 DEF Causes
    <3>2. SameTables(x) /\ SameEngines(x, w) /\ Beside({})
      BY <2>1 DEF SameTables, SameEngines, IoActive, CrActive, Beside
    <3> DEFINE G == {}
    <3>3. G \in SUBSET Processes /\ \A a \in G : FALSE
      OBVIOUS
    <3>4. Beside(G)
      BY <3>2
    <3> HIDE DEF G
    <3> QED
      BY <3>1, <3>2, <3>3, <3>4, <1>1, Kept DEF Types
  <2> QED
    BY <2>2, <2>3 DEF Causes
<1> QED
  BY <1>2, <1>3, <1>4, <1>5, <1>6, <1>7, <1>8 DEF Next, Calm

LEMMA CausesHold ==
  Spec => []CInv
<1>1. Init => CInv
  BY InitTypes, InitCauses DEF CInv
<1>2. CInv /\ [Next]_vars => CInv'
  <2>1. CInv /\ [Next]_vars => Types'
    BY MoveStep, StoreStep DEF CInv, Types
  <2>2. CInv /\ [Next]_vars => Told'
    <3>1. CInv /\ UNCHANGED vars => Told'
      BY DEF CInv, Told, vars, reqVars, histVars
    <3> QED
      BY <3>1, ToldStep DEF CInv
  <2> QED
    BY <2>1, <2>2, CausesStep DEF CInv
<1> QED
  BY <1>1, <1>2, PTL DEF Spec

-----------------------------------------------------------------------------
(***************************************************************************)
(* Custom rules in the scanner: only a reload puts them there or takes     *)
(* them out. Where rule x does not lag in worker w, what every reload of w *)
(* holds of x as a code review rule is what the row says, so that the      *)
(* scanner has x unless a reload has yet to add it, and has a disabled x   *)
(* only until the end of a reload.                                         *)
(***************************************************************************)
Sees(x, p) ==
  /\ pc[p] # "load" => Reviewed(snap[p], x) = Reviewed(rows, x)
  /\ pc[p] = "custom_off" =>
       /\ x \in off[p] => x \in DOMAIN snap[p]
       /\ \A row \in Reviewed(rows, x) : x \in off[p] <=> ~row.enabled

Finding == {"bundles", "load", "scanner", "customs"}
ToFind(w) == pc[w] = "down" \/ \E p \in Processes : pc[p] \in Finding /\ Home(p) = w

Follows(x, w) ==
  /\ \A p \in Processes : ReloadingAt(p, w) => Sees(x, p)
  /\ x \in DOMAIN scanner[w] => \E row \in Reviewed(rows, x) : row.pattern
  /\ (\E row \in Reviewed(rows, x) : row.enabled /\ row.pattern) =>
       x \in DOMAIN scanner[w] \/ ToFind(w)
  /\ x \in DOMAIN scanner[w] /\ (\E row \in Reviewed(rows, x) : ~row.enabled) =>
       \E p \in Processes : ReloadingAt(p, w)

Scanners ==
  /\ \A w \in Workers : \A x \in DOMAIN scanner[w] \cap Custom : scanner[w][x].enabled
  /\ \A w \in Workers : pc[w] \in Unread => DOMAIN scanner[w] = {}
  /\ \A x \in Custom, w \in Workers : <<x, w>> \notin lagging => Follows(x, w)

LEMMA FollowsKept ==
  ASSUME Moves, NEW x, NEW w \in Workers, NEW G \in SUBSET Processes, Follows(x, w),
         Beside(G), w \notin G, Reviewed(rows', x) = Reviewed(rows, x),
         x \in DOMAIN scanner'[w] <=> x \in DOMAIN scanner[w],
         \A p \in G : ~ReloadingAt(p, w) /\ (ReloadingAt(p, w)' => pc'[p] = "load")
  PROVE  Follows(x, w)'
<1>1. \A p \in Processes \ G : /\ pc'[p] = pc[p] /\ Home(p)' = Home(p)
                               /\ snap'[p] = snap[p] /\ off'[p] = off[p]
  BY DEF Beside, Home
<1>2. ASSUME NEW p \in Processes, ReloadingAt(p, w)'
      PROVE  Sees(x, p)'
  <2>1. CASE p \in G
    BY <1>2, <2>1 DEF Sees
  <2>2. CASE p \notin G
    <3>1. Sees(x, p)
      BY <1>1, <1>2, <2>2 DEF Follows, ReloadingAt
    <3> QED
      BY <1>1, <2>2, <3>1 DEF Sees
  <2> QED
    BY <2>1, <2>2
<1>3. ToFind(w) => ToFind(w)'
  <2>1. pc'[w] = pc[w]
    BY <1>1, Kinds0
  <2>2. ASSUME NEW p \in Processes, pc[p] \in Finding, Home(p) = w
        PROVE  p \notin G
    <3>1. CASE pc[p] = "bundles"
      BY <2>2, <3>1, StartingWorker DEF Home
    <3>2. CASE pc[p] # "bundles"
      BY <2>2, <3>2 DEF ReloadingAt, Finding, Reloading
    <3> QED
      BY <3>1, <3>2
  <2> QED
    BY <1>1, <2>1, <2>2 DEF ToFind
<1>4. (\E p \in Processes : ReloadingAt(p, w)) => \E p \in Processes : ReloadingAt(p, w)'
  BY <1>1 DEF ReloadingAt
<1> QED
  BY <1>2, <1>3, <1>4 DEF Follows

\* A worker that has not read the custom rules yet.
LEMMA UnreadFollows ==
  ASSUME Plans', Types', NEW x, NEW w \in Workers, pc'[w] \in Unread, DOMAIN scanner'[w] = {}
  PROVE  Follows(x, w)'
<1>1. ASSUME NEW p \in Processes, ReloadingAt(p, w)'
      PROVE  p = w
  <2>1. CASE p \in Admins
    <3>1. Serving(p)' /\ job'[p].at = w
      BY <1>1, <2>1, Kinds0 DEF ReloadingAt, Serving, Reloading, Home
    <3>2. pc'[w] = "up"
      BY <2>1, <3>1 DEF Plans, Plan
    <3> QED
      BY <3>2 DEF Unread
  <2>2. CASE p \in Workers
    BY <1>1, <2>2 DEF ReloadingAt, Home
  <2> QED
    BY <2>1, <2>2 DEF Processes
<1>2. \A p \in Processes : ReloadingAt(p, w)' => Sees(x, p)'
  BY <1>1 DEF Sees, ReloadingAt, Reloading, Unread
<1>3. ToFind(w)'
  BY Kinds0 DEF ToFind, Unread, Finding, Home
<1> QED
  BY <1>2, <1>3 DEF Follows

LEMMA RequestScanners ==
  ASSUME Types, Scanners, NEW a \in Admins, NEW h \in Workers, Request(a, h)
  PROVE  Scanners'
<1>1. PICK op, r, arg : Begins(a, h, op, r, arg)
  BY RequestBegins
<1> DEFINE G == {a}
<1>2. /\ UNCHANGED <<rows, scanner, lagging>> /\ pc[a] = "idle"
      /\ G \in SUBSET Processes /\ Beside(G) /\ pc'[a] = "commit" /\ a \notin Workers
  BY <1>1, Kinds0 DEF Begins, Start, dbVars, engVars
<1>3. \A p \in G : ~ReloadingAt(p, h) /\ p = a
  BY <1>2 DEF ReloadingAt, Reloading
<1>4. \A w \in Workers, p \in G : ~ReloadingAt(p, w) /\ ~ReloadingAt(p, w)' /\ w \notin G
  BY <1>2, <1>3 DEF ReloadingAt, Reloading
<1> HIDE DEF G
<1>5. \A w \in Workers : pc'[w] = pc[w]
  BY <1>2, <1>4, Kinds0 DEF Beside, G
<1>6. ASSUME NEW x \in Custom, NEW w \in Workers, <<x, w>> \notin lagging'
      PROVE  Follows(x, w)'
  <2>1. Follows(x, w) /\ w \notin G
    BY <1>2, <1>6 DEF Scanners, G
  <2> QED
    BY <1>2, <1>4, <2>1, FollowsKept DEF Types
<1> QED
  BY <1>2, <1>5, <1>6 DEF Scanners

\* Requests change no custom rule in a scanner.
LEMMA HandleScanner ==
  ASSUME Types, Plans, NEW a \in Admins, Handle(a), NEW w \in Workers
  PROVE  /\ DOMAIN scanner'[w] = DOMAIN scanner[w]
         /\ \A x \in Custom : SameEntry(scanner[w], scanner'[w], x)
<1>1. CASE Switch(a)
  <2>1. job[a].rule \in Sdk /\ job[a] \in Job
    BY <1>1, HandleBeside, JobsAre DEF Switch, Plans, Plan
  <2>2. \/ scanner'[w] = scanner[w]
        \/ \E e : scanner'[w] = SwitchedTo(scanner[w], {job[a].rule}, e)
    BY <1>1 DEF Switch, Types, Stores
  <2>3. \A x \in Custom : x # job[a].rule
    BY <2>1, Disjoint
  <2>4. DOMAIN scanner'[w] = DOMAIN scanner[w]
    BY <2>2 DEF SwitchedTo
  <2> QED
    BY <2>2, <2>3, <2>4, EntriesBeside
<1>2. CASE UNCHANGED scanner
  BY <1>2 DEF SameEntry
<1> QED
  BY <1>1, <1>2 DEF Handle, CommitCreate, CommitUpdate, CommitToggle, CommitDelete, CommitImport,
     CommitImportSdk, Insert, Update, SetEnabled, Refresh, Remove, Add, engVars

LEMMA HandleLags ==
  ASSUME NEW a \in Admins, Handle(a), NEW x \in Custom, NEW w \in Workers, <<x, w>> \notin lagging'
  PROVE  /\ <<x, w>> \notin lagging
         /\ Reviewed(rows', x) = Reviewed(rows, x) \/ pc[w] \in Unread
<1>1. TablesChange \/ UNCHANGED <<rows, lagging>>
  BY DEF Handle, CommitCreate, CommitUpdate, CommitToggle, CommitDelete, CommitImport,
     CommitImportSdk, Insert, Update, SetEnabled, Refresh, Switch, Remove, Add, EngineChange,
     dbVars, histVars
<1>2. CASE TablesChange
  <2> DEFINE changed == {y \in Custom : Reviewed(rows', y) # Reviewed(rows, y)}
             told    == {v \in Workers : pc[v] \notin Unread}
  <2>1. lagging' = lagging \cup (changed \X told)
    BY <1>2 DEF TablesChange
  <2>2. x \notin changed \/ w \notin told
    BY <2>1
  <2>3. <<x, w>> \notin lagging
    BY <2>1
  <2> QED
    BY <2>2, <2>3
<1>3. CASE UNCHANGED <<rows, lagging>>
  BY <1>3
<1> QED
  BY <1>1, <1>2, <1>3

LEMMA HandleScanners ==
  ASSUME Types, Types', Plans, Plans', Scanners, NEW a \in Admins, Handle(a)
  PROVE  Scanners'
<1> DEFINE G == {a}
<1>1. /\ a \notin Workers /\ pc[a] \notin Reloading
      /\ G \in SUBSET Processes /\ Beside(G)
      /\ pc'[a] = "idle" \/ pc'[a] \in Syncing \cup {"load"}
  BY HandleBeside
<1>2. \A w \in Workers : /\ \A p \in G : /\ ~ReloadingAt(p, w)
                                         /\ ReloadingAt(p, w)' => pc'[p] = "load"
                         /\ w \notin G /\ pc'[w] = pc[w]
  BY <1>1, Kinds0 DEF ReloadingAt, Reloading, Syncing, Beside
<1> HIDE DEF G
<1>3. ASSUME NEW x \in Custom, NEW w \in Workers, <<x, w>> \notin lagging'
      PROVE  Follows(x, w)'
  <2>1. <<x, w>> \notin lagging /\ (Reviewed(rows', x) = Reviewed(rows, x) \/ pc[w] \in Unread)
    BY <1>3, HandleLags
  <2>2. /\ DOMAIN scanner'[w] = DOMAIN scanner[w] /\ Follows(x, w)
        /\ pc[w] \in Unread => DOMAIN scanner[w] = {}
    BY <2>1, HandleScanner DEF Scanners
  <2>3. CASE Reviewed(rows', x) = Reviewed(rows, x)
    BY <1>1, <1>2, <2>2, <2>3, FollowsKept DEF Types
  <2>4. CASE pc[w] \in Unread
    BY <1>2, <2>2, <2>4, UnreadFollows
  <2> QED
    BY <2>1, <2>3, <2>4
<1>4. ASSUME NEW w \in Workers
      PROVE  /\ \A x \in DOMAIN scanner'[w] \cap Custom : scanner'[w][x].enabled
             /\ pc'[w] \in Unread => DOMAIN scanner'[w] = {}
  <2>1. /\ DOMAIN scanner'[w] = DOMAIN scanner[w]
        /\ \A x \in Custom : SameEntry(scanner[w], scanner'[w], x)
    BY HandleScanner
  <2> QED
    BY <1>2, <2>1 DEF Scanners, SameEntry
<1> QED
  BY <1>3, <1>4 DEF Scanners

LEMMA StopScanners ==
  ASSUME Types, Types', Plans, Plans', Scanners, NEW v \in Workers, Stop(v)
  PROVE  Scanners'
<1> DEFINE gone == {v} \cup {a \in Admins : Serving(a) /\ job[a].at = v}
<1>1. /\ gone \in SUBSET Processes /\ Beside(gone) /\ UNCHANGED rows
      /\ pc'[v] = "down" /\ \A a \in gone \cap Admins : pc'[a] = "idle"
      /\ \A w \in Workers \ {v} : scanner'[w] = scanner[w]
      /\ DOMAIN scanner'[v] = {}
  BY StopBeside DEF dbVars
<1>2. /\ \A p \in gone : Home(p) = v /\ (p \in Admins \/ p = v)
      /\ \A w \in Workers : w \in gone => w = v
  BY Kinds0 DEF Home
<1> HIDE DEF gone
<1>3. \A w \in Workers \ {v} : pc'[w] = pc[w]
  BY <1>1, <1>2, Kinds0 DEF Beside
<1>4. lagging' = lagging \ (Custom \X {v})
  BY DEF Stop
<1>5. ASSUME NEW x \in Custom, NEW w \in Workers, <<x, w>> \notin lagging'
      PROVE  Follows(x, w)'
  <2>1. CASE w = v
    BY <1>1, <2>1, UnreadFollows DEF Unread
  <2>2. CASE w # v
    <3>1. Follows(x, w)
      BY <1>4, <1>5, <2>2 DEF Scanners
    <3>2. w \notin gone /\ \A p \in gone : ~ReloadingAt(p, w) /\ ~ReloadingAt(p, w)'
      BY <1>1, <1>2, <2>2 DEF ReloadingAt, Reloading
    <3> QED
      BY <1>1, <2>2, <3>1, <3>2, FollowsKept DEF Types
  <2> QED
    BY <2>1, <2>2
<1> QED
  BY <1>1, <1>3, <1>5 DEF Scanners

LEMMA StartupScanners ==
  ASSUME Types, Types', Plans, Plans', Scanners, NEW v \in Workers, Startup(v)
  PROVE  Scanners'
<1> DEFINE G == {v}
<1>1. /\ Beside(G) /\ G \in SUBSET Processes /\ UNCHANGED <<rows, scanner>>
      /\ pc[v] \in {"down", "bundles"} /\ pc'[v] \in {"bundles", "load"}
      /\ \A w \in Workers \ {v} : pc'[w] = pc[w]
  BY StartupBeside, Kinds0 DEF engVars, Beside
<1>2. lagging \subseteq lagging'
  BY DEF Startup, InitDb, Imported, ImportBundle, TablesChange, histVars
<1>3. \A w \in Workers \ {v} : w \notin G /\ \A p \in G : ~ReloadingAt(p, w) /\ ~ReloadingAt(p, w)'
  BY DEF ReloadingAt, Home
<1> HIDE DEF G
<1>4. DOMAIN scanner[v] = {}
  BY <1>1 DEF Scanners, Unread
<1>5. ASSUME NEW x \in Custom, NEW w \in Workers, <<x, w>> \notin lagging'
      PROVE  Follows(x, w)'
  <2>1. CASE w = v
    BY <1>1, <1>4, <2>1, UnreadFollows DEF Unread
  <2>2. CASE w # v
    <3>1. Follows(x, w)
      BY <1>2, <1>5 DEF Scanners
    <3> QED
      BY <1>1, <1>3, <2>2, <3>1, FollowsKept DEF Types
  <2> QED
    BY <2>1, <2>2
<1> QED
  BY <1>1, <1>4, <1>5 DEF Scanners

LEMMA FailScanners ==
  ASSUME Types, Plans, Scanners, NEW p \in Processes, Fail(p)
  PROVE  Scanners'
<1> DEFINE G == {p}
<1>1. /\ UNCHANGED <<rows, scanner>> /\ End(p) /\ lagging \subseteq lagging'
      /\ pc[p] \notin {"idle", "up", "down", "bundles"}
      /\ p \in Workers \/ job[p].op = "import_sdk" => Custom \X {Home(p)} \subseteq lagging'
  BY DEF Fail, dbVars, engVars
<1>2. Beside(G) /\ pc'[p] = (IF p \in Workers THEN "up" ELSE "idle") /\ G \in SUBSET Processes
  BY <1>1, EndBeside
<1>3. \A w \in Workers \ {p} : pc'[w] = pc[w] /\ w \notin G
  BY <1>2, Kinds0 DEF Beside
<1>4. ASSUME NEW x \in Custom, NEW w \in Workers, <<x, w>> \notin lagging'
      PROVE  Follows(x, w)'
  <2>1. Follows(x, w)
    BY <1>1, <1>4 DEF Scanners
  <2>2. ASSUME Home(p) = w
        PROVE  ~(p \in Workers \/ job[p].op = "import_sdk")
    BY <1>1, <1>4, <2>2
  <2>3. w # p
    BY <2>2 DEF Home
  <2>4. ~ReloadingAt(p, w)
    BY <1>1, <2>2, Kinds0 DEF ReloadingAt, Plans, Plan, Serving, Processes
  <2>5. \A q \in G : ~ReloadingAt(q, w) /\ ~ReloadingAt(q, w)'
    BY <1>2, <2>4 DEF ReloadingAt, Reloading
  <2> HIDE DEF G
  <2> QED
    BY <1>1, <1>2, <1>3, <2>1, <2>3, <2>5, FollowsKept DEF Types
<1>5. ASSUME NEW w \in Workers, pc'[w] \in Unread
      PROVE  DOMAIN scanner'[w] = {}
  <2>1. w # p
    BY <1>2, <1>5 DEF Unread
  <2> QED
    BY <1>1, <1>3, <1>5, <2>1 DEF Scanners
<1> QED
  BY <1>1, <1>4, <1>5 DEF Scanners

\* Reading more rows tells a reload nothing new of x.
LEMMA HeldReviewed ==
  ASSUME NEW p, NEW x, NEW xs \in SUBSET DOMAIN rows, Reviewed(snap[p], x) = Reviewed(rows, x)
  PROVE  Reviewed(Held(p, xs), x) = Reviewed(rows, x)
<1>1. x \in DOMAIN Held(p, xs) <=> x \in DOMAIN snap[p] \cup xs
  BY DEF Held
<1>2. x \in DOMAIN snap[p] => Held(p, xs)[x] = snap[p][x]
  BY DEF Held
<1>3. x \in xs \ DOMAIN snap[p] => Held(p, xs)[x] = rows[x]
  BY DEF Held
<1>4. CASE x \in DOMAIN snap[p]
  BY <1>1, <1>2, <1>4 DEF Reviewed
<1>5. CASE x \notin DOMAIN snap[p]
  BY <1>1, <1>3, <1>5 DEF Reviewed
<1> QED
  BY <1>4, <1>5

LEMMA ReviewedIs ==
  ASSUME NEW f, NEW x, NEW row \in Reviewed(f, x)
  PROVE  x \in DOMAIN f /\ f[x].kind \in Review /\ row = f[x]
BY DEF Reviewed

LEMMA ReviewIsWanted ==
  ASSUME Stores, NEW x
  PROVE  x \in CrWanted <=> \/ x \in CrSdk \cap sdkOn
                            \/ \E row \in Reviewed(rows, x) : row.enabled /\ row.pattern
<1>1. x \in Wanted(Review) <=> /\ x \in DOMAIN rows /\ rows[x].kind \in Review
                               /\ rows[x].enabled /\ rows[x].pattern
  BY DEF Wanted
<1>2. x \in DOMAIN rows /\ rows[x].kind \in Review => Reviewed(rows, x) = {rows[x]}
  BY DEF Reviewed
<1> QED
  BY <1>1, <1>2, ReviewedIs DEF CrWanted

\* Only the last step of a reload changes who lags: a whole one frees its
\* worker's scanner of every lag, any other leaves what it left in there.
LEMMA ReloadLags ==
  ASSUME Types, NEW p \in Processes, Reload(p), NEW x \in Custom, NEW w \in Workers,
         <<x, w>> \notin lagging'
  PROVE  \/ <<x, w>> \notin lagging
         \/ /\ w = Home(p) /\ CustomOff(p) /\ w \in fresh'
            /\ \A a \in Busy(w, p) : job[a].op # "import_sdk"
<1>1. CASE CustomOff(p)
  <2>1. CASE <<x, w>> \notin lagging
    BY <2>1
  <2>2. CASE <<x, w>> \in lagging
    BY <1>1, <2>2 DEF CustomOff
  <2> QED
    BY <2>1, <2>2
<1>2. CASE ~CustomOff(p)
  BY <1>2 DEF Reload, Load, SetScanner, AddCustoms, Inject, FindOff, SwitchOff, FindCustomOff,
     EngineChange, histVars
<1> QED
  BY <1>1, <1>2

LEMMA OthersSee ==
  ASSUME NEW p \in Processes, Beside({p}), UNCHANGED rows, NEW x, NEW w, Follows(x, w),
         NEW q \in Processes \ {p}, ReloadingAt(q, w)'
  PROVE  Sees(x, q)'
<1>1. pc'[q] = pc[q] /\ Home(q)' = Home(q) /\ snap'[q] = snap[q] /\ off'[q] = off[q]
  BY DEF Beside, Home
<1>2. Sees(x, q)
  BY <1>1 DEF Follows, ReloadingAt
<1> QED
  BY <1>1, <1>2 DEF Sees

LEMMA OthersFind ==
  ASSUME NEW p \in Processes, Beside({p}), pc[p] \notin Finding \cup {"down"}, NEW w \in Workers,
         ToFind(w)
  PROVE  ToFind(w)'
<1>1. \A q \in Processes \ {p} : pc'[q] = pc[q] /\ Home(q)' = Home(q)
  BY DEF Beside, Home
<1> QED
  BY <1>1, Kinds0 DEF ToFind

\* A reload goes on, and the scanner holds of x what it should.
LEMMA ReadingFollows ==
  ASSUME Types, NEW p \in Processes, Reload(p), NEW x \in Custom, NEW w \in Workers, w = Home(p),
         Follows(x, w), ~CustomOff(p)
  PROVE  Follows(x, w)'
<1>1. /\ Stores /\ UNCHANGED rows /\ Beside({p}) /\ ReloadingAt(p, w) /\ Sees(x, p)
      /\ pc'[p] = After(pc[p]) /\ pc[p] # "custom_off" /\ Home(p)' = w
      /\ Reviewed(rows', x) = Reviewed(rows, x)
  <2>1. pc[p] # "custom_off"
    BY DEF Reload, Load, SetScanner, AddCustoms, Inject, FindOff, SwitchOff, FindCustomOff
  <2> QED
    BY <2>1, ReloadBeside DEF Types, dbVars, ReloadingAt, Follows
<1>2. pc'[p] \in Reloading /\ ReloadingAt(p, w)'
  BY <1>1 DEF After, Reloading, ReloadingAt
<1>3. ASSUME Sees(x, p)', x \in DOMAIN scanner'[w] => \E row \in Reviewed(rows, x) : row.pattern,
             (\E row \in Reviewed(rows, x) : row.enabled /\ row.pattern) =>
               x \in DOMAIN scanner'[w] \/ ToFind(w)'
      PROVE  Follows(x, w)'
  <2>1. \A q \in Processes : ReloadingAt(q, w)' => Sees(x, q)'
    BY <1>1, <1>3, OthersSee
  <2> QED
    BY <1>1, <1>2, <1>3, <2>1 DEF Follows
<1>4. pc'[p] \in Finding => ToFind(w)'
  BY <1>1 DEF ToFind
<1>5. CASE Load(p)
  <2>1. pc[p] = "load" /\ pc'[p] = "scanner" /\ snap'[p] = rows /\ scanner' = scanner
    BY <1>1, <1>5 DEF Load, After, Stores, engVars
  <2> QED
    BY <1>1, <1>3, <1>4, <2>1 DEF Sees, Follows, Finding
<1>6. CASE SetScanner(p)
  <2>1. /\ pc[p] = "scanner" /\ pc'[p] = "customs" /\ snap' = snap
        /\ scanner'[w] = [r \in CrSdk |-> On("cr")]
    BY <1>1, <1>6 DEF SetScanner, After, Stores
  <2>2. x \notin DOMAIN scanner'[w]
    BY <2>1, Disjoint
  <2> QED
    BY <1>1, <1>3, <1>4, <2>1, <2>2 DEF Sees, Finding
<1>7. CASE AddCustoms(p)
  <2> DEFINE found == {y \in DOMAIN rows : rows[y].kind \in Review}
             add   == {y \in found : Held(p, found)[y].pattern}
  <2>1. /\ pc[p] = "customs" /\ pc'[p] = "inject" /\ snap'[p] = Held(p, found)
        /\ scanner'[w] = [y \in DOMAIN scanner[w] \cup add |->
                            IF y \in add THEN On("cr") ELSE scanner[w][y]]
    BY <1>1, <1>7 DEF AddCustoms, After, Stores
  <2>2. Reviewed(Held(p, found), x) = Reviewed(rows, x) /\ Reviewed(snap[p], x) = Reviewed(rows, x)
    BY <1>1, <2>1, HeldReviewed DEF Sees
  <2>3. Sees(x, p)'
    BY <1>1, <2>1, <2>2 DEF Sees
  <2>4. x \in add <=> \E row \in Reviewed(rows, x) : row.pattern
    <3>1. x \in found <=> Reviewed(rows, x) # {}
      BY DEF Reviewed
    <3>2. x \in found => rows[x] \in Reviewed(Held(p, found), x)
      BY <2>2 DEF Reviewed
    <3>3. x \in found => rows[x] = Held(p, found)[x]
      BY <3>2, ReviewedIs
    <3> QED
      BY <3>1, <3>3, ReviewedIs
  <2> HIDE DEF add
  <2>5. x \in DOMAIN scanner'[w] <=> x \in DOMAIN scanner[w] \/ x \in add
    BY <2>1
  <2> QED
    BY <1>3, <2>3, <2>4, <2>5 DEF Follows
<1>8. CASE Inject(p) \/ FindOff(p) \/ SwitchOff(p)
  <2>1. /\ pc[p] \in {"inject", "find_off", "switch_off"} /\ snap' = snap
        /\ DOMAIN scanner'[w] = DOMAIN scanner[w]
    BY <1>1, <1>8 DEF Inject, FindOff, SwitchOff, SwitchedTo, engVars, Stores
  <2>2. Sees(x, p)'
    BY <1>1, <2>1 DEF Sees, After
  <2>3. pc[p] \notin Finding \cup {"down"}
    BY <2>1 DEF Finding
  <2> QED
    BY <1>1, <1>3, <2>1, <2>2, <2>3, OthersFind DEF Follows
<1>9. CASE FindCustomOff(p)
  <2> DEFINE found == {y \in DOMAIN rows : ~rows[y].enabled}
  <2>1. /\ pc[p] = "find_custom_off" /\ pc'[p] = "custom_off" /\ scanner' = scanner
        /\ snap'[p] = Held(p, found) /\ off'[p] = found
    BY <1>1, <1>9 DEF FindCustomOff, After, Stores, engVars
  <2>2. Reviewed(Held(p, found), x) = Reviewed(rows, x)
    BY <1>1, <2>1, HeldReviewed DEF Sees
  <2>3. x \in found => x \in DOMAIN Held(p, found)
    BY DEF Held
  <2>4. \A row \in Reviewed(rows, x) : x \in found <=> ~row.enabled
    BY ReviewedIs
  <2> HIDE DEF found
  <2>5. Sees(x, p)'
    BY <1>1, <2>1, <2>2, <2>3, <2>4 DEF Sees
  <2>6. pc[p] \notin Finding \cup {"down"}
    BY <2>1 DEF Finding
  <2> QED
    BY <1>1, <1>3, <2>1, <2>5, <2>6, OthersFind DEF Follows
<1> QED
  BY <1>5, <1>6, <1>7, <1>8, <1>9 DEF Reload

\* The last step takes a disabled x out of the scanner, or x lags from now on.
LEMMA CustomOffFollows ==
  ASSUME Types, NEW p \in Processes, CustomOff(p), NEW x \in Custom, NEW w \in Workers, w = Home(p),
         Follows(x, w), <<x, w>> \notin lagging, <<x, w>> \notin lagging'
  PROVE  \/ Follows(x, w)'
         \/ w \in fresh' /\ \A a \in Busy(w, p) : job[a].op # "import_sdk"
<1> DEFINE ioOff == {y \in off[p] : snap[p][y].kind = "io"}
           cleared == w \in fresh' /\ \A a \in Busy(w, p) : job[a].op # "import_sdk"
<1> SUFFICES ASSUME ~cleared
             PROVE  Follows(x, w)'
  OBVIOUS
<1>0. Reload(p)
  BY DEF Reload
<1>1. /\ Stores /\ UNCHANGED rows /\ Beside({p}) /\ Sees(x, p)
      /\ pc[p] = "custom_off" /\ pc'[p] \in {"up", "idle"}
      /\ Reviewed(rows', x) = Reviewed(rows, x)
  BY <1>0, ReloadBeside DEF CustomOff, Types, dbVars, ReloadingAt, Follows
<1>2. PICK done \in SUBSET off[p] :
        /\ scanner' = [scanner EXCEPT ![w] = Restrict(@, DOMAIN @ \ (done \ ioOff))]
        /\ lagging' = lagging \cup ((off[p] \ (done \cup ioOff)) \X {w})
  <2>1. ~(/\ p \in undisturbed /\ ioOff \ DOMAIN io[w] = {}
          /\ \A a \in Busy(w, p) : job[a].op # "import_sdk")
    BY DEF CustomOff, Types, Stores
  <2> QED
    BY <2>1 DEF CustomOff
<1>3. x \in DOMAIN scanner'[w] <=> x \in DOMAIN scanner[w] /\ ~(x \in done /\ x \notin ioOff)
  BY <1>1, <1>2 DEF Restrict, Stores
<1>4. x \in off[p] => x \in done \/ x \in ioOff
  BY <1>2
<1> HIDE DEF ioOff, cleared
<1>5. \A q \in Processes : ReloadingAt(q, w)' => Sees(x, q)'
  <2>1. ~ReloadingAt(p, w)'
    BY <1>1 DEF ReloadingAt, Reloading
  <2> QED
    BY <1>1, <2>1, OthersSee
<1>6. ASSUME NEW row \in Reviewed(rows, x), row.enabled, row.pattern
      PROVE  x \in DOMAIN scanner'[w] \/ ToFind(w)'
  <2>1. x \notin off[p]
    BY <1>1, <1>6 DEF Sees
  <2>2. pc[p] \notin Finding \cup {"down"}
    BY <1>1 DEF Finding
  <2> QED
    BY <1>1, <1>2, <1>3, <1>6, <2>1, <2>2, OthersFind DEF Follows
<1>7. ASSUME NEW row \in Reviewed(rows, x), ~row.enabled
      PROVE  x \notin DOMAIN scanner'[w]
  <2>1. x \in off[p] /\ row \in Reviewed(snap[p], x)
    BY <1>1, <1>7 DEF Sees
  <2>2. snap[p][x].kind # "io"
    BY <2>1, ReviewedIs DEF Review
  <2> QED
    BY <1>3, <1>4, <2>1, <2>2 DEF ioOff
<1>8. x \in DOMAIN scanner'[w] => \E row \in Reviewed(rows, x) : row.pattern
  BY <1>3 DEF Follows
<1> QED
  BY <1>1, <1>5, <1>6, <1>7, <1>8 DEF Follows

\* After a whole reload nothing lags: no other one is under way, and the
\* scanner agrees with the tables.
LEMMA ClearedFollows ==
  ASSUME Types, Types', Plans, Reloads', NEW p \in Processes, CustomOff(p),
         NEW x \in Custom, NEW w \in Workers, w = Home(p), w \in fresh',
         \A a \in Busy(w, p) : job[a].op # "import_sdk",
         x \in DOMAIN scanner'[w] => scanner'[w][x].enabled
  PROVE  Follows(x, w)'
<1>0. Reload(p)
  BY DEF Reload
<1>1. /\ UNCHANGED dbVars /\ Beside({p}) /\ pc[p] \in Reloading /\ pc'[p] \in {"up", "idle"}
      /\ Stores'
  BY <1>0, ReloadBeside DEF CustomOff, Types
<1>2. ASSUME NEW q \in Processes, ReloadingAt(q, w)'
      PROVE  FALSE
  <2>1. q # p /\ ReloadingAt(q, w)
    BY <1>1, <1>2 DEF ReloadingAt, Reloading, Beside, Home
  <2>2. CASE q \in Admins
    <3>1. q \in Busy(w, p) /\ job[q].op = "import_sdk"
      BY <2>1, <2>2, Kinds0 DEF Busy, ReloadingAt, Reloading, Plans, Plan, Serving
    <3> QED
      BY <3>1
  <2>3. CASE q \in Workers
    <3>1. q = w /\ p \in Admins /\ job[p].at = w
      BY <2>1, <2>3 DEF ReloadingAt, Home, Processes
    <3>2. pc[w] = "up"
      BY <1>1, <3>1 DEF Plans, Plan, Serving, Reloading
    <3> QED
      BY <2>1, <3>1, <3>2 DEF ReloadingAt, Reloading
  <2> QED
    BY <2>2, <2>3 DEF Processes
<1>3. x \in DOMAIN scanner'[w] <=> \E row \in Reviewed(rows', x) : row.enabled /\ row.pattern
  <2>1. x \in CrActive(w)' <=> x \in CrWanted'
    BY DEF Reloads, Agrees
  <2>2. x \in CrActive(w)' <=> x \in DOMAIN scanner'[w]
    BY DEF CrActive
  <2>3. x \in CrWanted' <=> \E row \in Reviewed(rows', x) : row.enabled /\ row.pattern
    <3>1. CrWanted' = (CrSdk \cap sdkOn') \cup Wanted(Review)'
      BY DEF CrWanted
    <3>2. x \notin CrSdk /\ Reviewed(rows', x) = Reviewed(rows, x) /\ CrWanted' = CrWanted
      BY <1>1, Disjoint DEF dbVars, CrWanted, Wanted
    <3>3. Stores
      BY DEF Types
    <3> QED
      BY <3>2, <3>3, ReviewIsWanted
  <2> QED
    BY <2>1, <2>2, <2>3
<1>4. \A r, s \in Reviewed(rows', x) : r = s
  BY DEF Reviewed
<1> QED
  BY <1>2, <1>3, <1>4 DEF Follows

LEMMA ReloadEntries ==
  ASSUME Types, Scanners, NEW p \in Processes, Reload(p), NEW w \in Workers
  PROVE  \A x \in DOMAIN scanner'[w] \cap Custom : scanner'[w][x].enabled
<1>0. Stores /\ \A x \in DOMAIN scanner[w] \cap Custom : scanner[w][x].enabled
  BY DEF Types, Scanners
<1>1. CASE w # Home(p)
  <2>1. scanner'[w] = scanner[w]
    <3>1. \A v \in Workers : v # Home(p) => io'[v] = io[v] /\ scanner'[v] = scanner[v]
      BY ReloadBeside
    <3> QED
      BY <1>1, <3>1
  <2> QED
    BY <1>0, <2>1
<1>6. CASE UNCHANGED scanner
  BY <1>0, <1>6
<1>2. CASE w = Home(p) /\ SetScanner(p)
  <2>1. scanner'[w] = [r \in CrSdk |-> On("cr")]
    BY <1>0, <1>2 DEF SetScanner, Stores
  <2> QED
    BY <2>1, Disjoint
<1>3. CASE w = Home(p) /\ AddCustoms(p)
  <2>1. PICK add : scanner'[w] = [y \in DOMAIN scanner[w] \cup add |->
                                    IF y \in add THEN On("cr") ELSE scanner[w][y]]
    BY <1>0, <1>3 DEF AddCustoms, Stores
  <2> QED
    BY <1>0, <2>1, OnIs
<1>4. CASE w = Home(p) /\ SwitchOff(p)
  <2>1. scanner'[w] = SwitchedTo(scanner[w], off[p] \cap CrSdk, FALSE)
    BY <1>0, <1>4 DEF SwitchOff, Stores
  <2>2. ASSUME NEW x \in DOMAIN scanner'[w] \cap Custom
        PROVE  scanner'[w][x] = scanner[w][x] /\ x \in DOMAIN scanner[w]
    <3>1. x \notin off[p] \cap CrSdk
      BY <2>2, Disjoint
    <3> QED
      BY <2>1, <2>2, <3>1 DEF SwitchedTo
  <2> QED
    BY <1>0, <2>2
<1>5. CASE w = Home(p) /\ CustomOff(p)
  <2>1. PICK T : scanner'[w] = Restrict(scanner[w], DOMAIN scanner[w] \ T)
    BY <1>0, <1>5 DEF CustomOff, Stores
  <2> QED
    BY <1>0, <2>1 DEF Restrict
<1> QED
  BY <1>1, <1>2, <1>3, <1>4, <1>5, <1>6 DEF Reload, Load, Inject, FindOff, FindCustomOff, engVars

LEMMA ReloadScanners ==
  ASSUME Types, Types', Plans, Scanners, Reloads', NEW p \in Processes, Reload(p)
  PROVE  Scanners'
<1> DEFINE G == {p}
<1>1. /\ G \in SUBSET Processes /\ Beside(G) /\ UNCHANGED rows /\ pc[p] \in Reloading
      /\ \A w \in Workers : w # Home(p) => scanner'[w] = scanner[w]
      /\ \A w \in Workers : w # Home(p) => ~ReloadingAt(p, w)'
  <2>1. \A w \in Workers : w # Home(p) => ~ReloadingAt(p, w)'
    BY ReloadBeside DEF ReloadingAt, Reloading
  <2> QED
    BY <2>1, ReloadBeside DEF dbVars
<1>2. ASSUME NEW x \in Custom, NEW w \in Workers, <<x, w>> \notin lagging'
      PROVE  Follows(x, w)'
  <2>1. \/ <<x, w>> \notin lagging
        \/ /\ w = Home(p) /\ CustomOff(p) /\ w \in fresh'
           /\ \A a \in Busy(w, p) : job[a].op # "import_sdk"
    BY <1>2, ReloadLags
  <2>2. x \in DOMAIN scanner'[w] => scanner'[w][x].enabled
    BY ReloadEntries
  <2>3. CASE /\ w = Home(p) /\ CustomOff(p) /\ w \in fresh'
             /\ \A a \in Busy(w, p) : job[a].op # "import_sdk"
    BY <2>2, <2>3, ClearedFollows
  <2>4. CASE <<x, w>> \notin lagging
    <3>1. Follows(x, w)
      BY <2>4 DEF Scanners
    <3>2. CASE w # Home(p)
      <4>1. w \notin G /\ \A q \in G : ~ReloadingAt(q, w) /\ ~ReloadingAt(q, w)'
        BY <1>1, <3>2 DEF ReloadingAt, Home
      <4>2. Reviewed(rows', x) = Reviewed(rows, x) /\ scanner'[w] = scanner[w]
        BY <1>1, <3>2
      <4> HIDE DEF G
      <4> QED
        BY <1>1, <3>1, <4>1, <4>2, FollowsKept DEF Types
    <3>3. CASE w = Home(p) /\ ~CustomOff(p)
      BY <3>1, <3>3, ReadingFollows
    <3>4. CASE w = Home(p) /\ CustomOff(p)
      BY <1>2, <2>2, <2>4, <3>1, <3>4, CustomOffFollows, ClearedFollows
    <3> QED
      BY <3>2, <3>3, <3>4
  <2> QED
    BY <2>1, <2>3, <2>4
<1>3. ASSUME NEW w \in Workers, pc'[w] \in Unread
      PROVE  DOMAIN scanner'[w] = {}
  <2>1. p # w
    <3>1. After(pc[p]) \notin Unread
      BY <1>1 DEF After, Unread, Reloading
    <3> QED
      BY <1>3, <3>1, ReloadBeside DEF Unread
  <2>2. pc[w] \in Unread
    BY <1>1, <1>3, <2>1, Kinds0 DEF Beside
  <2>3. w # Home(p)
    <3>1. CASE p \in Workers
      BY <2>1, <3>1 DEF Home
    <3>2. CASE p \in Admins
      BY <1>1, <2>2, <3>2, Kinds0 DEF Home, Plans, Plan, Serving, Reloading, Unread
    <3> QED
      BY <3>1, <3>2 DEF Processes
  <2> QED
    BY <1>1, <2>2, <2>3 DEF Scanners
<1>4. \A w \in Workers : \A x \in DOMAIN scanner'[w] \cap Custom : scanner'[w][x].enabled
  BY ReloadEntries
<1> QED
  BY <1>2, <1>3, <1>4 DEF Scanners

LEMMA InitScanners ==
  ASSUME Init
  PROVE  Scanners
<1>1. /\ \A w \in Workers : DOMAIN scanner[w] = {} /\ pc[w] = "down"
      /\ \A p \in Processes : pc[p] \notin Reloading
  BY Kinds0 DEF Init, NoRule, Reloading
<1>2. \A x \in Custom, w \in Workers : Follows(x, w)
  BY <1>1 DEF Follows, ReloadingAt, ToFind
<1> QED
  BY <1>1, <1>2 DEF Scanners

LEMMA ScannersStep ==
  ASSUME Types, Types', Plans, Plans', Reloads', Scanners, [Next]_vars
  PROVE  Scanners'
<1>1. ASSUME NEW a \in Admins, NEW w \in Workers, Request(a, w)
      PROVE  Scanners'
  BY <1>1, RequestScanners
<1>2. ASSUME NEW a \in Admins, Handle(a)
      PROVE  Scanners'
  BY <1>2, HandleScanners
<1>3. ASSUME NEW p \in Processes, Reload(p)
      PROVE  Scanners'
  BY <1>3, ReloadScanners
<1>4. ASSUME NEW w \in Workers, Stop(w)
      PROVE  Scanners'
  BY <1>4, StopScanners
<1>5. ASSUME NEW w \in Workers, Startup(w)
      PROVE  Scanners'
  BY <1>5, StartupScanners
<1>6. ASSUME NEW p \in Processes, Fail(p)
      PROVE  Scanners'
  BY <1>6, FailScanners
<1>7. ASSUME UNCHANGED vars
      PROVE  Scanners'
  <2>1. UNCHANGED <<rows, scanner, pc, job, snap, off, lagging>>
    BY <1>7 DEF vars, dbVars, engVars, reqVars, histVars
  <2>2. \A x : Reviewed(rows', x) = Reviewed(rows, x)
    BY <2>1
  <2>3. ASSUME NEW x \in Custom, NEW w \in Workers, Follows(x, w)
        PROVE  Follows(x, w)'
    <3>1. \A p \in Processes : ReloadingAt(p, w)' <=> ReloadingAt(p, w)
      BY <2>1 DEF ReloadingAt, Home
    <3>2. \A p \in Processes : Sees(x, p) => Sees(x, p)'
      BY <2>1, <2>2 DEF Sees
    <3>3. ToFind(w) => ToFind(w)'
      BY <2>1 DEF ToFind, Home
    <3> QED
      BY <2>1, <2>2, <2>3, <3>1, <3>2, <3>3 DEF Follows
  <2> QED
    BY <2>1, <2>3 DEF Scanners
<1> QED
  BY <1>1, <1>2, <1>3, <1>4, <1>5, <1>6, <1>7 DEF Next, Calm

LEMMA ScannersHold ==
  Spec => [](CInv /\ Scanners)
<1>1. Init => Scanners
  BY InitScanners
<1>2. CInv /\ CInv' /\ IInv' /\ Scanners /\ [Next]_vars => Scanners'
  BY ScannersStep DEF CInv, IInv
<1> QED
  BY <1>1, <1>2, CausesHold, Invariance, PTL DEF Spec

\* When no request and no reload is in flight, a running worker's I/O engine
\* differs from the tables on a rule, and its scanner on a built-in rule, only
\* if Excuse, Fail or InitDb gave a reason to: requests for different rules, and
\* requests one after the other, leave rules_service.py and the engines of the
\* worker that served them in agreement. The scanner differs on a custom rule
\* only if its code review row changed after the worker last reloaded
\* undisturbed (rules_service.py:290 tells the I/O engine alone), or if a reload
\* failed or left the disabled rule in the scanner (engine_service.py:190).
THEOREM DivergencesHaveCauses ==
  Spec => []DivergenceHasCause
<1>1. CInv /\ Scanners => DivergenceHasCause
  <2>1. SUFFICES ASSUME CInv, Scanners, Quiet, NEW w \in Workers, pc[w] = "up",
                        NEW x \in Sdk \cup Custom
                 PROVE  /\ <<x, w>> \notin excused => (x \in IoActive(w)) = (x \in IoWanted)
                        /\ <<x, w>> \notin (IF x \in Sdk THEN excused ELSE lagging)
                             => (x \in CrActive(w)) = (x \in CrWanted)
    BY DEF DivergenceHasCause, Running
  <2>2. Stores /\ \A v \in Workers : DOMAIN scanner[v] \subseteq CrSdk \cup Custom
    BY <2>1, RulesAre DEF CInv, Types, Stores
  <2>3. /\ \A a \in Admins : ~Serving(a)
        /\ \A p \in Processes : pc[p] \notin Starting /\ pc[p] \notin Finding
        /\ \A p, v : ~(p \in Processes /\ ReloadingAt(p, v))
    BY <2>1 DEF Quiet, Serving, Processes, Reloading, Starting, Finding, ReloadingAt
  <2>4. ASSUME <<x, w>> \notin excused
        PROVE  /\ x \in IoActive(w) <=> x \in IoWanted
               /\ x \in CrSdk => (x \in CrActive(w) <=> x \in sdkOn)
    <3>1. Tidy(x, w)
      BY <2>1, <2>4 DEF CInv, Causes
    <3>2. ~InSync(x, IoSteps(x), w) /\ ~InSync(x, CrSteps(x), w)
      BY <2>3 DEF InSync, Asks, IoSteps, CrSteps, Early, BeforeOff, Starting, Reloading
    <3> QED
      BY <2>1, <3>1, <3>2 DEF Tidy, IoRight, CrRight
  <2>5. ASSUME x \in Sdk, <<x, w>> \notin excused
        PROVE  x \in CrActive(w) <=> x \in CrWanted
    <3>0. DOMAIN rows \subseteq Custom
      BY <2>2, RulesAre DEF Stores
    <3>1. x \in CrWanted <=> x \in CrSdk \cap sdkOn
      <4>1. Reviewed(rows, x) = {}
        BY <2>5, <3>0, Disjoint DEF Reviewed
      <4> QED
        BY <2>2, <4>1, ReviewIsWanted
    <3>2. x \in CrActive(w) => x \in CrSdk
      BY <2>2, <2>5, Disjoint DEF CrActive
    <3> QED
      BY <2>4, <2>5, <3>1, <3>2
  <2>6. ASSUME x \in Custom, <<x, w>> \notin lagging
        PROVE  x \in CrActive(w) <=> x \in CrWanted
    <3>1. Follows(x, w) /\ (x \in CrActive(w) <=> x \in DOMAIN scanner[w])
      BY <2>1, <2>6 DEF Scanners, CrActive
    <3>2. ~ToFind(w)
      BY <2>1, <2>3 DEF ToFind
    <3>3. \A row \in Reviewed(rows, x) : row.enabled \in BOOLEAN
      BY <2>2, RulesAre, ReviewedIs DEF Stores, Row
    <3>4. x \in DOMAIN scanner[w] <=> \E row \in Reviewed(rows, x) : row.enabled /\ row.pattern
      BY <2>3, <3>1, <3>2, <3>3 DEF Follows
    <3> QED
      BY <2>2, <2>6, <3>1, <3>4, Disjoint, ReviewIsWanted
  <2>7. x \in Sdk \/ (x \in Custom /\ x \notin Sdk)
    BY <2>1, Disjoint
  <2> QED
    BY <2>4, <2>5, <2>6, <2>7
<1> QED
  BY <1>1, ScannersHold, PTL

-----------------------------------------------------------------------------
(***************************************************************************)
(* One worker and one administrator's thread: at most one process is doing *)
(* anything. Unlike Tidy, what is said of a rule x now also holds after    *)
(* the requests that are not synced, but only to the safe side.            *)
(***************************************************************************)
OneByOne == (\A v, w \in Workers : v = w) /\ (\A a, b \in Admins : a = b)

\* What request a about x has read and written.
Learnt(a, x) ==
  /\ pc[a] = "switch" => (seen[a].enabled <=> x \in sdkOn)
  /\ pc[a] = "remove" /\ job[a].op = "delete" => x \notin DOMAIN rows
  /\ (pc[a] = "remove" /\ job[a].op = "update") \/ pc[a] = "add" =>
       x \in DOMAIN rows /\ seen[a] = rows[x]

Enforced(x, w) == x \in IoWanted => x \in IoActive(w)
ToEnforce(x, w) ==
  \/ \E a \in Admins : Asks(a, x) /\ pc[a] \in Syncing
  \/ \E p \in Processes : pc[p] \in Early /\ Home(p) = w

Needed(x, w) == x \in DOMAIN io[w] => x \in IoSdk \cup DOMAIN rows

Solid(x, w) ==
  /\ Needed(x, w) \/ \E a \in Admins : Asks(a, x) /\ pc[a] = "remove"
  /\ pc[w] # "down" =>
       /\ \A p \in Processes : ReloadingAt(p, w) => Reads(x, p)
       /\ \A a \in Admins : Asks(a, x) => Learnt(a, x)
       /\ Enforced(x, w) \/ ToEnforce(x, w)
       /\ Loaded(x, w)

SolidRules == \A x \in Sdk \cup Custom, w \in Workers : Solid(x, w)

\* While a request is served nothing else goes on.
LEMMA OneActs ==
  ASSUME OneByOne, Types, Plans, NEW w \in Workers, NEW a \in Admins, Serving(a)
  PROVE  /\ job[a].at = w /\ Home(a) = w /\ pc[w] = "up"
         /\ \A p \in Processes : pc[p] \in Starting => p = a
         /\ \A b \in Admins : b = a
<1>1. job[a] \in Job /\ a \notin Workers
  BY Kinds0 DEF Serving, Types, Moves, Busied
<1>2. job[a].at = w
  BY <1>1, JobsAre DEF OneByOne
<1>3. pc[w] = "up"
  BY <1>2 DEF Plans, Plan
<1>4. \A b \in Admins : b = a
  BY DEF OneByOne
<1>5. \A p \in Processes : pc[p] \in Starting => p = a
  BY <1>3, <1>4 DEF OneByOne, Processes, Starting, Reloading
<1> QED
  BY <1>1, <1>2, <1>3, <1>4, <1>5 DEF Home

\* A rule nobody is about to sync is right to the safe side.
LEMMA AtRest ==
  ASSUME NEW x, NEW w \in Workers, Solid(x, w), pc[w] # "down",
         \A p \in Processes : pc[p] \notin Starting,
         \A a \in Admins : ~(Asks(a, x) /\ pc[a] \in Syncing)
  PROVE  Needed(x, w) /\ Enforced(x, w) /\ Loaded(x, w)
<1>1. ~ToEnforce(x, w)
  BY DEF ToEnforce, Early, Starting, Reloading
<1>2. ~\E a \in Admins : Asks(a, x) /\ pc[a] = "remove"
  BY DEF Syncing
<1> QED
  BY <1>1, <1>2 DEF Solid

LEMMA StillEnforced ==
  ASSUME NEW x, NEW w, SameTables(x), SameEngines(x, w), Enforced(x, w)
  PROVE  Enforced(x, w)'
<1>1. x \in IoWanted' <=> x \in IoWanted
  BY StillWanted
<1> QED
  BY <1>1 DEF SameEngines, Enforced

LEMMA RequestSolid ==
  ASSUME OneByOne, Types, Plans, NEW a \in Admins, NEW h \in Workers, Request(a, h),
         NEW x \in Sdk \cup Custom, NEW w \in Workers, Solid(x, w)
  PROVE  Solid(x, w)'
<1>1. PICK op, r, arg : r \in Sdk \cup Custom /\ Begins(a, h, op, r, arg)
  BY RequestBegins
<1>2. /\ UNCHANGED <<dbVars, engVars>> /\ pc[a] = "idle" /\ pc[w] = "up"
      /\ Beside({a}) /\ pc'[a] = "commit" /\ a \notin Workers
  BY <1>1, Kinds0 DEF Begins, Start, Running, OneByOne
<1>3. /\ \A p \in Processes : pc[p] \notin Starting /\ pc'[p] \notin Reloading
      /\ pc'[w] = "up"
  BY <1>2, Kinds0 DEF OneByOne, Processes, Starting, Reloading, Beside
<1>4. \A b \in Admins : b = a /\ ~Asks(b, x) /\ pc'[b] = "commit"
  BY <1>2 DEF OneByOne, Asks, Serving
<1>5. Needed(x, w) /\ Enforced(x, w) /\ Loaded(x, w)
  BY <1>2, <1>3, <1>4, AtRest
<1>6. SameTables(x) /\ SameEngines(x, w) /\ io' = io /\ scanner' = scanner
  BY <1>2 DEF SameTables, SameEngines, dbVars, engVars, IoActive, CrActive
<1>7. Enforced(x, w)'
  BY <1>5, <1>6, StillEnforced
<1>8. Needed(x, w)' /\ Loaded(x, w)'
  BY <1>2, <1>3, <1>5, <1>6 DEF Needed, Loaded, dbVars
<1>9. \A b \in Admins : Learnt(b, x)'
  BY <1>4 DEF Learnt
<1>10. \A p \in Processes : ~ReloadingAt(p, w)'
  BY <1>3 DEF ReloadingAt
<1> QED
  BY <1>7, <1>8, <1>9, <1>10 DEF Solid

\* A step of a request leaves other rules in and out of the engine.
LEMMA OtherNeeded ==
  ASSUME Stores, NEW a \in Admins, Handle(a), NEW x, x # job[a].rule, NEW w \in Workers, Needed(x, w)
  PROVE  Needed(x, w)'
<1>1. \/ io'[w] = io[w]
      \/ \E e : io'[w] = SwitchedTo(io[w], {job[a].rule}, e)
      \/ io'[w] = Without(io[w], job[a].rule)
      \/ \E row : io'[w] = With(io[w], job[a].rule, row)
  <2>1. io = [v \in Workers |-> io[v]]
    BY DEF Stores
  <2>2. CASE UNCHANGED engVars
    BY <2>2 DEF engVars
  <2>3. CASE Switch(a)
    BY <2>1, <2>3 DEF Switch
  <2>4. CASE Remove(a)
    BY <2>1, <2>4 DEF Remove
  <2>5. CASE Add(a)
    BY <2>1, <2>5 DEF Add
  <2> QED
    BY <2>2, <2>3, <2>4, <2>5 DEF Handle, CommitCreate, CommitUpdate, CommitToggle,
       CommitDelete, CommitImport, CommitImportSdk, Insert, Update, SetEnabled, Refresh
<1>2. SameEntry(io[w], io'[w], x)
  BY <1>1, EntriesBeside
<1>3. SameTables(x)
  BY HandleTables
<1> QED
  BY <1>2, <1>3 DEF SameEntry, SameTables, Needed

\* What a step of a request leaves to be shown of a rule.
LEMMA HandleLeaves ==
  ASSUME OneByOne, Types, Plans, NEW a \in Admins, Handle(a), NEW x, NEW w \in Workers,
         Needed(x, w)' \/ (Asks(a, x)' /\ pc'[a] = "remove"),
         Asks(a, x)' => Learnt(a, x)',
         Enforced(x, w)' \/ (Asks(a, x)' /\ pc'[a] \in Syncing) \/ pc'[a] = "load",
         x \in IoSdk => x \in DOMAIN io'[w], x \in CrSdk => x \in DOMAIN scanner'[w]
  PROVE  Solid(x, w)'
<1>1. /\ a \in Processes /\ a \notin Workers /\ Serving(a) /\ pc[a] \notin Reloading
      /\ Beside({a})
      /\ \/ pc'[a] = "idle"
         \/ job' = job /\ pc'[a] \in Syncing \cup {"load"}
  BY HandleBeside
<1>2. /\ Home(a) = w /\ job[a].at = w
      /\ \A p \in Processes : pc[p] \in Starting => p = a
      /\ \A b \in Admins : b = a
  BY <1>1, OneActs
<1>3. \A p \in Processes : ReloadingAt(p, w)' => Reads(x, p)'
  <2>1. ASSUME NEW p \in Processes, pc'[p] \in Reloading
        PROVE  pc'[p] = "load"
    <3>1. p = a
      BY <1>1, <1>2, <2>1 DEF Beside, Starting
    <3> QED
      BY <1>1, <2>1, <3>1 DEF Reloading, Syncing
  <2> QED
    BY <2>1 DEF ReloadingAt, Reads
<1>4. Enforced(x, w)' \/ ToEnforce(x, w)'
  <2>1. pc'[a] = "load" => Home(a)' = w
    BY <1>1, <1>2 DEF Home
  <2> QED
    BY <1>1, <2>1 DEF ToEnforce, Early
<1>5. Loaded(x, w)'
  BY DEF Loaded
<1> QED
  BY <1>2, <1>3, <1>4, <1>5 DEF Solid
\* Its own rule: the commits.
LEMMA CommitSolid ==
  ASSUME OneByOne, Types, Plans, NEW a \in Admins, Handle(a), pc[a] = "commit",
         NEW x, x = job[a].rule, NEW w \in Workers, Solid(x, w)
  PROVE  Solid(x, w)'
<1>1. /\ a \in Processes /\ Serving(a) /\ pc[a] \notin Starting
      /\ job[a] \in Job /\ x \in Sdk \cup Custom
      /\ (pc'[a] = "idle" \/ job' = job)
  BY HandleBeside DEF Starting
<1>2. /\ w = job[a].at /\ pc[w] = "up"
      /\ \A p \in Processes : pc[p] \in Starting => p = a
      /\ \A b \in Admins : b = a
  BY <1>1, OneActs
<1>3. Needed(x, w) /\ Enforced(x, w) /\ Loaded(x, w)
  BY <1>1, <1>2, AtRest DEF Syncing, Starting
<1>4. UNCHANGED engVars /\ IoActive(w)' = IoActive(w)
  <2>1. UNCHANGED engVars
    BY DEF Handle, CommitCreate, CommitUpdate, CommitToggle, CommitDelete, CommitImport,
       CommitImportSdk, Insert, Update, SetEnabled, Committing, Refresh, Switch, Remove, Add
  <2> QED
    BY <2>1 DEF engVars, IoActive
<1>5. x \in IoSdk => x \in DOMAIN io'[w]
  BY <1>2, <1>3, <1>4 DEF Loaded, engVars, Early
<1>6. x \in CrSdk => x \in DOMAIN scanner'[w]
  BY <1>2, <1>3, <1>4 DEF Loaded, engVars
<1>7. ASSUME NEW step, Goto(a, step)
      PROVE  pc'[a] = step /\ job' = job /\ (step # "idle" => Asks(a, x)')
  <2>1. pc'[a] = step /\ job' = job
    BY <1>1, <1>7, GotoBeside
  <2> QED
    BY <2>1 DEF Asks, Serving
<1>8. ASSUME End(a), rows' = rows, x \in IoWanted' => x \in IoWanted
      PROVE  Solid(x, w)'
  <2>1. pc'[a] = "idle" /\ ~Asks(a, x)'
    BY <1>1, <1>8, EndBeside, Kinds0 DEF Asks, Serving
  <2>2. Needed(x, w)' /\ Enforced(x, w)'
    BY <1>3, <1>4, <1>8 DEF Needed, Enforced, engVars
  <2> QED
    BY <1>5, <1>6, <2>1, <2>2, HandleLeaves
<1>9. ASSUME Goto(a, "refresh"), DOMAIN rows \subseteq DOMAIN rows'
      PROVE  Solid(x, w)'
  <2>1. pc'[a] = "refresh" /\ Asks(a, x)' /\ Learnt(a, x)'
    BY <1>7, <1>9 DEF Learnt
  <2>2. Needed(x, w)'
    BY <1>3, <1>4, <1>9 DEF Needed, engVars
  <2> QED
    BY <1>5, <1>6, <2>1, <2>2, HandleLeaves DEF Syncing
<1>10. CASE CommitCreate(a) \/ CommitUpdate(a) \/ CommitImport(a) \/ CommitToggle(a)
  <2>1. \/ End(a) /\ UNCHANGED dbVars
        \/ /\ Goto(a, "refresh")
           /\ rows' = rows \/ \E row : rows' = With(rows, x, row)
    BY <1>10 DEF CommitCreate, CommitUpdate, CommitImport, CommitToggle, Insert, Update,
       SetEnabled, dbVars
  <2>2. \A row : DOMAIN rows \subseteq DOMAIN With(rows, x, row)
    BY DEF With
  <2>3. UNCHANGED dbVars => IoWanted' = IoWanted /\ rows' = rows
    BY DEF dbVars, IoWanted, Wanted
  <2> QED
    BY <1>8, <1>9, <2>1, <2>2, <2>3
<1>11. CASE CommitDelete(a) /\ job[a].op = "delete"
  <2>1. rows' = Without(rows, x) /\ Goto(a, "remove")
    BY <1>11 DEF CommitDelete, Committing
  <2>2. pc'[a] = "remove" /\ Asks(a, x)' /\ job' = job /\ x \notin DOMAIN rows'
    BY <1>7, <2>1, Entries
  <2>3. Learnt(a, x)'
    BY <1>11, <2>2 DEF Learnt
  <2> QED
    BY <1>5, <1>6, <2>2, <2>3, HandleLeaves DEF Syncing
<1>12. CASE CommitDelete(a) /\ job[a].op # "delete"
  <2>1. sdkOn' \subseteq sdkOn /\ End(a) /\ rows' = rows
    BY <1>12 DEF CommitDelete, SetEnabled, Committing
  <2>2. IoWanted' \subseteq IoWanted
    BY <2>1 DEF IoWanted, Wanted
  <2> QED
    BY <1>8, <2>1, <2>2
<1>13. CASE CommitImportSdk(a)
  <2>1. Goto(a, "load") /\ rows' = rows
    BY <1>13 DEF CommitImportSdk, SetEnabled
  <2>2. pc'[a] = "load" /\ Learnt(a, x)'
    BY <1>7, <2>1 DEF Learnt
  <2>3. Needed(x, w)'
    BY <1>3, <1>4, <2>1 DEF Needed, engVars
  <2> QED
    BY <1>5, <1>6, <2>2, <2>3, HandleLeaves
<1> QED
  BY <1>10, <1>11, <1>12, <1>13 DEF Handle, Refresh, Switch, Remove, Add

\* Its own rule: what follows the commit.
LEMMA SyncSolid ==
  ASSUME OneByOne, Types, Plans, NEW a \in Admins, Handle(a), pc[a] # "commit",
         NEW x, x = job[a].rule, NEW w \in Workers, Solid(x, w)
  PROVE  Solid(x, w)'
<1>1. /\ a \in Processes /\ Serving(a) /\ pc[a] \notin Reloading
      /\ job[a] \in Job /\ x \in Sdk \cup Custom /\ Stores
      /\ Asks(a, x)
  BY HandleBeside DEF Types, Asks
<1>2. w = job[a].at /\ pc[w] = "up"
  BY <1>1, OneActs
<1>3. Learnt(a, x) /\ Loaded(x, w) /\ Plan(a)
  BY <1>1, <1>2 DEF Solid, Plans
<1>4. UNCHANGED dbVars /\ IoWanted' = IoWanted
  <2>1. UNCHANGED dbVars
    BY DEF Handle, CommitCreate, CommitUpdate, CommitToggle, CommitDelete, CommitImport,
       CommitImportSdk, Insert, Update, SetEnabled, Committing, Refresh, Switch, Remove, Add
  <2> QED
    BY <2>1 DEF dbVars, IoWanted, Wanted
<1>5. /\ x \in IoSdk => x \in DOMAIN io[w]
      /\ x \in CrSdk => x \in DOMAIN scanner[w]
  BY <1>2, <1>3 DEF Loaded, Early
<1>6. pc[a] # "remove" => Needed(x, w)
  <2>1. \A b \in Admins : b = a
    BY DEF OneByOne
  <2> QED
    BY <2>1 DEF Solid
<1>7. ASSUME NEW step, Goto(a, step), step # "idle"
      PROVE  pc'[a] = step /\ job' = job /\ Asks(a, x)'
  <2>1. pc'[a] = step /\ job' = job
    BY <1>1, <1>7, GotoBeside
  <2> QED
    BY <1>7, <2>1 DEF Asks, Serving
<1>8. ASSUME End(a)
      PROVE  pc'[a] = "idle" /\ ~Asks(a, x)'
  BY <1>1, <1>8, EndBeside, Kinds0 DEF Asks, Serving
<1>9. /\ x \in Custom => (x \in IoWanted <=> /\ x \in DOMAIN rows
                                             /\ rows[x].kind = "io"
                                             /\ rows[x].enabled /\ rows[x].pattern)
      /\ x \in Sdk => (x \in IoWanted <=> x \in IoSdk /\ x \in sdkOn)
  BY <1>1, WantedIs
<1>10. /\ io \in [Workers -> Rules(IoSdk \cup Custom)] /\ io[w] \in Rules(IoSdk \cup Custom)
       /\ scanner \in [Workers -> Rules(CrSdk \cup Custom)]
       /\ seen \in [Processes -> Row] /\ seen[a] \in Row
       /\ DOMAIN rows \subseteq Custom
  BY <1>1, RulesAre DEF Stores
<1>11. CASE Refresh(a)
  <2>1. UNCHANGED engVars /\ pc[a] = "refresh" /\ IoActive(w)' = IoActive(w)
    BY <1>11 DEF Refresh, engVars, IoActive
  <2>2. Needed(x, w)'
    BY <1>4, <1>6, <2>1 DEF Needed, engVars, dbVars
  <2>3. /\ x \in IoSdk => x \in DOMAIN io'[w]
        /\ x \in CrSdk => x \in DOMAIN scanner'[w]
    BY <1>5, <2>1 DEF engVars
  <2>4. ASSUME x \in Sdk, seen' = [seen EXCEPT ![a].enabled = x \in sdkOn], Goto(a, "switch")
        PROVE  Solid(x, w)'
    <3>1. seen'[a] = [seen[a] EXCEPT !.enabled = x \in sdkOn]
      BY <1>1, <1>10, <2>4
    <3>2. seen'[a].enabled = (x \in sdkOn)
      BY <1>10, <3>1, EnabledIsRow
    <3>3. pc'[a] = "switch" /\ Asks(a, x)'
      BY <1>7, <2>4
    <3>4. Learnt(a, x)'
      BY <1>4, <3>2, <3>3 DEF Learnt, dbVars
    <3> QED
      BY <2>2, <2>3, <3>3, <3>4, HandleLeaves DEF Syncing
  <2>5. ASSUME x \in DOMAIN rows, seen' = [seen EXCEPT ![a] = rows[x]],
               Goto(a, IF job[a].op = "update" THEN "remove" ELSE "add")
        PROVE  Solid(x, w)'
    <3>1. /\ pc'[a] = IF job[a].op = "update" THEN "remove" ELSE "add"
          /\ job' = job /\ Asks(a, x)'
      BY <1>7, <2>5
    <3>2. seen'[a] = rows[x] /\ x \in DOMAIN rows' /\ rows' = rows
      BY <1>1, <1>4, <1>10, <2>5 DEF dbVars
    <3>3. Learnt(a, x)'
      BY <3>1, <3>2 DEF Learnt
    <3> QED
      BY <2>2, <2>3, <3>1, <3>3, HandleLeaves DEF Syncing
  <2>6. ASSUME x \in Custom \ DOMAIN rows \/ (x \in DOMAIN rows /\ ~rows[x].enabled), End(a)
        PROVE  Solid(x, w)'
    <3>1. x \notin IoWanted
      BY <1>9, <1>10, <2>6
    <3>2. Enforced(x, w)'
      BY <1>4, <3>1 DEF Enforced
    <3> QED
      BY <1>8, <2>2, <2>3, <2>6, <3>2, HandleLeaves
  <2> QED
    BY <1>11, <2>4, <2>5, <2>6 DEF Refresh
<1>12. CASE Switch(a)
  <2>1. job[a].op = "toggle" /\ (seen[a].enabled <=> x \in sdkOn) /\ pc[a] = "switch"
    BY <1>3, <1>12 DEF Switch, Plan, Learnt
  <2>2. x \in Sdk
    BY <1>1, <2>1, JobsAre
  <2>3. /\ io'[w] = SwitchedTo(io[w], {x}, seen[a].enabled)
        /\ DOMAIN scanner'[w] = DOMAIN scanner[w]
    BY <1>2, <1>10, <1>12 DEF Switch, SwitchedTo
  <2>4. seen[a].enabled \in BOOLEAN /\ DOMAIN io'[w] = DOMAIN io[w]
    BY <1>10, <2>3 DEF Row, SwitchedTo
  <2>5. Needed(x, w)'
    BY <1>4, <1>6, <2>1, <2>4 DEF Needed, dbVars
  <2>6. Enforced(x, w)'
    <3>1. SUFFICES ASSUME x \in IoSdk, x \in sdkOn
                   PROVE  x \in IoActive(w)'
      BY <1>4, <1>9, <2>2 DEF Enforced
    <3>2. x \in DOMAIN io[w] /\ io[w][x].kind = "io"
      BY <1>5, <3>1 DEF Plans, IoKinds
    <3>3. x \in DOMAIN io'[w] /\ io'[w][x].kind = "io" /\ io'[w][x].enabled = seen[a].enabled
      BY <1>10, <2>3, <2>4, <3>2, SwitchedEntry
    <3> QED
      BY <2>1, <3>1, <3>3 DEF IoActive
  <2>7. End(a)
    BY <1>12 DEF Switch
  <2> QED
    BY <1>5, <1>8, <2>3, <2>4, <2>5, <2>6, <2>7, HandleLeaves
<1>13. CASE Remove(a)
  <2>1. job[a].op \in {"update", "delete"} /\ pc[a] = "remove"
    BY <1>3, <1>13 DEF Remove, Plan
  <2>2. x \in Custom /\ x \notin IoSdk /\ x \notin CrSdk
    BY <1>1, <1>3, <2>1, JobsAre, Disjoint DEF Plan
  <2>3. x \notin DOMAIN io'[w]
    BY <1>2, <1>10, <1>13, Entries DEF Remove
  <2>4. Needed(x, w)'
    BY <2>3 DEF Needed
  <2>5. CASE job[a].op = "update" /\ seen[a].enabled
    <3>1. pc'[a] = "add" /\ job' = job /\ Asks(a, x)' /\ seen' = seen
      BY <1>7, <1>13, <2>5 DEF Remove
    <3>2. Learnt(a, x)'
      BY <1>3, <1>4, <2>1, <2>5, <3>1 DEF Learnt, dbVars
    <3> QED
      BY <2>2, <2>4, <3>1, <3>2, HandleLeaves DEF Syncing
  <2>6. CASE ~(job[a].op = "update" /\ seen[a].enabled)
    <3>1. End(a)
      BY <1>13, <2>6 DEF Remove
    <3>2. x \notin IoWanted
      BY <1>3, <1>9, <2>1, <2>2, <2>6 DEF Learnt
    <3>3. Enforced(x, w)'
      BY <1>4, <3>2 DEF Enforced
    <3> QED
      BY <1>8, <2>2, <2>4, <3>1, <3>3, HandleLeaves
  <2> QED
    BY <2>5, <2>6
<1>14. CASE Add(a)
  <2>1. x \in DOMAIN rows /\ seen[a] = rows[x] /\ x \in Custom
    BY <1>3, <1>10, <1>14 DEF Add, Learnt
  <2>2. io'[w] = IF seen[a].pattern THEN With(io[w], x, seen[a]) ELSE io[w]
    BY <1>2, <1>10, <1>14 DEF Add
  <2>3. Needed(x, w)'
    BY <1>4, <2>1 DEF Needed, dbVars
  <2>4. Enforced(x, w)'
    <3>1. SUFFICES ASSUME seen[a].pattern, rows[x].kind = "io", rows[x].enabled
                   PROVE  x \in IoActive(w)'
      BY <1>4, <1>9, <2>1 DEF Enforced
    <3>2. io'[w] = With(io[w], x, rows[x])
      BY <2>1, <2>2, <3>1
    <3>3. x \in DOMAIN io'[w] /\ io'[w][x] = rows[x]
      BY <3>2 DEF With
    <3> QED
      BY <3>1, <3>3 DEF IoActive
  <2>5. End(a) /\ x \notin IoSdk /\ x \notin CrSdk
    BY <1>14, <2>1, Disjoint DEF Add
  <2> QED
    BY <1>8, <2>3, <2>4, <2>5, HandleLeaves
<1> QED
  BY <1>11, <1>12, <1>13, <1>14 DEF Handle, CommitCreate, CommitUpdate, CommitToggle,
     CommitDelete, CommitImport, CommitImportSdk, Insert, Update, Committing

LEMMA HandleSolid ==
  ASSUME OneByOne, Types, Plans, NEW a \in Admins, Handle(a),
         NEW x \in Sdk \cup Custom, NEW w \in Workers, Solid(x, w)
  PROVE  Solid(x, w)'
<1>1. CASE x # job[a].rule
  <2>1. /\ a \in Processes /\ Serving(a) /\ pc[a] \notin Starting /\ a \notin Workers
        /\ Beside({a})
        /\ \/ pc'[a] = "idle"
           \/ job' = job /\ pc'[a] \in Syncing \cup {"load"}
    BY HandleBeside DEF Starting
  <2>2. /\ pc[w] = "up" /\ \A p \in Processes : pc[p] \in Starting => p = a
        /\ \A b \in Admins : b = a
    BY <2>1, OneActs
  <2>3. ~Asks(a, x) /\ ~Asks(a, x)'
    BY <1>1, <2>1 DEF Asks, Serving
  <2>4. Needed(x, w) /\ Enforced(x, w) /\ Loaded(x, w)
    BY <2>1, <2>2, <2>3, AtRest DEF Starting
  <2>5. SameTables(x) /\ SameEngines(x, w)
    BY <1>1, HandleTables, HandleEngines DEF Types
  <2>6. Enforced(x, w)' /\ Needed(x, w)'
    BY <1>1, <2>4, <2>5, StillEnforced, OtherNeeded DEF Types
  <2>7. /\ x \in IoSdk => x \in DOMAIN io'[w]
        /\ x \in CrSdk => x \in DOMAIN scanner'[w]
    BY <2>2, <2>4, <2>5 DEF Loaded, SameEngines, Early
  <2> QED
    BY <2>3, <2>6, <2>7, HandleLeaves
<1>2. CASE x = job[a].rule
  BY <1>2, CommitSolid, SyncSolid
<1> QED
  BY <1>1, <1>2

LEMMA ReloadSolid ==
  ASSUME OneByOne, Types, Plans, NEW p \in Processes, Reload(p),
         NEW x \in Sdk \cup Custom, NEW w \in Workers, Solid(x, w)
  PROVE  Solid(x, w)'
<1>1. /\ pc[p] \in Reloading /\ UNCHANGED dbVars /\ Home(p) = w /\ Beside({p})
      /\ \/ /\ pc[p] # "custom_off" /\ pc'[p] = After(pc[p])
            /\ job' = job /\ Home(p)' = Home(p)
         \/ /\ pc[p] = "custom_off"
            /\ pc'[p] = IF p \in Workers THEN "up" ELSE "idle"
      /\ Stores
  <2>1. Home(p) \in Workers
    BY ReloadBeside
  <2>2. Home(p) = w
    BY <2>1 DEF OneByOne
  <2> QED
    BY <2>2, ReloadBeside DEF Types
<1>2. ASSUME NEW a \in Admins, Serving(a)
      PROVE  p = a
  BY <1>1, <1>2, OneActs DEF Starting
<1>3. pc[w] # "down"
  <2>1. p \in Workers => p = w
    BY <1>1 DEF Home
  <2>2. p \in Admins => pc[w] = "up"
    BY <1>1, Kinds0, OneActs DEF Serving, Reloading
  <2> QED
    BY <1>1, <2>1, <2>2 DEF Processes, Reloading
<1>4. \A a \in Admins : ~(Asks(a, x) /\ pc[a] \in Syncing)
  BY <1>1, <1>2 DEF Asks, Syncing, Reloading
<1>5. /\ Reads(x, p) /\ Loaded(x, w) /\ Needed(x, w)
      /\ Enforced(x, w) \/ ToEnforce(x, w)
  BY <1>1, <1>3, <1>4 DEF Solid, ReloadingAt, Syncing
<1>6. \A q \in Processes : pc[q] \in Starting => q = p
  <2>1. ASSUME NEW q \in Processes, pc[q] \in Starting, q \in Admins
        PROVE  q = p
    BY <1>2, <2>1 DEF Serving, Starting, Reloading
  <2>2. ASSUME NEW q \in Workers, pc[q] \in Starting
        PROVE  q = p
    <3>1. p \in Admins => FALSE
      BY <1>1, <2>2, Kinds0, OneActs DEF Serving, Starting, Reloading
    <3> QED
      BY <3>1 DEF OneByOne, Processes
  <2> QED
    BY <2>1, <2>2 DEF Processes
<1>7. Brings(x, p, w)
  BY <1>1, <1>5, ReadingBrings, ScannerBrings, InjectBrings, SwitchOffBrings,
     CustomOffBrings DEF Reload
<1>8. Loaded(x, w)'
  BY <1>1, <1>5, ReloadLoaded
<1>9. Needed(x, w)'
  <2>1. CASE Inject(p)
    <3> DEFINE custom == {y \in DOMAIN snap[p] : snap[p][y].kind = "io" /\ snap[p][y].pattern}
    <3>1. /\ io' = [io EXCEPT ![w] =
               [y \in IoSdk \cup custom |-> IF y \in IoSdk THEN On("io") ELSE snap[p][y]]]
          /\ pc[p] = "inject"
      BY <1>1, <2>1 DEF Inject
    <3>2. x \in DOMAIN io'[w] => x \in IoSdk \/ x \in DOMAIN snap[p]
      BY <1>1, <3>1 DEF Stores
    <3>3. x \in DOMAIN snap[p] => x \in DOMAIN rows
      BY <1>5, <3>1 DEF Reads, SameRow
    <3> QED
      BY <1>1, <3>2, <3>3 DEF Needed, dbVars
  <2>2. CASE ~Inject(p)
    <3>1. \/ io' = io
          \/ \E xs : io' = [io EXCEPT ![w] = SwitchedTo(@, xs, FALSE)]
      BY <1>1, <2>2 DEF Reload, Load, SetScanner, AddCustoms, FindOff, SwitchOff,
         FindCustomOff, CustomOff, engVars
    <3>2. DOMAIN io'[w] = DOMAIN io[w]
      BY <1>1, <3>1 DEF Stores, SwitchedTo
    <3> QED
      BY <1>1, <1>5, <3>2 DEF Needed, dbVars
  <2> QED
    BY <2>1, <2>2
<1>10. IoWanted' = IoWanted
  BY <1>1 DEF IoWanted, Wanted, dbVars
<1>11. (Enforced(x, w) \/ ToEnforce(x, w))'
  <2>1. CASE x \in Sdk \ sdkOn
    <3>1. x \notin IoWanted
      BY <1>1, <2>1, WantedIs
    <3> QED
      BY <1>10, <3>1 DEF Enforced
  <2>2. CASE x \notin Sdk \ sdkOn
    <3>1. IoSteps(x) = Early
      BY <2>2 DEF IoSteps
    <3>2. CASE IoRight(x, w)'
      BY <3>2 DEF IoRight, Enforced
    <3>3. CASE pc'[p] \in Early
      <4>1. Home(p)' = w
        BY <1>1, <3>3, Kinds0 DEF Early, Home
      <4> QED
        BY <3>3, <4>1 DEF ToEnforce
    <3>4. CASE pc[p] \notin Early /\ (x \in IoActive(w)' <=> x \in IoActive(w))
      <4>1. ~ToEnforce(x, w)
        BY <1>4, <1>6, <3>4 DEF ToEnforce, Early, Starting, Reloading
      <4> QED
        BY <1>5, <1>10, <3>4, <4>1 DEF Enforced
    <3> QED
      BY <1>7, <3>1, <3>2, <3>3, <3>4 DEF Brings
  <2> QED
    BY <2>1, <2>2
<1>12. ASSUME NEW q \in Processes, ReloadingAt(q, w)'
       PROVE  Reads(x, q)'
  <2>1. q = p
    BY <1>1, <1>6, <1>12 DEF ReloadingAt, Beside, Starting
  <2> QED
    BY <1>7, <1>12, <2>1 DEF Brings, ReloadingAt
<1>13. ASSUME NEW a \in Admins, Asks(a, x)'
       PROVE  Learnt(a, x)'
  <2>1. CASE a = p
    <3>1. pc'[p] \in Reloading
      BY <1>1, <1>13, <2>1, Kinds0 DEF Asks, Serving, After, Reloading
    <3> QED
      BY <2>1, <3>1 DEF Learnt, Reloading
  <2>2. CASE a # p
    <3>1. Serving(a)
      BY <1>1, <1>13, <2>2, Kinds0 DEF Beside, Asks, Serving
    <3> QED
      BY <1>2, <2>2, <3>1
  <2> QED
    BY <2>1, <2>2
<1> QED
  BY <1>8, <1>9, <1>11, <1>12, <1>13 DEF Solid

LEMMA StopSolid ==
  ASSUME Types, Plans, OneByOne, NEW v \in Workers, Stop(v), NEW x, NEW w \in Workers
  PROVE  Solid(x, w)'
<1>1. v = w
  BY DEF OneByOne
<1>2. pc'[w] = "down" /\ \A y \in DOMAIN io'[w] : FALSE
  BY <1>1, StopBeside
<1> QED
  BY <1>2 DEF Solid, Needed

LEMMA StartupSolid ==
  ASSUME Types, Plans, OneByOne, NEW v \in Workers, Startup(v), NEW x, NEW w \in Workers, Solid(x, w)
  PROVE  Solid(x, w)'
<1>1. /\ v = w /\ Beside({w}) /\ pc[w] \in {"down", "bundles"} /\ pc'[w] \in {"bundles", "load"}
      /\ UNCHANGED <<rows, engVars>> /\ w \in Processes /\ w \notin Admins
  <2>1. v = w
    BY DEF OneByOne
  <2> QED
    BY <2>1, StartupBeside, Kinds0
<1>2. ASSUME NEW a \in Admins
      PROVE  ~Serving(a) /\ pc'[a] = pc[a] /\ ~Asks(a, x)'
  <2>1. ~Serving(a)
    BY <1>1, OneActs
  <2>2. pc'[a] = pc[a]
    BY <1>1, Kinds0 DEF Beside
  <2> QED
    BY <2>1, <2>2 DEF Asks, Serving
<1>3. Needed(x, w)'
  BY <1>1, <1>2 DEF Solid, Needed, Asks, engVars
<1>4. ASSUME NEW p \in Processes, ReloadingAt(p, w)'
      PROVE  Reads(x, p)'
  <2>1. p = w
    BY <1>2, <1>4 DEF OneByOne, Processes, ReloadingAt, Serving, Reloading
  <2> QED
    BY <1>1, <1>4, <2>1 DEF Reads, ReloadingAt, Reloading
<1>5. ToEnforce(x, w)'
  BY <1>1 DEF ToEnforce, Home, Early
<1>6. Loaded(x, w)'
  BY <1>1 DEF Loaded, Early
<1> QED
  BY <1>2, <1>3, <1>4, <1>5, <1>6 DEF Solid

LEMMA SolidStep ==
  ASSUME OneByOne, CInv, SolidRules, [Calm]_vars
  PROVE  SolidRules'
<1>1. Types /\ Plans
  BY DEF CInv
<1>2. SUFFICES ASSUME NEW x \in Sdk \cup Custom, NEW w \in Workers
               PROVE  Solid(x, w)'
  BY DEF SolidRules
<1>3. Solid(x, w)
  BY DEF SolidRules
<1>4. CASE UNCHANGED vars
  BY <1>3, <1>4 DEF vars, dbVars, engVars, reqVars, Solid, Needed, Asks, Serving, ReloadingAt,
     Home, Reads, SameRow, Learnt, Enforced, ToEnforce, Loaded, IoWanted, Wanted, IoActive
<1> QED
  BY <1>1, <1>3, <1>4, RequestSolid, HandleSolid, ReloadSolid, StopSolid, StartupSolid DEF Calm

LEMMA SolidHolds ==
  ASSUME OneByOne
  PROVE  CalmSpec => [](Types /\ SolidRules)
<1>1. CalmSpec => Spec
  <2>1. [Calm]_vars => [Next]_vars
    BY DEF Next
  <2> QED
    BY <2>1, PTL DEF CalmSpec, Spec
<1>2. Init => SolidRules
  <2>1. ASSUME Init
        PROVE  \A w \in Workers : pc[w] = "down" /\ DOMAIN io[w] = {}
    BY <2>1, Kinds0 DEF Init, NoRule
  <2> QED
    BY <2>1 DEF SolidRules, Solid, Needed
<1>3. CInv /\ SolidRules /\ [Calm]_vars => SolidRules'
  BY SolidStep
<1>4. CInv => Types
  BY DEF CInv
<1> QED
  BY <1>1, <1>2, <1>3, <1>4, CausesHold, PTL DEF CalmSpec

\* Asked by one thread of administrators, one request after the other, and with
\* no request failing half-way, a single worker enforces every I/O rule that
\* the tables enable, whatever the requests were and however often it restarts.
THEOREM SerialRulesEnforced ==
  ASSUME \A v, w \in Workers : v = w, \A a, b \in Admins : a = b
  PROVE  CalmSpec => []EnabledRulesEnforced
<1>1. OneByOne
  BY DEF OneByOne
<1>2. Types /\ SolidRules => EnabledRulesEnforced
  <2>1. SUFFICES ASSUME Types, SolidRules, Quiet, NEW w \in Workers, pc[w] = "up", NEW x \in IoWanted
                 PROVE  x \in IoActive(w)
    BY DEF EnabledRulesEnforced, Running
  <2>2. x \in Sdk \cup Custom
    <3>1. DOMAIN rows \subseteq Custom
      BY <2>1, RulesAre DEF Types, Stores
    <3> QED
      BY <3>1, Kinds0 DEF IoWanted, Wanted
  <2>3. /\ \A a \in Admins : ~Asks(a, x)
        /\ \A p \in Processes : pc[p] \notin Starting
    BY <2>1 DEF Quiet, Asks, Serving, Processes, Starting, Reloading
  <2>4. Enforced(x, w)
    BY <2>1, <2>2, <2>3, AtRest DEF SolidRules
  <2> QED
    BY <2>4 DEF Enforced
<1> QED
  BY <1>1, <1>2, SolidHolds, PTL

\* And there a custom rule that was deleted has left the I/O engine.
THEOREM SerialRulesGone ==
  ASSUME \A v, w \in Workers : v = w, \A a, b \in Admins : a = b
  PROVE  CalmSpec => []DeletedRulesGone
<1>1. OneByOne
  BY DEF OneByOne
<1>2. Types /\ SolidRules => DeletedRulesGone
  <2>1. SUFFICES ASSUME Types, SolidRules, Quiet, NEW w \in Workers, NEW x \in DOMAIN io[w]
                 PROVE  x \in IoSdk \cup DOMAIN rows
    BY DEF DeletedRulesGone
  <2>2. x \in Sdk \cup Custom
    <3>1. io[w] \in Rules(IoSdk \cup Custom)
      BY <2>1 DEF Types, Stores
    <3>2. DOMAIN io[w] \subseteq IoSdk \cup Custom
      BY <3>1, RulesAre
    <3> QED
      BY <2>1, <3>2, Kinds0
  <2>3. Solid(x, w) /\ \A a \in Admins : ~Asks(a, x)
    BY <2>1, <2>2 DEF SolidRules, Quiet, Asks, Serving
  <2> QED
    BY <2>3 DEF Solid, Needed
<1> QED
  BY <1>1, <1>2, SolidHolds, PTL
=============================================================================
