------------------------------ MODULE RuleSync ------------------------------
(***************************************************************************)
(* Rules in the database and in the engines of the workers                 *)
(* (app/services/rules_service.py, app/services/engine_service.py,         *)
(* init_db of app/database.py, startup of app/main.py).                    *)
(*                                                                         *)
(* Built-in rules live in table `rules`, custom ones in `custom_rules`.    *)
(* Each worker process has an I/O engine and a code review scanner of its  *)
(* own. An administrator's request reads a row, changes a table, commits,  *)
(* and then edits the I/O engine of the worker that serves it, or has that *)
(* worker reload everything. A starting worker imports the bundles one     *)
(* after the other and reloads.                                            *)
(* Every step below is one statement, commit or engine call; requests, and *)
(* reloads of the same worker, interleave between them.                    *)
(***************************************************************************)
EXTENDS Functions

CONSTANTS
  IoSdk,        \* built-in rules for prompts and answers
  CrSdk,        \* built-in rules for code review
  Custom,       \* ids of custom rules
  Workers,      \* worker processes
  Admins,       \* threads that serve administrators' requests
  Kinds,        \* stages an administrator gives a custom rule
  Ops           \* operations administrators use

Sdk == IoSdk \cup CrSdk
Processes == Workers \cup Admins

ASSUME ConstantsAssumption ==
  /\ IoSdk \cap CrSdk = {} /\ Sdk \cap Custom = {}
  /\ Workers \cap Admins = {}
  /\ Kinds \subseteq {"io", "cr", "both"}

VARIABLES
  sdkOn,      \* table rules: the built-in rules with enabled = TRUE
  rows,       \* table custom_rules
  io,         \* per worker: definitions in the I/O engine, by rule id
  scanner,    \* per worker: definitions in the code review scanner
  pc,         \* where each request and each worker's startup is
  job,        \* what a request is about: [op, rule, at, arg]
  seen,       \* the row a request holds
  snap,       \* the custom rows a reload holds
  off,        \* the disabled rules a reload is about to switch off, the
              \* built-in rules a start has yet to import
  undisturbed,  \* history: reloads nothing has interfered with
  fresh,        \* history: workers with such a reload and no change since
  excused,      \* history: <<rule, worker>> with a reason to differ
  lagging       \* history: <<custom rule, worker>> whose scanner has not been
                \* reloaded since the code review row of the rule changed

dbVars   == <<sdkOn, rows>>
engVars  == <<io, scanner>>
reqVars  == <<pc, job, seen, snap, off>>
histVars == <<undisturbed, fresh, excused, lagging>>
vars     == <<dbVars, engVars, reqVars, histVars>>

-----------------------------------------------------------------------------
\* Of a row, what the engines tell apart: its stages, whether it is enabled
\* and whether it has a pattern to look for. Stages are of prompts and answers,
\* of code review, or both: rule_type is code_review once review is among them.
Row == [kind : {"io", "cr", "both"}, enabled : BOOLEAN, pattern : BOOLEAN]
Review == {"cr", "both"}
On(kind) == [kind |-> kind, enabled |-> TRUE, pattern |-> TRUE]
NoJob == [op |-> "none"]
Imports == {"import", "import_new"}     \* of custom rules

NoRule == [x \in {} |-> On("io")]

\* The worker whose engine process p works on.
Home(p) == IF p \in Workers THEN p ELSE job[p].at

Running(w) == pc[w] = "up"

Without(f, x) == Restrict(f, DOMAIN f \ {x})
With(f, x, row) == [y \in DOMAIN f \cup {x} |-> IF y = x THEN row ELSE f[y]]
SwitchedTo(f, xs, e) ==
  [y \in DOMAIN f |-> IF y \in xs THEN [f[y] EXCEPT !.enabled = e] ELSE f[y]]

\* What detection in worker w looks for, and what the tables say it should.
IoActive(w) == {x \in DOMAIN io[w] : io[w][x].enabled /\ io[w][x].kind # "cr"}
CrActive(w) == {x \in DOMAIN scanner[w] : scanner[w][x].enabled}

Wanted(kinds) == {x \in DOMAIN rows :
                    rows[x].kind \in kinds /\ rows[x].enabled /\ rows[x].pattern}
IoWanted == (IoSdk \cap sdkOn) \cup Wanted({"io"})
CrWanted == (CrSdk \cap sdkOn) \cup Wanted(Review)

Agrees(w) == IoActive(w) = IoWanted /\ CrActive(w) = CrWanted

\* Process p goes on to a step, or is done and forgets what it held.
Goto(p, step) == pc' = [pc EXCEPT ![p] = step] /\ UNCHANGED job

End(p) ==
  /\ pc'   = [pc   EXCEPT ![p] = IF p \in Workers THEN "up" ELSE "idle"]
  /\ job'  = [job  EXCEPT ![p] = NoJob]
  /\ seen' = [seen EXCEPT ![p] = On("io")]
  /\ snap' = [snap EXCEPT ![p] = NoRule]
  /\ off'  = [off  EXCEPT ![p] = {}]

\* The other requests worker w is serving.
Busy(w, a) == {b \in Admins \ {a} : pc[b] # "idle" /\ Home(b) = w}

\* History: why engines and tables may differ on rule x once its request is
\* done. The other workers are not told. Two requests for one rule may sync in
\* the other order than they committed, and a reload may do either first. A
\* built-in rule deleted, or a custom one imported as disabled, is not synced.
\* A custom rule for both engines is synced to the I/O engine, where it runs
\* until a reload, which puts rules for code review into the scanner alone.
Excuse(w, a, op, x, arg) ==
  LET overlap == {b \in Busy(w, a) : \/ job[b].rule = x
                                     \/ "import_sdk" \in {op, job[b].op}}
      unsynced == \/ op = "delete_sdk"
                  \/ op \in Imports /\ ~arg.enabled
      mixed == op \in {"create", "update"} \cup Imports /\ arg.kind = "both"
  IN  ({x} \X (Workers \ {w}))
      \cup {<<job[b].rule, w>> : b \in overlap}
      \cup (IF overlap # {} \/ unsynced \/ mixed THEN {<<x, w>>} ELSE {})

\* History: the tables change; process p changes the engines of its worker.
\* A code review row that changes is not told to any scanner: it reaches those
\* of the workers that have yet to read it at their start.
Reviewed(f, x) == IF x \in DOMAIN f /\ f[x].kind \in Review THEN {f[x]} ELSE {}
Unread == {"down", "bundles", "load"}
TablesChange ==
  /\ undisturbed' = {} /\ fresh' = {}
  /\ lagging' = lagging \cup ({x \in Custom : Reviewed(rows', x) # Reviewed(rows, x)}
                               \X {w \in Workers : pc[w] \notin Unread})
  /\ UNCHANGED excused
EngineChange(p) ==
  /\ undisturbed' = {q \in undisturbed : q = p \/ Home(q) # Home(p)}
  /\ fresh' = fresh \ {Home(p)}
  /\ UNCHANGED <<excused, lagging>>

-----------------------------------------------------------------------------
Init ==
  /\ sdkOn = Sdk /\ rows = NoRule
  /\ io = [w \in Workers |-> NoRule]
  /\ scanner = [w \in Workers |-> NoRule]
  /\ pc   = [p \in Processes |-> IF p \in Workers THEN "down" ELSE "idle"]
  /\ job  = [p \in Processes |-> NoJob]
  /\ seen = [p \in Processes |-> On("io")]
  /\ snap = [p \in Processes |-> NoRule]
  /\ off  = [p \in Processes |-> {}]
  /\ undisturbed = {} /\ fresh = {} /\ excused = {} /\ lagging = {}

\* A request of an administrator reaches worker w, and reads the row it is
\* about. Requests that end in 400 or 404 change nothing and are left out.
Start(a, w, op, x, arg) ==
  /\ op \in Ops /\ pc[a] = "idle" /\ Running(w)
  /\ job' = [job EXCEPT ![a] = [op |-> op, rule |-> x, at |-> w, arg |-> arg]]
  /\ pc'  = [pc  EXCEPT ![a] = "commit"]
  /\ excused' = excused \cup Excuse(w, a, op, x, arg)
  /\ UNCHANGED <<dbVars, engVars, snap, off, undisturbed, fresh, lagging>>

StartCreate(a, w, x, row) ==
  /\ x \notin DOMAIN rows
  /\ row.kind \in Kinds
  /\ Start(a, w, "create", x, row)
  /\ UNCHANGED seen

\* update_rule of a custom rule: any of its fields gets a new value.
StartUpdate(a, w, x, row) ==
  /\ x \in DOMAIN rows
  /\ row.kind \in Kinds
  /\ Start(a, w, "update", x, row)
  /\ seen' = [seen EXCEPT ![a] = rows[x]]

\* update_rule of a built-in rule, for the one field it has.
StartToggle(a, w, r, e) ==
  /\ Start(a, w, "toggle", r, e)
  /\ seen' = [seen EXCEPT ![a].enabled = r \in sdkOn]

StartDelete(a, w, x) ==
  \/ x \in DOMAIN rows /\ Start(a, w, "delete", x, FALSE) /\ UNCHANGED seen
  \/ /\ x \in Sdk /\ Start(a, w, "delete_sdk", x, FALSE)
     /\ seen' = [seen EXCEPT ![a].enabled = x \in sdkOn]

\* import_rules_from_bundle, with a bundle of one rule: all the rule has is
\* for the table, except the pattern of a rule that is there.
StartImport(a, w, x, row) ==
  /\ row.kind \in Kinds
  /\ \/ /\ x \in DOMAIN rows /\ row.pattern = rows[x].pattern
        /\ Start(a, w, "import", x, row)
        /\ seen' = [seen EXCEPT ![a] = rows[x]]
     \/ /\ x \notin DOMAIN rows
        /\ Start(a, w, "import_new", x, row)
        /\ UNCHANGED seen

StartImportSdk(a, w, r, e) ==
  /\ Start(a, w, "import_sdk", r, e)
  /\ seen' = [seen EXCEPT ![a].enabled = r \in sdkOn]

Committing(a, op) == pc[a] = "commit" /\ job[a].op = op

\* db.commit() of an INSERT. A row with that id makes it fail.
Insert(a, op) ==
  /\ Committing(a, op)
  /\ \/ /\ job[a].rule \notin DOMAIN rows
        /\ rows' = With(rows, job[a].rule, job[a].arg)
        /\ Goto(a, "refresh") /\ UNCHANGED <<seen, snap, off>>
        /\ TablesChange
     \/ /\ job[a].rule \in DOMAIN rows
        /\ End(a)
        /\ UNCHANGED <<rows, histVars>>
  /\ UNCHANGED <<sdkOn, engVars>>

\* What an UPDATE leaves in a row: it writes the columns whose new value is
\* not the one that was read.
Written(present, read, new) == IF new # read THEN new ELSE present
Updated(row, read, new) ==
  [row EXCEPT !.kind    = Written(@, read.kind, new.kind),
              !.enabled = Written(@, read.enabled, new.enabled),
              !.pattern = Written(@, read.pattern, new.pattern)]

\* db.commit() of an UPDATE. Without a row to write to it fails.
Update(a, op) ==
  LET x == job[a].rule
      new == Updated(rows[x], seen[a], job[a].arg)
  IN  /\ Committing(a, op)
      /\ \/ /\ x \in DOMAIN rows
            /\ rows' = With(rows, x, new)
            /\ Goto(a, "refresh") /\ UNCHANGED <<seen, snap, off>>
            /\ TablesChange
         \/ /\ x \notin DOMAIN rows
            /\ End(a)
            /\ UNCHANGED <<rows, histVars>>
      /\ UNCHANGED <<sdkOn, engVars>>

CommitCreate(a) == Insert(a, "create")
CommitUpdate(a) == Update(a, "update")
CommitImport(a) == Insert(a, "import_new") \/ Update(a, "import")

\* The same for the one column of a built-in rule.
SetEnabled(a, e) ==
  /\ sdkOn' = IF e = seen[a].enabled THEN sdkOn
              ELSE IF e THEN sdkOn \cup {job[a].rule} ELSE sdkOn \ {job[a].rule}
  /\ UNCHANGED <<rows, engVars>>
  /\ TablesChange

CommitToggle(a) ==
  /\ Committing(a, "toggle")
  /\ SetEnabled(a, job[a].arg)
  /\ Goto(a, "refresh") /\ UNCHANGED <<seen, snap, off>>

CommitImportSdk(a) ==
  /\ Committing(a, "import_sdk")
  /\ SetEnabled(a, job[a].arg)
  /\ Goto(a, "load") /\ UNCHANGED <<seen, snap, off>>

\* Slip: the engine is not told of a deletion.
CommitDeleteOnly(a) ==
  \/ /\ Committing(a, "delete")
     /\ rows' = Without(rows, job[a].rule)
     /\ UNCHANGED <<sdkOn, engVars>> /\ TablesChange
     /\ End(a)
  \/ /\ Committing(a, "delete_sdk")
     /\ SetEnabled(a, FALSE)
     /\ End(a)

\* delete_rule: a custom row goes and its rule leaves the engine next; a
\* built-in rule is disabled in the table and the request is over.
CommitDelete(a) ==
  \/ /\ Committing(a, "delete")
     /\ rows' = Without(rows, job[a].rule)
     /\ UNCHANGED <<sdkOn, engVars>> /\ TablesChange
     /\ Goto(a, "remove") /\ UNCHANGED <<seen, snap, off>>
  \/ /\ Committing(a, "delete_sdk")
     /\ SetEnabled(a, FALSE)
     /\ End(a)

\* Slip: what is synced is the row as it was read, before the change.
RefreshNothing(a) ==
  /\ pc[a] = "refresh"
  /\ Goto(a, IF job[a].rule \in Sdk THEN "switch"
             ELSE IF job[a].op = "update" THEN "remove" ELSE "add")
  /\ UNCHANGED <<dbVars, engVars, seen, snap, off, histVars>>

\* db.refresh of the row, or the query an import repeats: what is synced is
\* the row as it is now. A request whose row is gone, and an import of a
\* disabled rule, end without syncing.
Refresh(a) ==
  LET x == job[a].rule  op == job[a].op
  IN  /\ pc[a] = "refresh"
      /\ \/ /\ x \in Sdk
            /\ seen' = [seen EXCEPT ![a].enabled = x \in sdkOn]
            /\ Goto(a, "switch") /\ UNCHANGED <<snap, off>>
         \/ /\ x \in DOMAIN rows
            /\ op \in Imports => rows[x].enabled
            /\ seen' = [seen EXCEPT ![a] = rows[x]]
            /\ Goto(a, IF op = "update" THEN "remove" ELSE "add")
            /\ UNCHANGED <<snap, off>>
         \/ /\ \/ x \in Custom \ DOMAIN rows
               \/ x \in DOMAIN rows /\ op \in Imports /\ ~rows[x].enabled
            /\ End(a)
      /\ UNCHANGED <<dbVars, engVars, histVars>>

\* Slip: no second try with the scanner.
SwitchIoOnly(a) ==
  /\ pc[a] = "switch"
  /\ io' = [io EXCEPT ![job[a].at] = SwitchedTo(@, {job[a].rule}, seen[a].enabled)]
  /\ End(a)
  /\ EngineChange(a)
  /\ UNCHANGED <<dbVars, scanner>>

\* Slip: a code review rule is put into the I/O engine instead.
SwitchInserts(a) ==
  /\ pc[a] = "switch"
  /\ io' = [io EXCEPT ![job[a].at] = With(@, job[a].rule, seen[a])]
  /\ End(a)
  /\ EngineChange(a)
  /\ UNCHANGED <<dbVars, scanner>>

\* enable_rule or disable_rule; a rule the I/O engine does not know is looked
\* up in the scanner.
Switch(a) ==
  LET r == job[a].rule  w == job[a].at
  IN  /\ pc[a] = "switch"
      /\ io' = [io EXCEPT ![w] = SwitchedTo(@, {r}, seen[a].enabled)]
      /\ scanner' = IF r \in DOMAIN io[w] THEN scanner
                    ELSE [scanner EXCEPT ![w] = SwitchedTo(@, {r}, seen[a].enabled)]
      /\ End(a)
      /\ EngineChange(a)
      /\ UNCHANGED dbVars

\* Slip: an update ends with the removal.
RemoveOnly(a) ==
  /\ pc[a] = "remove"
  /\ io' = [io EXCEPT ![job[a].at] = Without(@, job[a].rule)]
  /\ End(a)
  /\ EngineChange(a)
  /\ UNCHANGED <<dbVars, scanner>>

\* _remove_from_engine; an update of an enabled rule goes on to add it.
Remove(a) ==
  /\ pc[a] = "remove"
  /\ io' = [io EXCEPT ![job[a].at] = Without(@, job[a].rule)]
  /\ IF job[a].op = "update" /\ seen[a].enabled
     THEN Goto(a, "add") /\ UNCHANGED <<seen, snap, off>>
     ELSE End(a)
  /\ EngineChange(a)
  /\ UNCHANGED <<dbVars, scanner>>

\* _sync_to_engine: a rule without a pattern has no definition to add. A
\* code review rule goes to the I/O engine too, where its stage never runs; if
\* it has other stages, they do.
Add(a) ==
  /\ pc[a] = "add"
  /\ io' = IF seen[a].pattern
           THEN [io EXCEPT ![job[a].at] = With(@, job[a].rule, seen[a])] ELSE io
  /\ End(a)
  /\ EngineChange(a)
  /\ UNCHANGED <<dbVars, scanner>>

\* The request ends with an error before its next step: no connection, a
\* statement that fails. What it committed stays, what it did not is undone.
\* A starting worker whose reload fails serves with what is in its engines.
Fail(p) ==
  LET reload == p \in Workers \/ job[p].op = "import_sdk"
  IN  /\ pc[p] \notin {"idle", "up", "down", "bundles"}
      /\ End(p)
      /\ undisturbed' = undisturbed \ {p}
      /\ excused' = excused \cup {<<x, Home(p)>> : x \in
           IF reload THEN Sdk \cup Custom ELSE {job[p].rule}}
      /\ lagging' = lagging \cup {<<x, Home(p)>> : x \in IF reload THEN Custom ELSE {}}
      /\ UNCHANGED <<dbVars, engVars, fresh>>

-----------------------------------------------------------------------------
(***************************************************************************)
(* reload_rules_from_db, by a starting worker or an import of built-ins.   *)
(* One session serves all its queries: rows it holds are not read again.   *)
(***************************************************************************)
Load(p) ==
  /\ pc[p] = "load"
  /\ snap' = [snap EXCEPT ![p] = rows]
  /\ undisturbed' = undisturbed \cup {p}
  /\ Goto(p, "scanner")
  /\ UNCHANGED <<dbVars, engVars, seen, off, fresh, excused, lagging>>

\* scanner.set_rules: all built-in ones, the disabled ones too.
SetScanner(p) ==
  /\ pc[p] = "scanner"
  /\ scanner' = [scanner EXCEPT ![Home(p)] = [r \in CrSdk |-> On("cr")]]
  /\ Goto(p, "customs")
  /\ EngineChange(p)
  /\ UNCHANGED <<dbVars, io, seen, snap, off>>

\* A row the session holds already keeps the values it was read with.
Held(p, xs) == [x \in DOMAIN snap[p] \cup xs |->
                  IF x \in DOMAIN snap[p] THEN snap[p][x] ELSE rows[x]]

\* scanner.add_custom_rule for every custom code review rule with a pattern.
AddCustoms(p) ==
  LET found == {x \in DOMAIN rows : rows[x].kind \in Review}
      add   == {x \in found : Held(p, found)[x].pattern}
  IN  /\ pc[p] = "customs"
      /\ snap' = [snap EXCEPT ![p] = Held(p, found)]
      /\ scanner' = [scanner EXCEPT ![Home(p)] =
           [x \in DOMAIN @ \cup add |-> IF x \in add THEN On("cr") ELSE @[x]]]
      /\ Goto(p, "inject")
      /\ EngineChange(p)
      /\ UNCHANGED <<dbVars, io, seen, off>>

\* engine.load_rules_from_list: all built-in ones on, custom ones as read.
Inject(p) ==
  LET custom == {x \in DOMAIN snap[p] : snap[p][x].kind = "io" /\ snap[p][x].pattern}
  IN  /\ pc[p] = "inject"
      /\ io' = [io EXCEPT ![Home(p)] =
           [x \in IoSdk \cup custom |-> IF x \in IoSdk THEN On("io") ELSE snap[p][x]]]
      /\ Goto(p, "find_off")
      /\ EngineChange(p)
      /\ UNCHANGED <<dbVars, scanner, seen, snap, off>>

FindOff(p) ==
  /\ pc[p] = "find_off"
  /\ off' = [off EXCEPT ![p] = Sdk \ sdkOn]
  /\ Goto(p, "switch_off")
  /\ UNCHANGED <<dbVars, engVars, seen, snap, histVars>>

\* disable_rule and disable_code_review_rule, one rule after the other.
SwitchOff(p) ==
  /\ pc[p] = "switch_off"
  /\ io' = [io EXCEPT ![Home(p)] = SwitchedTo(@, off[p] \cap IoSdk, FALSE)]
  /\ scanner' = [scanner EXCEPT ![Home(p)] = SwitchedTo(@, off[p] \cap CrSdk, FALSE)]
  /\ Goto(p, "find_custom_off")
  /\ EngineChange(p)
  /\ UNCHANGED <<dbVars, seen, snap, off>>

FindCustomOff(p) ==
  LET found == {x \in DOMAIN rows : ~rows[x].enabled}
  IN  /\ pc[p] = "find_custom_off"
      /\ off' = [off EXCEPT ![p] = found]
      /\ snap' = [snap EXCEPT ![p] = Held(p, found)]
      /\ Goto(p, "custom_off")
      /\ UNCHANGED <<dbVars, engVars, seen, histVars>>

\* Slip: disabled custom rules are dealt with in the I/O engine only.
CustomOffIoOnly(p) ==
  /\ pc[p] = "custom_off"
  /\ io' = [io EXCEPT ![Home(p)] = SwitchedTo(@, off[p], FALSE)]
  /\ undisturbed' = {q \in undisturbed : Home(q) # Home(p)}
  /\ fresh' = IF p \in undisturbed THEN fresh \cup {Home(p)} ELSE fresh \ {Home(p)}
  /\ End(p)
  /\ UNCHANGED <<dbVars, scanner, excused, lagging>>

\* disable_rule and remove_custom_cr_rule, one after the other in no given
\* order. A disabled I/O rule the engine does not hold, for it has no pattern
\* or is newer than the reload, raises RuleNotFoundError: the rest is skipped.
CustomOff(p) ==
  LET w == Home(p)
      ioOff   == {x \in off[p] : snap[p][x].kind = "io"}
      missing == ioOff \ DOMAIN io[w]
      whole   == p \in undisturbed /\ missing = {}
      alone   == \A a \in Busy(w, p) : job[a].op # "import_sdk"
  IN  /\ pc[p] = "custom_off"
      /\ \E done \in SUBSET (off[p] \ missing) :
           /\ missing = {} => done = off[p]
           /\ io' = [io EXCEPT ![w] = SwitchedTo(@, done \cap ioOff, FALSE)]
           /\ scanner' = [scanner EXCEPT ![w] = Restrict(@, DOMAIN @ \ (done \ ioOff))]
           /\ lagging' = IF whole /\ alone THEN lagging \ (Custom \X {w})
                         ELSE lagging \cup ((off[p] \ (done \cup ioOff)) \X {w})
      /\ End(p)
      /\ undisturbed' = {q \in undisturbed : Home(q) # w}
      /\ fresh' = IF whole THEN fresh \cup {w} ELSE fresh \ {w}
      /\ UNCHANGED <<dbVars, excused>>

Reload(p) ==
  \/ Load(p) \/ SetScanner(p) \/ AddCustoms(p) \/ Inject(p)
  \/ FindOff(p) \/ SwitchOff(p) \/ FindCustomOff(p) \/ CustomOff(p)

-----------------------------------------------------------------------------
\* A worker stops, at the --limit-max-requests of the service, by a crash or
\* for an update: its engines and the requests it serves are gone.
Stop(w) ==
  LET gone == {w} \cup {a \in Admins : pc[a] # "idle" /\ Home(a) = w}
  IN  /\ pc[w] # "down"
      /\ io' = [io EXCEPT ![w] = NoRule]
      /\ scanner' = [scanner EXCEPT ![w] = NoRule]
      /\ pc'   = [p \in Processes |-> IF p = w THEN "down"
                                      ELSE IF p \in gone THEN "idle" ELSE pc[p]]
      /\ job'  = [p \in Processes |-> IF p \in gone THEN NoJob ELSE job[p]]
      /\ seen' = [p \in Processes |-> IF p \in gone THEN On("io") ELSE seen[p]]
      /\ snap' = [p \in Processes |-> IF p \in gone THEN NoRule ELSE snap[p]]
      /\ off'  = [p \in Processes |-> IF p \in gone THEN {} ELSE off[p]]
      /\ undisturbed' = undisturbed \ gone
      /\ fresh' = fresh \ {w}
      /\ lagging' = lagging \ (Custom \X {w})
      /\ UNCHANGED <<dbVars, excused>>

\* init_db, one worker at a time: every bundle is imported again, and says
\* enabled of each of its rules.
InitDb(w) ==
  /\ pc[w] = "down" /\ \A v \in Workers : pc[v] # "bundles"
  /\ off' = [off EXCEPT ![w] = Sdk]
  /\ excused' = excused \cup (Sdk \X (Workers \ {w}))
  /\ Goto(w, "bundles")
  /\ UNCHANGED <<dbVars, engVars, seen, snap, undisturbed, fresh, lagging>>

\* One bundle: its rules are read, then committed together. Left out are those
\* a request disables in between, and all of them if the bundle fails, which
\* is logged and skipped.
ImportBundle(w, bundle) ==
  /\ pc[w] = "bundles" /\ bundle # {} /\ bundle \subseteq off[w]
  /\ \E out \in SUBSET bundle : sdkOn' = sdkOn \cup (bundle \ out)
  /\ off' = [off EXCEPT ![w] = @ \ bundle]
  /\ UNCHANGED <<rows, engVars, pc, job, seen, snap>>
  /\ TablesChange

Imported(w) ==
  /\ pc[w] = "bundles" /\ off[w] = {}
  /\ Goto(w, "load")
  /\ UNCHANGED <<dbVars, engVars, seen, snap, off, histVars>>

Startup(w) ==
  \/ InitDb(w) \/ Imported(w)
  \/ \E bundle \in SUBSET Sdk : ImportBundle(w, bundle)

-----------------------------------------------------------------------------
Request(a, w) ==
  \/ \E x \in Custom, row \in Row :
        StartCreate(a, w, x, row) \/ StartUpdate(a, w, x, row) \/ StartImport(a, w, x, row)
  \/ \E r \in Sdk, e \in BOOLEAN : StartToggle(a, w, r, e) \/ StartImportSdk(a, w, r, e)
  \/ \E x \in Custom \cup Sdk : StartDelete(a, w, x)

Handle(a) ==
  \/ CommitCreate(a) \/ CommitUpdate(a) \/ CommitToggle(a) \/ CommitDelete(a)
  \/ CommitImport(a) \/ CommitImportSdk(a)
  \/ Refresh(a) \/ Switch(a) \/ Remove(a) \/ Add(a)

Calm ==
  \/ \E a \in Admins, w \in Workers : Request(a, w)
  \/ \E a \in Admins : Handle(a)
  \/ \E p \in Processes : Reload(p)
  \/ \E w \in Workers : Stop(w) \/ Startup(w)

Next == Calm \/ \E p \in Processes : Fail(p)

Spec     == Init /\ [][Next]_vars
CalmSpec == Init /\ [][Calm]_vars
-----------------------------------------------------------------------------
(***************************************************************************)
(* Properties                                                              *)
(***************************************************************************)
\* The variables hold what the tables, engines and locals of the code hold.
TypeOK ==
  /\ sdkOn \subseteq Sdk
  /\ DOMAIN rows \subseteq Custom /\ \A x \in DOMAIN rows : rows[x] \in Row
  /\ DOMAIN io = Workers /\ DOMAIN scanner = Workers
  /\ \A w \in Workers :
       /\ DOMAIN io[w] \subseteq IoSdk \cup Custom
       /\ \A x \in DOMAIN io[w] : io[w][x] \in Row
       /\ DOMAIN scanner[w] \subseteq CrSdk \cup Custom
       /\ \A x \in DOMAIN scanner[w] : scanner[w][x] \in Row
  /\ seen \in [Processes -> Row]
  /\ undisturbed \subseteq Processes /\ fresh \subseteq Workers

\* A reload that ran to its end while nothing was committed and nothing else
\* touched its worker's engines leaves both engines with exactly the rules
\* the tables say are enabled, and that holds until the next such change: in
\* particular it heals whatever divergence there was.
FreshReloadAgrees == \A w \in fresh : Agrees(w)

Quiet == /\ \A a \in Admins : pc[a] = "idle"
         /\ \A w \in Workers : pc[w] \in {"up", "down"}

\* When nothing is in flight, a worker's I/O engine differs from the tables on
\* a rule, and its scanner on a built-in rule, only for one of the reasons
\* Excuse and Fail name, or since another worker restarted: requests for
\* different rules never interfere, and one request after the other on one
\* worker leaves the two in agreement. The scanner differs on a custom rule
\* only if the row of the rule, as one for code review, changed since the
\* worker last reloaded undisturbed (rules_service.py:290 tells the I/O engine
\* alone), or if a reload failed or left the disabled rule in the scanner
\* (engine_service.py:190).
DivergenceHasCause ==
  Quiet => \A w \in Workers : Running(w) => \A x \in Sdk \cup Custom :
    /\ <<x, w>> \notin excused => (x \in IoActive(w)) = (x \in IoWanted)
    /\ <<x, w>> \notin (IF x \in Sdk THEN excused ELSE lagging)
         => (x \in CrActive(w)) = (x \in CrWanted)

\* Whatever one worker is asked for, one request at a time: an I/O rule that
\* is enabled in the tables is in force. Divergence only errs to the safe side.
EnabledRulesEnforced ==
  Quiet => \A w \in Workers : Running(w) => IoWanted \subseteq IoActive(w)

\* And a custom rule that was deleted is no longer in the I/O engine.
DeletedRulesGone ==
  Quiet => \A w \in Workers : DOMAIN io[w] \subseteq IoSdk \cup DOMAIN rows

\* docs/04-enable-disable-test.md TC-ED-10: a rule that is disabled stays
\* disabled over a restart; only a request of an administrator enables it.
RestartKeepsDisabled ==
  [][\A r \in Sdk \ sdkOn : r \in sdkOn' => \E a \in Admins : pc[a] = "commit" /\ pc'[a] # "commit"]_vars
=============================================================================
