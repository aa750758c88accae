---------------------------- MODULE Dictionaries ----------------------------
(***************************************************************************)
(* Keyword dictionaries, and the copies of them the engines work with      *)
(* (app/services/dictionary_service.py, app/api/dictionaries.py,           *)
(* app/services/engine_service.py, app/scripts/migrate_dictionaries.py,    *)
(* init_db of app/database.py).                                            *)
(*                                                                         *)
(* Rules refer to dictionaries by code. An administrator's request reads a *)
(* row, works out the new list of words and its version in Python, and     *)
(* writes the columns it has changed. No such request tells an engine: a   *)
(* worker has the words of its last reload, when it started or when it     *)
(* served an import of rules. A starting worker, and the migration script, *)
(* insert the dictionaries they know whose code is not in the table; a     *)
(* starting worker also gives two of them the words they lack of a list.   *)
(* A list of words is taken for the set of the words in it.                *)
(***************************************************************************)
EXTENDS Integers, FiniteSets, Functions

CONSTANTS
  Codes,       \* codes of dictionaries; the rules refer to all of them
  Seeded,      \* those of the master data, and of the migration script
  Words,       \* keywords
  SeedWords,   \* what a seeded dictionary starts with
  Extended,    \* the seeded ones the master data extends
  ExtraWords,  \* the words it wants in those
  Workers,     \* worker processes
  Lists,       \* lists of words administrators send
  Admins,      \* threads that serve administrators' requests
  Script,      \* the migration script
  Ids,         \* bound: primary keys, of all dictionaries ever created
  MaxVersion   \* bound: version of a dictionary

Processes == Workers \cup Admins \cup {Script}

ASSUME ConstantsAssumption ==
  /\ Seeded \subseteq Codes /\ SeedWords \subseteq Words
  /\ Extended \subseteq Seeded /\ ExtraWords \subseteq Words
  /\ Lists \subseteq SUBSET Words
  /\ Workers \cap Admins = {} /\ Script \notin Workers \cup Admins
  /\ MaxVersion \in Nat

VARIABLES
  rows,        \* table dictionaries: the rows by id
  used,        \* the ids the sequence behind its primary key has handed out
  eng,         \* per worker: the words each dictionary reference stands for
  pc,          \* where each process is
  job,         \* what a request is about: [op, id, code, given, words, active, at]
  seen,        \* the row it has read
  map,         \* the active dictionaries a reload has read
  todo,        \* statements a starting worker, or the script, is still to run
  undisturbed, \* history: reloads the table has not changed since they read it
  fresh        \* history: workers whose last reload was such, with no change since

reqVars  == <<pc, job, seen, map, todo>>
histVars == <<undisturbed, fresh>>
vars     == <<rows, used, eng, reqVars, histVars>>

-----------------------------------------------------------------------------
Row == [code : Codes, words : SUBSET Words, active : BOOLEAN, version : Nat]

NoRow   == [code |-> "none"]
NoJob   == [op |-> "none"]
Nothing == [c \in {} |-> {}]

\* 02-master-data.sql: an INSERT per dictionary, and after it, for some, an UPDATE.
Inserts(codes) == [do : {"insert"}, code : codes]
MasterData == Inserts(Seeded) \cup [do : {"extend"}, code : Extended]

NewRow(c, words) == [code |-> c, words |-> words, active |-> TRUE, version |-> 1]

CodesIn(table) == {table[id].code : id \in DOMAIN table}
Running(w)     == pc[w] = "up"
Home(p)        == IF p \in Workers THEN p ELSE job[p].at

\* load_active_dictionary_map: the words of the active dictionaries, by code.
ActiveMap ==
  LET active == {id \in DOMAIN rows : rows[id].active}
  IN  [c \in {rows[id].code : id \in active} |->
         rows[CHOOSE id \in active : rows[id].code = c].words]

\* Slip: a reference whose dictionary is not in the map stays as it is.
ResolvedPartly(m) == m

\* _resolve_dict_refs replaces each reference by the words of its dictionary,
\* none if it is not in the map. Without any dictionary in the map it is not
\* called, and the references stay in the rules as they are.
Resolved(m) ==
  IF DOMAIN m = {} THEN Nothing
  ELSE [c \in Codes |-> IF c \in DOMAIN m THEN m[c] ELSE {}]

Goto(p, step) == pc' = [pc EXCEPT ![p] = step]

\* Process p is done and forgets what it held.
End(p) ==
  /\ Goto(p, IF p \in Workers THEN "up" ELSE "idle")
  /\ job'  = [job  EXCEPT ![p] = NoJob]
  /\ seen' = [seen EXCEPT ![p] = NoRow]
  /\ map'  = [map  EXCEPT ![p] = Nothing]
  /\ todo' = [todo EXCEPT ![p] = {}]

TableChanges == undisturbed' = {} /\ fresh' = {}

Init ==
  /\ rows = Nothing /\ used = {}
  /\ eng  = [w \in Workers |-> Nothing]
  /\ pc   = [p \in Processes |-> IF p \in Workers THEN "down" ELSE "idle"]
  /\ job  = [p \in Processes |-> NoJob]
  /\ seen = [p \in Processes |-> NoRow]
  /\ map  = [p \in Processes |-> Nothing]
  /\ todo = [p \in Processes |-> {}]
  /\ undisturbed = {} /\ fresh = {}

-----------------------------------------------------------------------------
(***************************************************************************)
(* Requests. Those that end in 400 or 404 change nothing and are left out. *)
(***************************************************************************)
Start(a, q, row) ==
  /\ pc[a] = "idle"
  /\ \E w \in Workers : Running(w)
  /\ Goto(a, "write")
  /\ job'  = [job  EXCEPT ![a] = q]
  /\ seen' = [seen EXCEPT ![a] = row]
  /\ UNCHANGED <<rows, used, eng, map, todo, histVars>>

\* create_dictionary finds no dictionary of that code.
StartCreate(a, c, words) ==
  /\ c \notin CodesIn(rows)
  /\ Start(a, [op |-> "create", code |-> c, words |-> words], NoRow)

\* update_dictionary: the words, the state, or both are given.
StartUpdate(a, id, given, words, active) ==
  /\ id \in DOMAIN rows /\ rows[id].version < MaxVersion
  /\ "active" \in given \/ active
  /\ Start(a, [op |-> "update", id |-> id, given |-> given, words |-> words,
               active |-> active], rows[id])

\* add_entries and remove_entries, which are over if nothing would change.
StartAdd(a, id, words) ==
  /\ id \in DOMAIN rows /\ rows[id].version < MaxVersion
  /\ ~(words \subseteq rows[id].words)
  /\ Start(a, [op |-> "add", id |-> id, given |-> {"words"}, words |-> words,
               active |-> TRUE], rows[id])

StartRemove(a, id, words) ==
  /\ id \in DOMAIN rows /\ rows[id].version < MaxVersion
  /\ words \cap rows[id].words # {}
  /\ Start(a, [op |-> "remove", id |-> id, given |-> {"words"}, words |-> words,
               active |-> TRUE], rows[id])

StartDelete(a, id) ==
  /\ id \in DOMAIN rows
  /\ Start(a, [op |-> "delete", id |-> id, given |-> {}, words |-> {},
               active |-> TRUE], rows[id])

Writing(a, ops) == pc[a] = "write" /\ job[a].op \in ops

\* Rows for the codes of f join the table under the ids f gives them.
Insert(f, words) ==
  /\ rows' = [id \in DOMAIN rows \cup Range(f) |->
                IF id \in DOMAIN rows THEN rows[id]
                ELSE NewRow(CHOOSE c \in DOMAIN f : f[c] = id, words)]
  /\ used' = used \cup Range(f)
  /\ TableChanges

NotInserted == UNCHANGED <<rows, used, histVars>>

\* The INSERT fails if the code has been taken in the meantime.
CommitCreate(a) ==
  /\ Writing(a, {"create"})
  /\ \/ /\ job[a].code \notin CodesIn(rows)
        /\ \E f \in Injection({job[a].code}, Ids \ used) : Insert(f, job[a].words)
     \/ job[a].code \in CodesIn(rows) /\ NotInserted
  /\ End(a)
  /\ UNCHANGED eng

\* The row a request wants, worked out from the row it has read: a new list of
\* words, whatever is in it, gets the next version.
New(a) ==
  LET q == job[a]
      words == CASE q.op = "add"    -> seen[a].words \cup q.words
                 [] q.op = "remove" -> seen[a].words \ q.words
                 [] OTHER -> q.words
  IN  [seen[a] EXCEPT !.words   = IF "words"  \in q.given THEN words    ELSE @,
                      !.version = IF "words"  \in q.given THEN @ + 1    ELSE @,
                      !.active  = IF "active" \in q.given THEN q.active ELSE @]

\* Slip: no version is counted when words are added.
ChangeUncounted(a) ==
  /\ Writing(a, {"update", "add", "remove"})
  /\ job[a].id \in DOMAIN rows
  /\ rows' = [rows EXCEPT ![job[a].id].words  = New(a).words,
                          ![job[a].id].active = New(a).active]
  /\ TableChanges
  /\ End(a)
  /\ UNCHANGED <<used, eng>>

\* What the UPDATE leaves in a row: it writes the columns whose new value is
\* not the one that was read.
Written(present, read, new) == IF new # read THEN new ELSE present
Updated(row, read, new) ==
  [row EXCEPT !.words   = Written(@, read.words, new.words),
              !.version = Written(@, read.version, new.version),
              !.active  = Written(@, read.active, new.active)]

\* Without a row to write to it fails.
CommitChange(a) ==
  LET id == job[a].id
  IN  /\ Writing(a, {"update", "add", "remove"})
      /\ \/ /\ id \in DOMAIN rows
            /\ rows' = [rows EXCEPT ![id] = Updated(@, seen[a], New(a))]
            /\ TableChanges
         \/ id \notin DOMAIN rows /\ UNCHANGED <<rows, histVars>>
      /\ End(a)
      /\ UNCHANGED <<used, eng>>

\* A DELETE of a row that is gone already is no error.
CommitDelete(a) ==
  /\ Writing(a, {"delete"})
  /\ rows' = Restrict(rows, DOMAIN rows \ {job[a].id})
  /\ TableChanges
  /\ End(a)
  /\ UNCHANGED <<used, eng>>

-----------------------------------------------------------------------------
(***************************************************************************)
(* Reloads, by a starting worker or for an import of rules.                *)
(***************************************************************************)
StartReload(a, w) ==
  /\ pc[a] = "idle" /\ Running(w)
  /\ Goto(a, "load")
  /\ job' = [job EXCEPT ![a] = [op |-> "reload", at |-> w]]
  /\ UNCHANGED <<rows, used, eng, seen, map, todo, histVars>>

\* Slip: words of dictionaries that are switched off are loaded too.
LoadAll(p) ==
  /\ pc[p] = "load"
  /\ map' = [map EXCEPT ![p] =
       [c \in CodesIn(rows) |-> rows[CHOOSE id \in DOMAIN rows : rows[id].code = c].words]]
  /\ undisturbed' = undisturbed \cup {p}
  /\ Goto(p, "inject")
  /\ UNCHANGED <<rows, used, eng, job, seen, todo, fresh>>

Load(p) ==
  /\ pc[p] = "load"
  /\ map' = [map EXCEPT ![p] = ActiveMap]
  /\ undisturbed' = undisturbed \cup {p}
  /\ Goto(p, "inject")
  /\ UNCHANGED <<rows, used, eng, job, seen, todo, fresh>>

\* The converted rules replace those of the engine, after some more queries.
Inject(p) ==
  /\ pc[p] = "inject"
  /\ eng' = [eng EXCEPT ![Home(p)] = Resolved(map[p])]
  /\ fresh' = IF p \in undisturbed THEN fresh \cup {Home(p)} ELSE fresh \ {Home(p)}
  /\ undisturbed' = undisturbed \ {p}
  /\ End(p)
  /\ UNCHANGED <<rows, used>>

\* A request ends with an error, or its worker goes, before it commits. A
\* starting worker whose reload fails serves with the engine it has: none.
Fail(p) ==
  /\ pc[p] \in {"write", "load", "inject"}
  /\ End(p)
  /\ undisturbed' = undisturbed \ {p}
  /\ UNCHANGED <<rows, used, eng, fresh>>

-----------------------------------------------------------------------------
(***************************************************************************)
(* Workers and the script.                                                 *)
(***************************************************************************)
\* init_db, with the lock of /tmp/kasra_init.lock.
StartWorker(w) ==
  /\ pc[w] = "down"
  /\ \A v \in Workers : pc[v] # "seed"
  /\ Goto(w, "seed")
  /\ todo' = [todo EXCEPT ![w] = MasterData]
  /\ UNCHANGED <<rows, used, eng, job, seen, map, histVars>>

\* Slip: its own words are replaced.
ExtensionReplaces(row) == [row EXCEPT !.words = ExtraWords, !.version = @ + 1]

\* The UPDATE of a dictionary that lacks one of the words: it gets them all,
\* under the next version.
Extends(row, c) == row.code = c /\ ~(ExtraWords \subseteq row.words)
Extension(row)  == [row EXCEPT !.words = @ \cup ExtraWords, !.version = @ + 1]

Extend(id, c) ==
  /\ Extends(rows[id], c) /\ rows[id].version < MaxVersion
  /\ rows' = [rows EXCEPT ![id] = Extension(@)]
  /\ TableChanges
  /\ UNCHANGED used

\* One statement of the master data, committed by itself: INSERT ... WHERE NOT
\* EXISTS, or UPDATE ... WHERE NOT entries @> .... One that fails is skipped.
Seed(w, s) ==
  /\ pc[w] = "seed" /\ s \in todo[w]
  /\ s.do = "extend" => [do |-> "insert", code |-> s.code] \notin todo[w]
  /\ todo' = [todo EXCEPT ![w] = @ \ {s}]
  /\ \/ /\ s.do = "insert" /\ s.code \notin CodesIn(rows)
        /\ \E f \in Injection({s.code}, Ids \ used) : Insert(f, SeedWords)
     \/ s.do = "extend" /\ \E id \in DOMAIN rows : Extend(id, s.code)
     \/ NotInserted
  /\ UNCHANGED <<eng, pc, job, seen, map>>

Seeding(w) ==
  /\ pc[w] = "seed" /\ todo[w] = {}
  /\ Goto(w, "load")
  /\ UNCHANGED <<rows, used, eng, job, seen, map, todo, histVars>>

\* A worker stops or crashes: its engine and the reloads it serves are gone.
Stop(w) ==
  LET gone == {w} \cup {a \in Admins : job[a].op = "reload" /\ Home(a) = w}
  IN  /\ pc[w] # "down"
      /\ eng'  = [eng EXCEPT ![w] = Nothing]
      /\ pc'   = [p \in Processes |-> IF p = w THEN "down"
                                      ELSE IF p \in gone THEN "idle" ELSE pc[p]]
      /\ job'  = [p \in Processes |-> IF p \in gone THEN NoJob ELSE job[p]]
      /\ map'  = [p \in Processes |-> IF p \in gone THEN Nothing ELSE map[p]]
      /\ todo' = [todo EXCEPT ![w] = {}]
      /\ undisturbed' = undisturbed \ gone
      /\ fresh' = fresh \ {w}
      /\ UNCHANGED <<rows, used, seen>>

\* main of the script: create_dictionaries reads the codes there are.
ScriptReads ==
  /\ pc[Script] = "idle"
  /\ Goto(Script, "insert")
  /\ todo' = [todo EXCEPT ![Script] = Inserts(Seeded \ CodesIn(rows))]
  /\ UNCHANGED <<rows, used, eng, job, seen, map, histVars>>

\* It inserts the others in one transaction. If one has come up since, none is
\* inserted and the script ends with the error.
ScriptInserts ==
  LET codes == {s.code : s \in todo[Script]}
  IN  /\ pc[Script] = "insert"
      /\ \/ /\ codes \cap CodesIn(rows) = {}
            /\ \E f \in Injection(codes, Ids \ used) : Insert(f, SeedWords)
            /\ Goto(Script, "migrate")
            /\ todo' = [todo EXCEPT ![Script] = {}]
            /\ UNCHANGED <<job, seen, map>>
         \/ /\ codes \cap CodesIn(rows) # {}
            /\ End(Script)
            /\ NotInserted
      /\ UNCHANGED eng

\* migrate_rule changes the dict it has got from the row in place and assigns
\* it to the row again. To the session nothing has changed: the references in
\* the table of rules stay what they are.
ScriptMigrates ==
  /\ pc[Script] = "migrate"
  /\ End(Script)
  /\ UNCHANGED <<rows, used, eng, histVars>>

-----------------------------------------------------------------------------
Request(a) ==
  \/ \E c \in Codes, words \in Lists : StartCreate(a, c, words)
  \/ \E id \in Ids, words \in Lists :
       \/ StartAdd(a, id, words) \/ StartRemove(a, id, words)
       \/ \E given \in SUBSET {"words", "active"}, active \in BOOLEAN :
            StartUpdate(a, id, given, words, active)
  \/ \E id \in Ids : StartDelete(a, id)
  \/ \E w \in Workers : StartReload(a, w)

Handle(a) == CommitCreate(a) \/ CommitChange(a) \/ CommitDelete(a)

Boot(w) == StartWorker(w) \/ Seeding(w) \/ Stop(w) \/ \E s \in MasterData : Seed(w, s)

Migrate == ScriptReads \/ ScriptInserts \/ ScriptMigrates

Next ==
  \/ \E a \in Admins : Request(a) \/ Handle(a)
  \/ \E p \in Processes : Load(p) \/ Inject(p) \/ Fail(p)
  \/ \E w \in Workers : Boot(w)
  \/ Migrate

Spec == Init /\ [][Next]_vars

-----------------------------------------------------------------------------
(***************************************************************************)
(* Properties                                                              *)
(***************************************************************************)
\* The variables hold what they should, and the sequence hands out no id twice.
TypeOK ==
  /\ used \subseteq Ids /\ DOMAIN rows \subseteq used
  /\ \A id \in DOMAIN rows : rows[id] \in Row
  /\ DOMAIN eng = Workers
  /\ \A w \in Workers : DOMAIN eng[w] \in {{}, Codes} /\ \A c \in DOMAIN eng[w] : eng[w][c] \subseteq Words
  /\ DOMAIN pc = Processes /\ DOMAIN job = Processes /\ DOMAIN seen = Processes
  /\ undisturbed \subseteq Processes /\ fresh \subseteq Workers

\* The changes that are asked for, as DictionaryStore sees them.
Changing == {a \in Admins : Writing(a, {"update", "add", "remove", "delete"})}
Asked == {[op     |-> job[a].op,    id     |-> job[a].id,
           given  |-> job[a].given, words  |-> job[a].words,
           active |-> job[a].active,
           stale  |-> job[a].id \notin DOMAIN rows \/ seen[a] # rows[job[a].id]]
          : a \in Changing}

Store == INSTANCE DictionaryStore WITH
           store <- rows, asked <- Asked, extended <- Extended, extra <- ExtraWords

\* The endpoints implement DictionaryStore: a request nobody interferes with
\* takes effect as a whole on the row as it is, whatever else happens to the
\* table; the words of a dictionary, its version and its state go astray only
\* where a request writes to a row that has changed since it was read; a run of
\* the script never touches a dictionary that is there, and the start of a
\* worker only to put back the words the master data wants in it, all of them,
\* beside those it has and under the next version.
ChangesAreAtomicUnlessStale == Store!Spec

\* What the references of the rules should stand for.
Wanted == [c \in Codes |-> UNION {rows[id].words :
             id \in {i \in DOMAIN rows : rows[i].code = c /\ rows[i].active}}]

\* A worker that has reloaded since the last change of the table, and nothing
\* it reloaded before that change has overtaken it, looks for the words of
\* the active dictionaries and of no other. The one exception is a table in
\* which none is active: its rules then keep their references.
FreshEnginesFollowTable ==
  \A w \in fresh :
    \/ eng[w] = Wanted
    \/ eng[w] = Nothing /\ \A id \in DOMAIN rows : ~rows[id].active
=============================================================================
