------------------------- MODULE DictionariesProofs -------------------------
(***************************************************************************)
(* Theorems about Dictionaries, for any dictionaries, words, workers and   *)
(* administrators. The invariant has four parts: the table, the shapes of  *)
(* what the processes hold, the requests that are about to write, and the  *)
(* reloads whose words are still those of the table. The last part is      *)
(* about changes that do not meet, neither each other nor a start that     *)
(* puts words back: no request then works with a row that has changed.     *)
(***************************************************************************)
EXTENDS Dictionaries, TLAPS

USE DEF reqVars, histVars

CreateJob == [op : {"create"}, code : Codes, words : SUBSET Words]
ChangeJob == [op : {"update", "add", "remove", "delete"}, id : Ids,
              given : SUBSET {"words", "active"}, words : SUBSET Words, active : BOOLEAN]
ReloadJob == [op : {"reload"}, at : Workers]

\* Functions from some codes to words: what maps and engines are.
Maps == UNION {[S -> SUBSET Words] : S \in SUBSET Codes}

Table ==
  /\ used \subseteq Ids /\ DOMAIN rows \subseteq used
  /\ rows \in [DOMAIN rows -> Row]
  /\ \A i, j \in DOMAIN rows : rows[i].code = rows[j].code => i = j

Steps(p) == IF p \in Workers THEN {"down", "seed", "load", "inject", "up"}
            ELSE IF p \in Admins THEN {"idle", "write", "load", "inject"}
            ELSE {"idle", "insert", "migrate"}

Shapes ==
  /\ DOMAIN pc = Processes /\ \A p \in Processes : pc[p] \in Steps(p)
  /\ pc = [p \in Processes |-> pc[p]]
  /\ job \in [Processes -> CreateJob \cup ChangeJob \cup ReloadJob \cup {NoJob}]
  /\ seen \in [Processes -> Row \cup {NoRow}]
  /\ map \in [Processes -> Maps]
  /\ todo \in [Processes -> SUBSET MasterData]
  /\ eng \in [Workers -> Maps] /\ \A w \in Workers : DOMAIN eng[w] \in {{}, Codes}

\* A request that adds or removes words has found that this changes the row.
Asks(q, row) ==
  \/ q \in CreateJob
  \/ /\ q \in ChangeJob /\ row \in Row
     /\ q.op \in {"add", "remove"} => q.given = {"words"}
     /\ q.op = "add"    => ~(q.words \subseteq row.words)
     /\ q.op = "remove" => q.words \cap row.words # {}

Requests ==
  \A a \in Admins :
    /\ pc[a] = "write" => Asks(job[a], seen[a])
    /\ pc[a] \in {"load", "inject"} => job[a] \in ReloadJob

Follows(w) ==
  \/ eng[w] = Wanted
  \/ eng[w] = Nothing /\ \A id \in DOMAIN rows : ~rows[id].active

Reloads ==
  /\ undisturbed \subseteq Processes /\ fresh \subseteq Workers
  /\ \A p \in undisturbed : pc[p] = "inject" /\ map[p] = ActiveMap
  /\ \A w \in fresh : Follows(w)

Inv == Table /\ Shapes /\ Requests /\ Reloads

-----------------------------------------------------------------------------
(***************************************************************************)
(* Facts about the definitions                                             *)
(***************************************************************************)
LEMMA NothingIsMap == Nothing \in Maps /\ DOMAIN Nothing = {}
<1>1. Nothing \in [{} -> SUBSET Words] /\ DOMAIN Nothing = {}
  BY DEF Nothing
<1>2. {} \in SUBSET Codes
  OBVIOUS
<1> QED
  BY <1>1, <1>2 DEF Maps

LEMMA MapsAre ==
  ASSUME NEW m \in Maps
  PROVE  /\ DOMAIN m \subseteq Codes /\ \A c \in DOMAIN m : m[c] \subseteq Words
BY DEF Maps

LEMMA MapIs ==
  ASSUME NEW S \in SUBSET Codes, NEW m \in [S -> SUBSET Words]
  PROVE  m \in Maps
BY DEF Maps

\* Codes being unique, the dictionary of a code is the one that has it.
LEMMA OneRow ==
  ASSUME Table, NEW id \in DOMAIN rows, NEW S \in SUBSET DOMAIN rows, id \in S
  PROVE  (CHOOSE i \in S : rows[i].code = rows[id].code) = id
<1>1. \A i \in S : rows[i].code = rows[id].code => i = id
  BY DEF Table
<1> QED
  BY <1>1

LEMMA ActiveMapIs ==
  ASSUME Table
  PROVE  /\ ActiveMap \in Maps
         /\ \A id \in DOMAIN rows : rows[id].active =>
              /\ rows[id].code \in DOMAIN ActiveMap
              /\ ActiveMap[rows[id].code] = rows[id].words
         /\ \A c \in DOMAIN ActiveMap : \E id \in DOMAIN rows :
              rows[id].active /\ rows[id].code = c
<1> DEFINE active == {id \in DOMAIN rows : rows[id].active}
           S == {rows[id].code : id \in active}
           Of(c) == rows[CHOOSE id \in active : rows[id].code = c].words
<1>1. ActiveMap = [c \in S |-> Of(c)]
  BY DEF ActiveMap
<1>2. S \in SUBSET Codes
  BY DEF Table, Row
<1>3. \A id \in active : Of(rows[id].code) = rows[id].words
  BY OneRow
<1>4. \A c \in S : Of(c) \in SUBSET Words
  <2> TAKE c \in S
  <2>1. PICK id \in active : rows[id].code = c
    OBVIOUS
  <2>2. Of(c) = rows[id].words
    BY <1>3, <2>1
  <2> QED
    BY <2>2 DEF Table, Row
<1> HIDE DEF Of
<1>5. ActiveMap \in [S -> SUBSET Words]
  BY <1>1, <1>4
<1>6. ActiveMap \in Maps
  BY <1>5, <1>2, MapIs
<1> QED
  BY <1>1, <1>3, <1>6

\* What a reload makes of the active dictionaries is what the rules want.
LEMMA ResolvedIsWanted ==
  ASSUME Table
  PROVE  \/ Resolved(ActiveMap) = Wanted
         \/ Resolved(ActiveMap) = Nothing /\ \A id \in DOMAIN rows : ~rows[id].active
<1>1. CASE DOMAIN ActiveMap = {}
  BY <1>1, ActiveMapIs DEF Resolved
<1>2. CASE DOMAIN ActiveMap # {}
  <2> DEFINE Rows(c) == {i \in DOMAIN rows : rows[i].code = c /\ rows[i].active}
             Own(c)  == UNION {rows[id].words : id \in Rows(c)}
             Got(c)  == IF c \in DOMAIN ActiveMap THEN ActiveMap[c] ELSE {}
  <2>1. ASSUME NEW c \in Codes PROVE Got(c) = Own(c)
    <3>1. CASE c \in DOMAIN ActiveMap
      <4>1. PICK id \in DOMAIN rows : rows[id].active /\ rows[id].code = c
        BY <3>1, ActiveMapIs
      <4>2. Rows(c) = {id}
        BY <4>1 DEF Table
      <4>3. {rows[i].words : i \in Rows(c)} = {rows[id].words}
        BY <4>2
      <4>4. Own(c) = rows[id].words
        BY <4>3
      <4> QED
        BY <3>1, <4>1, <4>4, ActiveMapIs
    <3>2. CASE c \notin DOMAIN ActiveMap
      <4>1. Rows(c) = {}
        BY <3>2, ActiveMapIs
      <4>2. Own(c) = {}
        BY <4>1
      <4> QED
        BY <3>2, <4>2
    <3> QED
      BY <3>1, <3>2
  <2>2. Resolved(ActiveMap) = [c \in Codes |-> Got(c)]
    BY <1>2 DEF Resolved
  <2>3. Wanted = [c \in Codes |-> Own(c)]
    BY DEF Wanted
  <2> HIDE DEF Got, Own
  <2>4. [c \in Codes |-> Got(c)] = [c \in Codes |-> Own(c)]
    BY <2>1
  <2> QED
    BY <2>2, <2>3, <2>4
<1> QED
  BY <1>1, <1>2

LEMMA ResolvedIsMap ==
  ASSUME NEW m \in Maps
  PROVE  Resolved(m) \in Maps /\ DOMAIN Resolved(m) \in {{}, Codes}
<1>1. CASE DOMAIN m = {}
  BY <1>1, NothingIsMap DEF Resolved
<1>2. CASE DOMAIN m # {}
  <2>1. Resolved(m) = [c \in Codes |-> IF c \in DOMAIN m THEN m[c] ELSE {}]
    BY <1>2 DEF Resolved
  <2>2. Resolved(m) \in [Codes -> SUBSET Words]
    BY <2>1, MapsAre
  <2>3. Resolved(m) \in Maps
    BY <2>2, MapIs
  <2> QED
    BY <2>1, <2>3
<1> QED
  BY <1>1, <1>2

-----------------------------------------------------------------------------
(***************************************************************************)
(* The table                                                               *)
(***************************************************************************)
\* Dictionaries of new codes join the table.
LEMMA InsertJoins ==
  ASSUME Table, NEW S \in SUBSET Codes, S \cap CodesIn(rows) = {},
         NEW words \in SUBSET Words, NEW f \in Injection(S, Ids \ used), Insert(f, words)
  PROVE  Table' /\ Store!Create
<1> DEFINE By(id) == CHOOSE c \in DOMAIN f : f[c] = id
<1>1. /\ f \in [S -> Ids \ used] /\ DOMAIN f = S
      /\ \A c, d \in S : f[c] = f[d] => c = d
  BY DEF Injection, IsInjective
<1>2. Range(f) \subseteq Ids \ used /\ Range(f) \cap DOMAIN rows = {}
  BY <1>1 DEF Range, Table
<1>3. \A id \in Range(f) : By(id) \in S /\ f[By(id)] = id
  BY <1>1 DEF Range
<1>x. rows' = [id \in DOMAIN rows \cup Range(f) |->
                IF id \in DOMAIN rows THEN rows[id] ELSE NewRow(By(id), words)]
  BY DEF Insert, By
<1> HIDE DEF By
<1> DEFINE Joined(id) == IF id \in DOMAIN rows THEN rows[id] ELSE NewRow(By(id), words)
<1>y. /\ rows' = [id \in DOMAIN rows \cup Range(f) |-> Joined(id)]
      /\ \A id \in DOMAIN rows : Joined(id) = rows[id]
      /\ \A id \in Range(f) : Joined(id) = NewRow(By(id), words)
  BY <1>x, <1>2
<1> HIDE DEF Joined
<1>4. /\ DOMAIN rows' = DOMAIN rows \cup Range(f)
      /\ rows' = [id \in DOMAIN rows' |-> rows'[id]]
      /\ \A id \in DOMAIN rows : rows'[id] = rows[id]
      /\ \A id \in Range(f) : rows'[id] = NewRow(By(id), words)
  <2>1. DOMAIN rows' = DOMAIN rows \cup Range(f)
    BY <1>y
  <2>2. \A id \in DOMAIN rows \cup Range(f) : rows'[id] = Joined(id)
    BY <1>y
  <2>3. rows' = [id \in DOMAIN rows' |-> rows'[id]]
    BY <1>y
  <2> QED
    BY <1>y, <2>1, <2>2, <2>3
<1>5. \A id \in Range(f) :
        rows'[id] \in Row /\ rows'[id].code = By(id) /\ rows'[id].version = 1
  <2>1. ASSUME NEW c \in Codes
        PROVE  /\ NewRow(c, words) \in Row
               /\ NewRow(c, words).code = c /\ NewRow(c, words).version = 1
    BY DEF NewRow, Row
  <2> QED
    BY <1>3, <1>4, <2>1
<1>6. used' \subseteq Ids /\ DOMAIN rows' \subseteq used'
  BY <1>2, <1>4 DEF Insert, Table
<1>7. rows' \in [DOMAIN rows' -> Row]
  BY <1>4, <1>5 DEF Table
<1>8. ASSUME NEW i \in DOMAIN rows', NEW j \in DOMAIN rows', rows'[i].code = rows'[j].code
      PROVE  i = j
  <2>1. CASE i \in DOMAIN rows /\ j \in DOMAIN rows
    BY <1>4, <1>8, <2>1 DEF Table
  <2>2. CASE i \in Range(f) /\ j \in Range(f)
    <3>1. By(i) = By(j)
      BY <1>5, <1>8, <2>2
    <3> QED
      BY <1>3, <2>2, <3>1
  <2>3. CASE i \in DOMAIN rows /\ j \in Range(f)
    BY <1>3, <1>4, <1>5, <1>8, <2>3 DEF CodesIn
  <2>4. CASE i \in Range(f) /\ j \in DOMAIN rows
    BY <1>3, <1>4, <1>5, <1>8, <2>4 DEF CodesIn
  <2> QED
    BY <1>4, <2>1, <2>2, <2>3, <2>4
<1>9. Store!Restrict(rows', DOMAIN rows) = rows
  BY <1>4 DEF Store!Restrict, Table
<1> QED
  BY <1>4, <1>5, <1>6, <1>7, <1>8, <1>9 DEF Table, Store!Create

\* The row a request leaves.
After(a) == Updated(rows[job[a].id], seen[a], New(a))

LEMMA NewIs ==
  ASSUME NEW a, seen[a] \in Row, job[a] \in ChangeJob
  PROVE  /\ New(a) \in Row
         /\ New(a).words = IF "words" \in job[a].given
                           THEN CASE job[a].op = "add" -> seen[a].words \cup job[a].words
                                  [] job[a].op = "remove" -> seen[a].words \ job[a].words
                                  [] OTHER -> job[a].words
                           ELSE seen[a].words
         /\ New(a).version = IF "words" \in job[a].given THEN seen[a].version + 1 ELSE seen[a].version
         /\ New(a).active = IF "active" \in job[a].given THEN job[a].active ELSE seen[a].active
<1> DEFINE q == job[a]
           old == seen[a]
           given == CASE q.op = "add" -> old.words \cup q.words
                      [] q.op = "remove" -> old.words \ q.words
                      [] OTHER -> q.words
           words == IF "words" \in q.given THEN given ELSE old.words
           version == IF "words" \in q.given THEN old.version + 1 ELSE old.version
           active == IF "active" \in q.given THEN q.active ELSE old.active
<1>1. New(a) = [old EXCEPT !.words = words, !.version = version, !.active = active]
  BY DEF New
<1>2. words \in SUBSET Words
  BY DEF Row, ChangeJob
<1>3. version \in Nat
  BY DEF Row
<1>4. active \in BOOLEAN
  <2>1. old.active \in BOOLEAN /\ q.active \in BOOLEAN
    BY DEF Row, ChangeJob
  <2> QED
    BY <2>1, Zenon
<1> HIDE DEF words, version, active
<1>5. /\ New(a) \in Row
      /\ New(a).words = words /\ New(a).version = version /\ New(a).active = active
  BY <1>1, <1>2, <1>3, <1>4 DEF Row
<1> QED
  BY <1>5 DEF words, version, active

LEMMA AfterIs ==
  ASSUME NEW a, seen[a] \in Row, job[a] \in ChangeJob, rows[job[a].id] \in Row
  PROVE  /\ After(a) \in Row /\ After(a).code = rows[job[a].id].code
         /\ After(a).words = Written(rows[job[a].id].words, seen[a].words, New(a).words)
         /\ After(a).version = Written(rows[job[a].id].version, seen[a].version, New(a).version)
         /\ After(a).active = Written(rows[job[a].id].active, seen[a].active, New(a).active)
<1>1. New(a) \in Row
  BY NewIs
<1> HIDE DEF New
<1> QED
  BY <1>1 DEF After, Updated, Row, Written

\* A request, as DictionaryStore sees it.
Ask(a) == [op     |-> job[a].op,    id     |-> job[a].id,
           given  |-> job[a].given, words  |-> job[a].words,
           active |-> job[a].active,
           stale  |-> job[a].id \notin DOMAIN rows \/ seen[a] # rows[job[a].id]]

LEMMA AskIsAsked ==
  ASSUME NEW a \in Admins, Writing(a, {"update", "add", "remove", "delete"})
  PROVE  Ask(a) \in Asked
BY DEF Ask, Asked, Changing

\* A change with nothing between its read and its write is the one it asks for.
LEMMA AfterIsApplied ==
  ASSUME NEW a, Asks(job[a], seen[a]), job[a] \in ChangeJob, job[a].op # "delete",
         seen[a] = rows[job[a].id]
  PROVE  After(a) = Store!Applied(rows[job[a].id], Ask(a))
<1> DEFINE q == Ask(a)
           old == rows[job[a].id]
<1>1. seen[a] \in Row /\ old \in Row /\ old = seen[a]
  BY DEF Asks, CreateJob, ChangeJob
<1>2. /\ q.op = job[a].op /\ q.words = job[a].words
      /\ q.given = job[a].given /\ q.active = job[a].active
  BY DEF Ask
<1>3. job[a].op \in {"update", "add", "remove"}
  BY DEF ChangeJob
<1>4. \A x, n : Written(x, x, n) = n
  BY DEF Written
<1>5. After(a) = [old EXCEPT !.words = New(a).words, !.version = New(a).version,
                               !.active = New(a).active]
  BY <1>1, <1>4 DEF After, Updated
<1>6. New(a).words = Store!WordsAfter(old.words, q)
  <2>1. CASE job[a].op = "add"
    BY <1>1, <1>2, <2>1, NewIs DEF Store!WordsAfter, Asks, CreateJob, ChangeJob
  <2>2. CASE job[a].op = "remove"
    BY <1>1, <1>2, <2>2, NewIs DEF Store!WordsAfter, Asks, CreateJob, ChangeJob
  <2>3. CASE job[a].op = "update"
    BY <1>1, <1>2, <2>3, NewIs DEF Store!WordsAfter
  <2> QED
    BY <1>3, <2>1, <2>2, <2>3
<1> DEFINE words == Store!WordsAfter(old.words, q)
           newVersion == words # old.words \/ (q.op = "update" /\ "words" \in q.given)
<1>7. newVersion <=> "words" \in job[a].given
  <2>1. CASE job[a].op = "add"
    BY <1>1, <1>2, <2>1 DEF Store!WordsAfter, Asks, CreateJob, ChangeJob
  <2>2. CASE job[a].op = "remove"
    BY <1>1, <1>2, <2>2 DEF Store!WordsAfter, Asks, CreateJob, ChangeJob
  <2>3. CASE job[a].op = "update"
    BY <1>1, <1>2, <2>3 DEF Store!WordsAfter
  <2> QED
    BY <1>3, <2>1, <2>2, <2>3
<1>8. New(a).version = IF newVersion THEN old.version + 1 ELSE old.version
  BY <1>1, <1>7, NewIs
<1>9. New(a).active = IF "active" \in q.given THEN q.active ELSE old.active
  <2>1. New(a).active = IF "active" \in job[a].given THEN job[a].active ELSE seen[a].active
    BY <1>1, NewIs
  <2> QED
    BY <1>1, <1>2, <2>1, Zenon
<1>10. Store!Applied(old, q) =
         [old EXCEPT !.words = words,
                     !.version = IF newVersion THEN @ + 1 ELSE @,
                     !.active = IF "active" \in q.given THEN q.active ELSE @]
  BY DEF Store!Applied
<1> DEFINE version == IF newVersion THEN old.version + 1 ELSE old.version
           active == IF "active" \in q.given THEN q.active ELSE old.active
<1>11. Store!Applied(old, q) =
         [old EXCEPT !.words = words, !.version = version, !.active = active]
  BY <1>1, <1>10 DEF Row
<1>12. After(a) = [old EXCEPT !.words = words, !.version = version, !.active = active]
  BY <1>5, <1>6, <1>8, <1>9
<1> QED
  BY <1>11, <1>12

LEMMA ChangeStep ==
  ASSUME Inv, NEW a \in Admins, CommitChange(a)
  PROVE  Table' /\ [Store!Next]_rows
<1> DEFINE id == job[a].id
<1>1. CASE id \notin DOMAIN rows
  BY <1>1 DEF CommitChange, Inv, Table
<1>2. CASE id \in DOMAIN rows
  <2>1. job[a].op \in {"update", "add", "remove"} /\ pc[a] = "write" /\ used' = used
    BY DEF CommitChange, Writing
  <2>2. Asks(job[a], seen[a]) /\ job[a] \in ChangeJob /\ seen[a] \in Row
    <3>1. Asks(job[a], seen[a])
      BY <2>1 DEF Inv, Requests
    <3>2. job[a] \notin CreateJob
      BY <2>1 DEF CreateJob
    <3> QED
      BY <3>1, <3>2 DEF Asks
  <2>3. rows[id] \in Row /\ \A i \in DOMAIN rows : rows[i] \in Row
    BY <1>2 DEF Inv, Table
  <2>4. rows' = [rows EXCEPT ![id] = After(a)]
    BY <1>2 DEF CommitChange, After
  <2>5. After(a) \in Row /\ After(a).code = rows[id].code
    BY <2>2, <2>3, AfterIs
  <2>6. /\ DOMAIN rows' = DOMAIN rows /\ rows'[id] = After(a)
        /\ \A i \in DOMAIN rows \ {id} : rows'[i] = rows[i]
        /\ \A i \in DOMAIN rows : rows'[i].code = rows[i].code
    BY <1>2, <2>4, <2>5 DEF Inv, Table
  <2>7. rows' \in [DOMAIN rows' -> Row]
    BY <2>4, <2>5, <2>3 DEF Inv, Table
  <2>8. Table'
    BY <2>1, <2>6, <2>7 DEF Inv, Table
  <2>9. /\ Ask(a) \in Asked /\ Ask(a).id = id /\ Ask(a).op # "delete"
        /\ Ask(a).stale = (id \notin DOMAIN rows \/ seen[a] # rows[id])
    BY <2>1, AskIsAsked DEF Writing, Ask
  <2>10. CASE seen[a] = rows[id]
    <3>1. After(a) = Store!Applied(rows[id], Ask(a))
      BY <2>1, <2>2, <2>10, AfterIsApplied
    <3>2. Store!Change(Ask(a))
      BY <1>2, <2>4, <2>9, <2>10, <3>1 DEF Store!Change
    <3> QED
      BY <2>8, <2>9, <3>2 DEF Store!Next
  <2>11. CASE seen[a] # rows[id]
    <3>1. Store!Overwrite(Ask(a))
      BY <1>2, <2>5, <2>6, <2>9, <2>11 DEF Store!Overwrite
    <3> QED
      BY <2>8, <2>9, <3>1 DEF Store!Next
  <2> QED
    BY <2>10, <2>11
<1> QED
  BY <1>1, <1>2

LEMMA DeleteStep ==
  ASSUME Inv, NEW a \in Admins, CommitDelete(a)
  PROVE  Table' /\ [Store!Next]_rows
<1>1. /\ rows' = [i \in DOMAIN rows \ {job[a].id} |-> rows[i]] /\ used' = used
      /\ Writing(a, {"delete"})
  BY DEF CommitDelete, Restrict
<1>2. Table'
  BY <1>1 DEF Inv, Table
<1>3. Ask(a) \in Asked /\ Ask(a).op = "delete" /\ Ask(a).id = job[a].id
  BY <1>1, AskIsAsked DEF Writing, Ask
<1>4. Store!Delete(Ask(a))
  BY <1>1, <1>3 DEF Store!Delete, Store!Restrict
<1> QED
  BY <1>2, <1>3, <1>4 DEF Store!Next

\* What the statements of the master data are about.
LEMMA Statements ==
  /\ \A s \in MasterData : s.code \in Codes /\ s.do \in {"insert", "extend"}
  /\ \A s \in MasterData : s.do = "extend" => s.code \in Extended
  /\ \A codes \in SUBSET Seeded : Inserts(codes) \subseteq MasterData
  /\ SeedWords \in SUBSET Words /\ ExtraWords \in SUBSET Words
BY ConstantsAssumption DEF MasterData, Inserts

LEMMA ExtensionIs ==
  ASSUME NEW row \in Row
  PROVE  /\ Extension(row) \in Row /\ Extension(row).code = row.code
         /\ Extension(row).words = row.words \cup ExtraWords
         /\ Extension(row).version = row.version + 1
<1> DEFINE words == row.words \cup ExtraWords
           version == row.version + 1
<1>1. Extension(row) = [row EXCEPT !.words = words, !.version = version]
  BY DEF Extension
<1>2. words \in SUBSET Words /\ version \in Nat
  BY Statements DEF Row
<1> HIDE DEF words, version
<1>3. /\ Extension(row) \in Row /\ Extension(row).code = row.code
      /\ Extension(row).words = words /\ Extension(row).version = version
  BY <1>1, <1>2 DEF Row
<1> QED
  BY <1>3 DEF words, version

\* An extended dictionary is one of DictionaryStore's.
LEMMA ExtendStep ==
  ASSUME Inv, NEW c \in Extended, NEW id \in DOMAIN rows, Extend(id, c)
  PROVE  Table' /\ Store!Extend
<1>1. /\ rows' = [rows EXCEPT ![id] = Extension(rows[id])] /\ used' = used
      /\ rows[id].code = c /\ ~(ExtraWords \subseteq rows[id].words)
  BY DEF Extend, Extends
<1>2. /\ rows \in [DOMAIN rows -> Row] /\ rows[id] \in Row
  BY DEF Inv, Table
<1>3. Extension(rows[id]) \in Row /\ Extension(rows[id]).code = rows[id].code
  BY <1>2, ExtensionIs
<1>4. Store!Extend
  BY <1>1 DEF Store!Extend, Extension
<1> HIDE DEF Extension
<1>5. /\ DOMAIN rows' = DOMAIN rows /\ rows' \in [DOMAIN rows' -> Row]
      /\ \A i \in DOMAIN rows : rows'[i].code = rows[i].code
  BY <1>1, <1>2, <1>3
<1> QED
  BY <1>1, <1>4, <1>5 DEF Inv, Table

LEMMA JoinStep ==
  ASSUME Inv, NEW S \in SUBSET Codes, S \cap CodesIn(rows) = {}, NEW words \in SUBSET Words,
         \E f \in Injection(S, Ids \ used) : Insert(f, words)
  PROVE  Table' /\ [Store!Next]_rows
BY InsertJoins DEF Inv, Store!Next

\* The table stays a table, and every step is one of DictionaryStore or none.
LEMMA TableStep == Inv /\ [Next]_vars => Table' /\ [Store!Next]_rows
<1> SUFFICES ASSUME Inv, [Next]_vars PROVE Table' /\ [Store!Next]_rows
  OBVIOUS
<1>1. CASE UNCHANGED <<rows, used>>
  BY <1>1 DEF Inv, Table
<1>2. ASSUME NEW a \in Admins, CommitCreate(a) PROVE Table' /\ [Store!Next]_rows
  <2>1. job[a].code \in Codes /\ job[a].words \in SUBSET Words
    BY <1>2 DEF CommitCreate, Writing, Inv, Requests, Asks, CreateJob, ChangeJob
  <2>2. CASE NotInserted
    BY <1>1, <2>2 DEF NotInserted
  <2>3. CASE job[a].code \notin CodesIn(rows)
    BY <1>2, <2>1, <2>3, JoinStep DEF CommitCreate
  <2> QED
    BY <1>2, <2>2, <2>3 DEF CommitCreate
<1>3. ASSUME NEW w \in Workers, NEW s \in MasterData, Seed(w, s) PROVE Table' /\ [Store!Next]_rows
  <2>1. CASE NotInserted
    BY <1>1, <2>1 DEF NotInserted
  <2>2. CASE s.code \notin CodesIn(rows) /\ \E f \in Injection({s.code}, Ids \ used) : Insert(f, SeedWords)
    BY <2>2, Statements, JoinStep
  <2>3. CASE s.do = "extend" /\ \E id \in DOMAIN rows : Extend(id, s.code)
    BY <2>3, Statements, ExtendStep DEF Store!Next
  <2> QED
    BY <1>3, <2>1, <2>2, <2>3 DEF Seed
<1>4. CASE ScriptInserts
  <2> DEFINE codes == {s.code : s \in todo[Script]}
  <2>1. codes \in SUBSET Codes /\ SeedWords \in SUBSET Words
    BY Statements DEF Inv, Shapes, Processes
  <2>2. CASE NotInserted
    BY <1>1, <2>2 DEF NotInserted
  <2>3. CASE ~NotInserted
    BY <1>4, <2>1, <2>3, JoinStep DEF ScriptInserts
  <2> QED
    BY <2>2, <2>3
<1>5. ASSUME NEW a \in Admins, Request(a) PROVE UNCHANGED <<rows, used>>
  BY <1>5 DEF Request, StartCreate, StartAdd, StartRemove, StartUpdate, StartDelete, StartReload, Start
<1>6. ASSUME NEW p \in Processes, Load(p) \/ Inject(p) \/ Fail(p) PROVE UNCHANGED <<rows, used>>
  BY <1>6 DEF Load, Inject, Fail
<1>7. ASSUME NEW w \in Workers, StartWorker(w) \/ Seeding(w) \/ Stop(w) PROVE UNCHANGED <<rows, used>>
  BY <1>7 DEF StartWorker, Seeding, Stop
<1>8. CASE ScriptReads \/ ScriptMigrates \/ UNCHANGED vars
  BY <1>1, <1>8 DEF ScriptReads, ScriptMigrates, vars
<1> QED
  BY <1>1, <1>2, <1>3, <1>4, <1>5, <1>6, <1>7, <1>8, ChangeStep, DeleteStep
     DEF Next, Handle, Boot, Migrate

-----------------------------------------------------------------------------
(***************************************************************************)
(* What the processes hold                                                 *)
(***************************************************************************)
LEMMA Kinds ==
  /\ Workers \subseteq Processes /\ Admins \subseteq Processes /\ Script \in Processes
  /\ \A a \in Admins : a \notin Workers /\ Steps(a) = {"idle", "write", "load", "inject"}
  /\ \A w \in Workers : Steps(w) = {"down", "seed", "load", "inject", "up"}
  /\ Script \notin Workers /\ Script \notin Admins /\ Steps(Script) = {"idle", "insert", "migrate"}
BY ConstantsAssumption DEF Processes, Steps

\* Process p moves and nothing but its own share of the variables changes.
LEMMA MoveShapes ==
  ASSUME Shapes, NEW p \in Processes, NEW step \in Steps(p), Goto(p, step),
         job' \in [Processes -> CreateJob \cup ChangeJob \cup ReloadJob \cup {NoJob}],
         seen' \in [Processes -> Row \cup {NoRow}],
         map' \in [Processes -> Maps],
         todo' \in [Processes -> SUBSET MasterData],
         eng' \in [Workers -> Maps], \A w \in Workers : DOMAIN eng'[w] \in {{}, Codes}
  PROVE  Shapes'
<1>1. /\ DOMAIN pc' = Processes /\ pc' = [q \in Processes |-> pc'[q]]
      /\ \A q \in Processes : pc'[q] = IF q = p THEN step ELSE pc[q]
  BY DEF Goto, Shapes
<1>2. \A q \in Processes : pc'[q] \in Steps(q)
  BY <1>1 DEF Shapes
<1> QED
  BY <1>1, <1>2 DEF Shapes

LEMMA EndShapes ==
  ASSUME Shapes, NEW p \in Processes, End(p),
         eng' \in [Workers -> Maps], \A w \in Workers : DOMAIN eng'[w] \in {{}, Codes}
  PROVE  Shapes'
<1>1. (IF p \in Workers THEN "up" ELSE "idle") \in Steps(p)
  BY DEF Steps
<1>2. /\ job' \in [Processes -> CreateJob \cup ChangeJob \cup ReloadJob \cup {NoJob}]
      /\ seen' \in [Processes -> Row \cup {NoRow}]
      /\ map' \in [Processes -> Maps]
      /\ todo' \in [Processes -> SUBSET MasterData]
  BY NothingIsMap DEF End, Shapes
<1> QED
  BY <1>1, <1>2, MoveShapes DEF End

LEMMA InitShapes == Init => Shapes
<1> SUFFICES ASSUME Init PROVE Shapes
  OBVIOUS
<1>1. DOMAIN pc = Processes /\ pc = [p \in Processes |-> pc[p]] /\ \A p \in Processes : pc[p] \in Steps(p)
  BY DEF Init, Steps
<1>2. /\ job \in [Processes -> CreateJob \cup ChangeJob \cup ReloadJob \cup {NoJob}]
      /\ seen \in [Processes -> Row \cup {NoRow}]
      /\ todo \in [Processes -> SUBSET MasterData]
  BY DEF Init
<1>3. map \in [Processes -> Maps] /\ eng \in [Workers -> Maps]
  BY NothingIsMap DEF Init
<1>4. \A w \in Workers : DOMAIN eng[w] = {}
  BY NothingIsMap DEF Init
<1> QED
  BY <1>1, <1>2, <1>3, <1>4 DEF Shapes

\* A request that starts holds what it asks for and the row it has read.
LEMMA StartShapes ==
  ASSUME Shapes, NEW a \in Admins, NEW q \in CreateJob \cup ChangeJob, NEW row \in Row \cup {NoRow},
         Start(a, q, row)
  PROVE  Shapes'
<1>1. "write" \in Steps(a) /\ a \in Processes
  BY Kinds
<1>2. /\ job' \in [Processes -> CreateJob \cup ChangeJob \cup ReloadJob \cup {NoJob}]
      /\ seen' \in [Processes -> Row \cup {NoRow}]
      /\ UNCHANGED <<map, todo, eng>> /\ Goto(a, "write")
  BY DEF Start, Shapes
<1> QED
  BY <1>1, <1>2, MoveShapes DEF Shapes

LEMMA StartKeeps ==
  ASSUME Inv, NEW a \in Admins, NEW q, NEW row \in Row \cup {NoRow}, Start(a, q, row), Asks(q, row)
  PROVE  Shapes' /\ Requests'
<1>1. q \in CreateJob \cup ChangeJob
  BY DEF Asks
<1>2. Shapes'
  BY <1>1, StartShapes DEF Inv
<1>3. /\ pc'[a] = "write" /\ job'[a] = q /\ seen'[a] = row
      /\ \A b \in Admins \ {a} : pc'[b] = pc[b] /\ job'[b] = job[b] /\ seen'[b] = seen[b]
  BY Kinds DEF Start, Goto, Inv, Shapes
<1> QED
  BY <1>2, <1>3 DEF Inv, Requests

LEMMA RequestStep ==
  ASSUME Inv, NEW a \in Admins, Request(a)
  PROVE  Shapes' /\ Requests'
<1>1. \A words \in Lists : words \in SUBSET Words
  BY ConstantsAssumption
<1>2. \A id \in DOMAIN rows : rows[id] \in Row
  BY DEF Inv, Table
<1>3. ASSUME NEW c \in Codes, NEW words \in Lists, StartCreate(a, c, words)
      PROVE  Shapes' /\ Requests'
  <2>1. [op |-> "create", code |-> c, words |-> words] \in CreateJob
    BY <1>1 DEF CreateJob
  <2> QED
    BY <1>3, <2>1, StartKeeps DEF StartCreate, Asks
<1>4. ASSUME NEW op \in {"update", "add", "remove", "delete"}, NEW id \in Ids,
             NEW given \in SUBSET {"words", "active"}, NEW words \in SUBSET Words,
             NEW active \in BOOLEAN, id \in DOMAIN rows,
             op \in {"add", "remove"} => given = {"words"},
             op = "add" => ~(words \subseteq rows[id].words),
             op = "remove" => words \cap rows[id].words # {},
             Start(a, [op |-> op, id |-> id, given |-> given, words |-> words,
                       active |-> active], rows[id])
      PROVE  Shapes' /\ Requests'
  <2> DEFINE q == [op |-> op, id |-> id, given |-> given, words |-> words, active |-> active]
  <2>1. q \in ChangeJob
    BY DEF ChangeJob
  <2>2. Asks(q, rows[id])
    BY <1>2, <1>4, <2>1 DEF Asks
  <2> QED
    BY <1>2, <1>4, <2>2, StartKeeps
<1>5. ASSUME NEW id \in Ids, NEW words \in Lists, StartAdd(a, id, words) \/ StartRemove(a, id, words)
      PROVE  Shapes' /\ Requests'
  BY <1>1, <1>4, <1>5 DEF StartAdd, StartRemove
<1>6. ASSUME NEW id \in Ids, NEW words \in Lists, NEW given \in SUBSET {"words", "active"},
             NEW active \in BOOLEAN, StartUpdate(a, id, given, words, active)
      PROVE  Shapes' /\ Requests'
  BY <1>1, <1>4, <1>6 DEF StartUpdate
<1>7. ASSUME NEW id \in Ids, StartDelete(a, id)
      PROVE  Shapes' /\ Requests'
  BY <1>4, <1>7 DEF StartDelete
<1>8. ASSUME NEW w \in Workers, StartReload(a, w)
      PROVE  Shapes' /\ Requests'
  <2>1. [op |-> "reload", at |-> w] \in ReloadJob
    BY DEF ReloadJob
  <2>2. /\ job' \in [Processes -> CreateJob \cup ChangeJob \cup ReloadJob \cup {NoJob}]
        /\ UNCHANGED <<seen, map, todo, eng>> /\ Goto(a, "load")
    BY <1>8, <2>1 DEF StartReload, Inv, Shapes
  <2>3. Shapes'
    BY <2>2, Kinds, MoveShapes DEF Inv, Shapes
  <2>4. /\ pc'[a] = "load" /\ job'[a] \in ReloadJob
        /\ \A b \in Admins \ {a} : pc'[b] = pc[b] /\ job'[b] = job[b] /\ seen'[b] = seen[b]
    BY <1>8, <2>1, Kinds DEF StartReload, Goto, Inv, Shapes
  <2> QED
    BY <2>3, <2>4 DEF Inv, Requests
<1> QED
  BY <1>3, <1>5, <1>6, <1>7, <1>8 DEF Request

\* A process that ends leaves the others as they are.
LEMMA EndKeeps ==
  ASSUME Inv, NEW p \in Processes, End(p),
         eng' \in [Workers -> Maps], \A w \in Workers : DOMAIN eng'[w] \in {{}, Codes}
  PROVE  Shapes' /\ Requests'
<1>1. Shapes'
  BY EndShapes DEF Inv
<1>2. /\ \A b \in Admins \ {p} : pc'[b] = pc[b] /\ job'[b] = job[b] /\ seen'[b] = seen[b]
      /\ p \in Admins => pc'[p] = "idle"
  BY Kinds DEF End, Goto, Inv, Shapes
<1> QED
  BY <1>1, <1>2 DEF Inv, Requests

\* So does a worker or the script, whatever it does.
LEMMA BootKeeps ==
  ASSUME Inv, NEW p \in Workers \cup {Script}, NEW step \in Steps(p), Goto(p, step),
         UNCHANGED <<job, seen, map, eng>>, todo' \in [Processes -> SUBSET MasterData]
  PROVE  Shapes' /\ Requests'
<1>1. Shapes'
  BY Kinds, MoveShapes DEF Inv, Shapes
<1>2. \A b \in Admins : pc'[b] = pc[b] /\ job'[b] = job[b] /\ seen'[b] = seen[b]
  BY Kinds DEF Goto, Inv, Shapes
<1> QED
  BY <1>1, <1>2 DEF Inv, Requests

LEMMA LoadKeeps ==
  ASSUME Inv, NEW p \in Processes, Load(p)
  PROVE  Shapes' /\ Requests'
<1>1. "inject" \in Steps(p) /\ (p \in Admins => job[p] \in ReloadJob)
  BY Kinds DEF Load, Inv, Shapes, Requests, Processes
<1>2. map' \in [Processes -> Maps]
  BY ActiveMapIs DEF Load, Inv, Shapes
<1>3. Shapes'
  BY <1>1, <1>2, MoveShapes DEF Load, Inv, Shapes
<1>4. /\ \A b \in Admins \ {p} : pc'[b] = pc[b]
      /\ p \in Admins => pc'[p] = "inject"
      /\ UNCHANGED <<job, seen>>
  BY Kinds DEF Load, Goto, Inv, Shapes
<1> QED
  BY <1>1, <1>3, <1>4 DEF Inv, Requests

LEMMA InjectKeeps ==
  ASSUME Inv, NEW p \in Processes, Inject(p)
  PROVE  Shapes' /\ Requests'
<1>1. Resolved(map[p]) \in Maps /\ DOMAIN Resolved(map[p]) \in {{}, Codes}
  BY ResolvedIsMap DEF Inv, Shapes
<1>2. eng' = [eng EXCEPT ![Home(p)] = Resolved(map[p])] /\ End(p)
  BY DEF Inject
<1>3. eng' \in [Workers -> Maps] /\ \A w \in Workers : DOMAIN eng'[w] \in {{}, Codes}
  BY <1>1, <1>2 DEF Inv, Shapes
<1> QED
  BY <1>2, <1>3, EndKeeps

LEMMA StopKeeps ==
  ASSUME Inv, NEW w \in Workers, Stop(w)
  PROVE  Shapes' /\ Requests'
<1> DEFINE gone == {w} \cup {a \in Admins : job[a].op = "reload" /\ Home(a) = w}
<1>1. /\ pc'   = [p \in Processes |-> IF p = w THEN "down"
                                      ELSE IF p \in gone THEN "idle" ELSE pc[p]]
      /\ job'  = [p \in Processes |-> IF p \in gone THEN NoJob ELSE job[p]]
      /\ map'  = [p \in Processes |-> IF p \in gone THEN Nothing ELSE map[p]]
      /\ eng'  = [eng EXCEPT ![w] = Nothing]
      /\ todo' = [todo EXCEPT ![w] = {}] /\ seen' = seen
  BY DEF Stop
<1>2. \A p \in gone : p = w \/ p \in Admins
  OBVIOUS
<1> HIDE DEF gone
<1>3. \A p \in Processes : pc'[p] \in Steps(p)
  BY <1>1, <1>2, Kinds DEF Inv, Shapes
<1>4. /\ DOMAIN pc' = Processes /\ pc' = [p \in Processes |-> pc'[p]]
      /\ job' \in [Processes -> CreateJob \cup ChangeJob \cup ReloadJob \cup {NoJob}]
      /\ map' \in [Processes -> Maps]
  BY <1>1, NothingIsMap DEF Inv, Shapes
<1>5. /\ eng' \in [Workers -> Maps] /\ \A v \in Workers : DOMAIN eng'[v] \in {{}, Codes}
      /\ todo' \in [Processes -> SUBSET MasterData]
  BY <1>1, NothingIsMap DEF Inv, Shapes
<1>6. Shapes'
  BY <1>1, <1>3, <1>4, <1>5 DEF Inv, Shapes
<1>7. \A b \in Admins : pc'[b] = "idle" \/ (pc'[b] = pc[b] /\ job'[b] = job[b] /\ seen'[b] = seen[b])
  BY <1>1, <1>2, Kinds
<1> QED
  BY <1>6, <1>7 DEF Inv, Requests

\* Every step leaves what the processes hold in shape.
LEMMA HoldStep == Inv /\ [Next]_vars => Shapes' /\ Requests'
<1> SUFFICES ASSUME Inv, [Next]_vars PROVE Shapes' /\ Requests'
  OBVIOUS
<1> USE Kinds
<1>1. ASSUME NEW p \in Processes, End(p), UNCHANGED eng PROVE Shapes' /\ Requests'
  BY <1>1, EndKeeps DEF Inv, Shapes
<1>2. ASSUME NEW a \in Admins, Handle(a) PROVE Shapes' /\ Requests'
  BY <1>1, <1>2 DEF Handle, CommitCreate, CommitChange, CommitDelete
<1>3. ASSUME NEW p \in Processes, Fail(p) PROVE Shapes' /\ Requests'
  BY <1>1, <1>3 DEF Fail
<1>4. ASSUME NEW w \in Workers, StartWorker(w) \/ Seeding(w) PROVE Shapes' /\ Requests'
  <2>1. todo' \in [Processes -> SUBSET MasterData]
    BY <1>4 DEF StartWorker, Seeding, Inv, Shapes
  <2> QED
    BY <1>4, <2>1, BootKeeps DEF StartWorker, Seeding
<1>5. ASSUME NEW w \in Workers, NEW s \in MasterData, Seed(w, s) PROVE Shapes' /\ Requests'
  <2>1. todo' \in [Processes -> SUBSET MasterData] /\ UNCHANGED <<eng, pc, job, seen, map>>
    BY <1>5 DEF Seed, Inv, Shapes
  <2> QED
    BY <2>1 DEF Inv, Shapes, Requests
<1>6. CASE ScriptReads
  <2>1. todo' \in [Processes -> SUBSET MasterData]
    BY <1>6, Statements DEF ScriptReads, Inv, Shapes
  <2> QED
    BY <1>6, <2>1, BootKeeps DEF ScriptReads
<1>7. CASE ScriptInserts
  <2>1. CASE End(Script)
    BY <1>1, <1>7, <2>1 DEF ScriptInserts
  <2>2. CASE ~End(Script)
    <3>1. /\ Goto(Script, "migrate") /\ UNCHANGED <<job, seen, map, eng>>
          /\ todo' = [todo EXCEPT ![Script] = {}]
      BY <1>7, <2>2 DEF ScriptInserts
    <3>2. todo' \in [Processes -> SUBSET MasterData]
      BY <3>1 DEF Inv, Shapes
    <3> QED
      BY <3>1, <3>2, BootKeeps
  <2> QED
    BY <2>1, <2>2
<1>8. CASE ScriptMigrates
  BY <1>1, <1>8 DEF ScriptMigrates
<1>9. CASE UNCHANGED vars
  BY <1>9 DEF vars, Inv, Shapes, Requests
<1> QED
  BY <1>2, <1>3, <1>4, <1>5, <1>6, <1>7, <1>8, <1>9, RequestStep, LoadKeeps, InjectKeeps, StopKeeps
     DEF Next, Boot, Migrate

-----------------------------------------------------------------------------
(***************************************************************************)
(* Reloads                                                                 *)
(***************************************************************************)
\* A step that leaves the table alone, and the reloads and engines that stay.
LEMMA QuietStep ==
  ASSUME Inv, rows' = rows, undisturbed' \subseteq undisturbed, fresh' \subseteq fresh,
         \A p \in undisturbed' : pc'[p] = pc[p] /\ map'[p] = map[p],
         \A w \in fresh' : eng'[w] = eng[w]
  PROVE  Reloads'
<1>1. ActiveMap' = ActiveMap /\ Wanted' = Wanted
  BY DEF ActiveMap, Wanted
<1>2. \A w \in fresh' : Follows(w)'
  BY <1>1 DEF Inv, Reloads, Follows
<1> QED
  BY <1>1, <1>2 DEF Inv, Reloads

LEMMA ChangesDisturb ==
  ASSUME TableChanges
  PROVE  Reloads'
BY DEF TableChanges, Reloads

LEMMA Others ==
  ASSUME Inv, NEW p \in Processes, NEW step, NEW f, NEW v
  PROVE  /\ Goto(p, step) => \A q \in undisturbed \ {p} : pc'[q] = pc[q]
         /\ End(p) => \A q \in undisturbed \ {p} : pc'[q] = pc[q] /\ map'[q] = map[q]
         /\ pc[p] # "inject" => p \notin undisturbed
BY DEF Goto, End, Inv, Shapes, Reloads

LEMMA HomeIsWorker ==
  ASSUME Inv, NEW p \in Processes, pc[p] \in {"load", "inject"}
  PROVE  Home(p) \in Workers
<1>1. CASE p \in Workers
  BY <1>1 DEF Home
<1>2. CASE p \notin Workers
  <2>1. p \in Admins
    BY <1>2, Kinds DEF Inv, Shapes, Processes
  <2>2. job[p] \in ReloadJob
    BY <2>1 DEF Inv, Requests
  <2> QED
    BY <1>2, <2>2 DEF Home, ReloadJob
<1> QED
  BY <1>1, <1>2

LEMMA LoadFollows ==
  ASSUME Inv, NEW p \in Processes, Load(p)
  PROVE  Reloads'
<1>1. /\ rows' = rows /\ eng' = eng /\ fresh' = fresh
      /\ undisturbed' = undisturbed \cup {p}
      /\ map'[p] = ActiveMap /\ pc'[p] = "inject"
      /\ \A q \in undisturbed \ {p} : map'[q] = map[q] /\ pc'[q] = pc[q]
  BY DEF Load, Goto, Inv, Shapes, Reloads
<1>2. ActiveMap' = ActiveMap /\ Wanted' = Wanted
  BY <1>1 DEF ActiveMap, Wanted
<1>3. \A w \in fresh' : Follows(w)'
  BY <1>1, <1>2 DEF Inv, Reloads, Follows
<1> QED
  BY <1>1, <1>2, <1>3 DEF Inv, Reloads

LEMMA InjectFollows ==
  ASSUME Inv, NEW p \in Processes, Inject(p)
  PROVE  Reloads'
<1>0. PICK h \in Workers : h = Home(p)
  BY HomeIsWorker DEF Inject
<1>1. /\ rows' = rows /\ undisturbed' = undisturbed \ {p} /\ End(p)
      /\ fresh' = IF p \in undisturbed THEN fresh \cup {h} ELSE fresh \ {h}
      /\ eng' = [eng EXCEPT ![h] = Resolved(map[p])]
  BY <1>0 DEF Inject
<1>2. \A q \in undisturbed' : pc'[q] = pc[q] /\ map'[q] = map[q]
  BY <1>1, Others
<1>3. eng'[h] = Resolved(map[p]) /\ \A w \in Workers \ {h} : eng'[w] = eng[w]
  BY <1>1 DEF Inv, Shapes
<1>4. ActiveMap' = ActiveMap /\ Wanted' = Wanted
  BY <1>1 DEF ActiveMap, Wanted
<1>5. p \in undisturbed => Follows(h)'
  <2> SUFFICES ASSUME p \in undisturbed PROVE Follows(h)'
    OBVIOUS
  <2>1. map[p] = ActiveMap
    BY DEF Inv, Reloads
  <2> QED
    BY <1>1, <1>3, <1>4, <2>1, ResolvedIsWanted DEF Inv, Follows
<1>6. \A w \in fresh \ {h} : Follows(w)'
  BY <1>1, <1>3, <1>4 DEF Inv, Reloads, Follows
<1>7. \A w \in fresh' : Follows(w)'
  BY <1>1, <1>5, <1>6
<1> QED
  BY <1>1, <1>2, <1>4, <1>7 DEF Inv, Reloads

LEMMA StopFollows ==
  ASSUME Inv, NEW w \in Workers, Stop(w)
  PROVE  Reloads'
<1> DEFINE gone == {w} \cup {a \in Admins : job[a].op = "reload" /\ Home(a) = w}
<1>1. /\ rows' = rows /\ undisturbed' = undisturbed \ gone /\ fresh' = fresh \ {w}
      /\ eng' = [eng EXCEPT ![w] = Nothing]
      /\ \A q \in Processes \ gone : pc'[q] = pc[q] /\ map'[q] = map[q]
  BY DEF Stop
<1> HIDE DEF gone
<1>2. \A v \in fresh' : eng'[v] = eng[v]
  BY <1>1 DEF Inv, Shapes, Reloads
<1> QED
  BY <1>1, <1>2, QuietStep DEF Inv, Reloads

LEMMA ReloadStep == Inv /\ [Next]_vars => Reloads'
<1> SUFFICES ASSUME Inv, [Next]_vars PROVE Reloads'
  OBVIOUS
<1> USE Kinds
<1>1. ASSUME NEW p \in Processes, pc[p] # "inject", End(p), UNCHANGED <<rows, eng, undisturbed, fresh>>
      PROVE  Reloads'
  BY <1>1, Others, QuietStep
<1>2. ASSUME NEW p \in Processes, NEW step, pc[p] # "inject", Goto(p, step),
             UNCHANGED <<rows, eng, map, undisturbed, fresh>>
      PROVE  Reloads'
  BY <1>2, Others, QuietStep
<1>3. ASSUME NEW a \in Admins, Request(a) PROVE Reloads'
  <2>1. ASSUME NEW q, NEW row, Start(a, q, row) PROVE Reloads'
    BY <1>2, <2>1 DEF Start
  <2>2. CASE \E w \in Workers : StartReload(a, w)
    BY <1>2, <2>2 DEF StartReload
  <2> QED
    BY <1>3, <2>1, <2>2 DEF Request, StartCreate, StartAdd, StartRemove, StartUpdate, StartDelete
<1>4. ASSUME NEW a \in Admins, Handle(a) PROVE Reloads'
  <2>1. CASE CommitCreate(a)
    BY <1>1, <2>1, ChangesDisturb DEF CommitCreate, Writing, Insert, NotInserted
  <2>2. CASE CommitChange(a)
    BY <1>1, <2>2, ChangesDisturb DEF CommitChange, Writing
  <2>3. CASE CommitDelete(a)
    BY <2>3, ChangesDisturb DEF CommitDelete
  <2> QED
    BY <1>4, <2>1, <2>2, <2>3 DEF Handle
<1>5. ASSUME NEW p \in Processes, Fail(p) PROVE Reloads'
  BY <1>5, Others, QuietStep DEF Fail
<1>6. ASSUME NEW w \in Workers, StartWorker(w) \/ Seeding(w) PROVE Reloads'
  BY <1>2, <1>6 DEF StartWorker, Seeding
<1>7. ASSUME NEW w \in Workers, NEW s \in MasterData, Seed(w, s) PROVE Reloads'
  <2>1. CASE NotInserted
    BY <1>7, <2>1, QuietStep DEF Seed, NotInserted
  <2>2. CASE ~NotInserted
    BY <1>7, <2>2, ChangesDisturb DEF Seed, Insert, Extend
  <2> QED
    BY <2>1, <2>2
<1>8. CASE ScriptReads
  BY <1>2, <1>8 DEF ScriptReads
<1>9. CASE ScriptInserts
  BY <1>1, <1>9, ChangesDisturb DEF ScriptInserts, Insert, NotInserted
<1>10. CASE ScriptMigrates
  BY <1>1, <1>10 DEF ScriptMigrates
<1>11. CASE UNCHANGED vars
  BY <1>11, QuietStep DEF vars
<1> QED
  BY <1>3, <1>4, <1>5, <1>6, <1>7, <1>8, <1>9, <1>10, <1>11, LoadFollows, InjectFollows, StopFollows
     DEF Next, Boot, Migrate

-----------------------------------------------------------------------------
(***************************************************************************)
(* Theorems                                                                *)
(***************************************************************************)
LEMMA InitInv == Init => Inv
<1> SUFFICES ASSUME Init PROVE Inv
  OBVIOUS
<1>1. Table
  <2>1. rows \in [{} -> Row] /\ DOMAIN rows = {} /\ used = {}
    BY DEF Init, Nothing
  <2> QED
    BY <2>1 DEF Table
<1>2. Requests
  BY Kinds DEF Init, Requests
<1>3. Reloads
  BY DEF Init, Reloads
<1> QED
  BY <1>1, <1>2, <1>3, InitShapes DEF Inv

LEMMA NextInv == Inv /\ [Next]_vars => Inv'
BY TableStep, HoldStep, ReloadStep DEF Inv

LEMMA Invariance == Spec => []Inv
BY InitInv, NextInv, PTL DEF Spec

\* The variables hold what the table, the engines and the processes hold.
THEOREM TypeCorrect == Spec => []TypeOK
<1>1. Inv => TypeOK
  <2> SUFFICES ASSUME Inv PROVE TypeOK
    OBVIOUS
  <2>1. \A id \in DOMAIN rows : rows[id] \in Row
    BY DEF Inv, Table
  <2>2. \A w \in Workers : DOMAIN eng[w] \in {{}, Codes} /\ \A c \in DOMAIN eng[w] : eng[w][c] \subseteq Words
    BY MapsAre DEF Inv, Shapes
  <2>3. /\ DOMAIN eng = Workers /\ DOMAIN pc = Processes
        /\ DOMAIN job = Processes /\ DOMAIN seen = Processes
    BY DEF Inv, Shapes
  <2> QED
    BY <2>1, <2>2, <2>3 DEF Inv, Table, Reloads, TypeOK
<1> QED
  BY <1>1, Invariance, PTL

\* load_active_dictionary_map and _resolve_dict_refs: an engine that nothing
\* has overtaken looks for the words of the active dictionaries, for any
\* number of workers, reloads and changes at the same time.
THEOREM EnginesFollow == Spec => []FreshEnginesFollowTable
<1>1. Inv => FreshEnginesFollowTable
  BY DEF Inv, Reloads, Follows, FreshEnginesFollowTable
<1> QED
  BY <1>1, Invariance, PTL

\* The endpoints, the starts of workers and the script implement the table of
\* DictionaryStore, whatever interleaves.
THEOREM ImplementsStore == Spec => ChangesAreAtomicUnlessStale
<1>1. Init => Store!Init
  BY DEF Init, Nothing, Store!Init
<1>2. Inv /\ [Next]_vars => [Store!Next]_rows
  BY TableStep
<1> QED
  BY <1>1, <1>2, Invariance, PTL DEF Spec, ChangesAreAtomicUnlessStale, Store!Spec

-----------------------------------------------------------------------------
(***************************************************************************)
(* Changes that do not meet                                                *)
(***************************************************************************)
\* No two requests are about to write to the same dictionary, and no starting
\* worker is still to put words back into the dictionary of a request.
Apart ==
  /\ \A a, b \in Changing : job[a].id = job[b].id => a = b
  /\ \A a \in Changing, w \in Workers : \A s \in todo[w] :
       s.do = "extend" /\ job[a].id \in DOMAIN rows => ~Extends(rows[job[a].id], s.code)

\* The row a request has read is still the one in the table.
Untouched(a) == job[a].id \in DOMAIN rows /\ seen[a] = rows[job[a].id]

NoneStale == \A a \in Changing : Untouched(a)

\* DictionaryStore without the exception: every change is one step, applied to
\* the row as it is then, and so is every extension by a starting worker.
AtomicStep ==
  \/ Store!Create \/ Store!Extend
  \/ \E q \in Asked : Store!Change(q) \/ Store!Delete(q)

EveryChangeIsAtomic == Store!Init /\ [][AtomicStep]_rows

\* Dictionaries that join the table leave those that are there.
LEMMA InsertLeaves ==
  ASSUME NEW f, NEW words, Insert(f, words), NEW i \in DOMAIN rows
  PROVE  i \in DOMAIN rows' /\ rows'[i] = rows[i]
<1>1. i \in DOMAIN rows \cup Range(f)
  OBVIOUS
<1> HIDE DEF Range
<1> QED
  BY <1>1 DEF Insert

\* What a process does to the table spares the rows no request of its own is
\* about, unless it is a starting worker that extends a dictionary.
LEMMA OthersSpare ==
  ASSUME Inv, [Next]_vars, NEW i \in DOMAIN rows,
         \A b \in Admins : CommitChange(b) \/ CommitDelete(b) => job[b].id # i
  PROVE  \/ i \in DOMAIN rows' /\ rows'[i] = rows[i]
         \/ /\ \E w \in Workers, s \in MasterData : s.do = "extend" /\ s \in todo[w] /\ Extends(rows[i], s.code)
            /\ i \in DOMAIN rows' /\ rows'[i] = Extension(rows[i])
<1>1. CASE rows' = rows
  BY <1>1
<1>2. CASE \E f, words : Insert(f, words)
  BY <1>2, InsertLeaves
<1>3. ASSUME NEW b \in Admins, CommitChange(b) PROVE i \in DOMAIN rows' /\ rows'[i] = rows[i]
  <2>1. job[b].id # i
    BY <1>3
  <2>2. CASE job[b].id \in DOMAIN rows
    <3>1. rows' = [rows EXCEPT ![job[b].id] = Updated(@, seen[b], New(b))]
      BY <1>3, <2>2 DEF CommitChange
    <3> HIDE DEF Updated, New
    <3> QED
      BY <2>1, <3>1
  <2> QED
    BY <1>1, <1>3, <2>2 DEF CommitChange
<1>4. ASSUME NEW b \in Admins, CommitDelete(b) PROVE i \in DOMAIN rows' /\ rows'[i] = rows[i]
  BY <1>4 DEF CommitDelete, Restrict
<1>5. ASSUME NEW b \in Admins, CommitCreate(b) PROVE rows' = rows \/ \E f, words : Insert(f, words)
  BY <1>5 DEF CommitCreate, NotInserted
<1>6. ASSUME NEW b \in Admins, Request(b) PROVE rows' = rows
  BY <1>6 DEF Request, StartCreate, StartAdd, StartRemove, StartUpdate, StartDelete, StartReload, Start
<1>7. ASSUME NEW p \in Processes, Load(p) \/ Inject(p) \/ Fail(p) PROVE rows' = rows
  BY <1>7 DEF Load, Inject, Fail
<1>8. ASSUME NEW w \in Workers, Boot(w), ~(\E f, words : Insert(f, words)), rows' # rows
      PROVE  /\ \E s \in MasterData : s.do = "extend" /\ s \in todo[w] /\ \E id \in DOMAIN rows : Extend(id, s.code)
  BY <1>8 DEF Boot, StartWorker, Seeding, Stop, Seed, NotInserted
<1>11. ASSUME NEW w \in Workers, NEW s \in MasterData, s.do = "extend", s \in todo[w],
             NEW id \in DOMAIN rows, Extend(id, s.code)
      PROVE  /\ i \in DOMAIN rows'
             /\ rows'[i] = rows[i] \/ (rows'[i] = Extension(rows[i]) /\ Extends(rows[i], s.code))
  <2>1. rows' = [rows EXCEPT ![id] = Extension(rows[id])] /\ Extends(rows[id], s.code)
    BY <1>11 DEF Extend
  <2> HIDE DEF Extension, Extends
  <2> QED
    BY <2>1
<1>9. CASE Migrate
  BY <1>1, <1>2, <1>9 DEF Migrate, ScriptReads, ScriptInserts, ScriptMigrates, NotInserted
<1>10. CASE UNCHANGED vars
  BY <1>1, <1>10 DEF vars
<1> QED
  <2>1. CASE \E w \in Workers : Boot(w)
    BY <1>1, <1>2, <1>8, <1>11, <2>1
  <2> QED
    BY <1>1, <1>2, <1>3, <1>4, <1>5, <1>6, <1>7, <1>9, <1>10, <2>1 DEF Next, Handle

\* A request about to change a row has just read it, or was about to already.
LEMMA AskingIs ==
  ASSUME Inv, [Next]_vars, NEW a \in Changing'
  PROVE  \/ Untouched(a)'
         \/ /\ a \in Changing /\ job'[a] = job[a] /\ seen'[a] = seen[a]
            /\ ~CommitChange(a) /\ ~CommitDelete(a)
<1> DEFINE Waits == /\ a \in Changing /\ job'[a] = job[a] /\ seen'[a] = seen[a]
                    /\ ~CommitChange(a) /\ ~CommitDelete(a)
<1>1. a \in Admins /\ pc'[a] = "write" /\ job'[a].op \in {"update", "add", "remove", "delete"}
  BY DEF Changing, Writing
<1>2. ASSUME NEW p \in Processes, End(p) PROVE p # a /\ pc'[a] = pc[a] /\ job'[a] = job[a] /\ seen'[a] = seen[a]
  BY <1>1, <1>2, Kinds DEF End, Goto, Inv, Shapes
<1>3. ASSUME pc'[a] = pc[a], job'[a] = job[a], seen'[a] = seen[a] PROVE Waits
  <2>1. a \in Changing
    BY <1>1, <1>3 DEF Changing, Writing
  <2>2. ~End(a)
    BY <1>1, <1>2, Kinds
  <2> QED
    BY <1>3, <2>1, <2>2 DEF CommitChange, CommitDelete
<1> HIDE DEF Waits
<1>4. ASSUME NEW p \in Processes, End(p) PROVE Waits
  BY <1>2, <1>3, <1>4
<1>5. ASSUME NEW p \in Processes, NEW step, step # "write", Goto(p, step), UNCHANGED <<job, seen>> PROVE Waits
  <2>1. p # a /\ pc'[a] = pc[a]
    BY <1>1, <1>5, Kinds DEF Goto, Inv, Shapes
  <2> QED
    BY <1>3, <1>5, <2>1
<1>6. ASSUME NEW b \in Admins, Request(b) PROVE Waits \/ Untouched(a)'
  <2>1. ASSUME NEW q, NEW row, Start(b, q, row), b # a PROVE Waits
    BY <1>3, <2>1, Kinds DEF Start, Goto, Inv, Shapes
  <2>2. ASSUME NEW q, NEW row, Start(a, q, row)
        PROVE  job'[a] = q /\ seen'[a] = row /\ rows' = rows
    BY <1>1, <2>2, Kinds DEF Start, Inv, Shapes
  <2>3. ASSUME NEW c \in Codes, NEW words \in Lists, StartCreate(b, c, words) PROVE Waits
    BY <1>1, <2>1, <2>2, <2>3 DEF StartCreate
  <2>4. ASSUME NEW q, NEW id \in DOMAIN rows, q.id = id, Start(b, q, rows[id]) PROVE Waits \/ Untouched(a)'
    BY <2>1, <2>2, <2>4 DEF Untouched
  <2>5. ASSUME NEW w \in Workers, StartReload(b, w) PROVE Waits
    <3>1. b # a
      BY <1>1, <2>5, Kinds DEF StartReload, Goto, Inv, Shapes
    <3> QED
      BY <1>3, <2>5, <3>1, Kinds DEF StartReload, Goto, Inv, Shapes
  <2> QED
    BY <1>6, <2>3, <2>4, <2>5 DEF Request, StartAdd, StartRemove, StartUpdate, StartDelete
<1>7. ASSUME NEW b \in Admins, Handle(b) PROVE Waits
  BY <1>4, <1>7, Kinds DEF Handle, CommitCreate, CommitChange, CommitDelete
<1>8. ASSUME NEW p \in Processes, Load(p) \/ Inject(p) \/ Fail(p) PROVE Waits
  BY <1>4, <1>5, <1>8 DEF Load, Inject, Fail
<1>9. ASSUME NEW w \in Workers, StartWorker(w) \/ Seeding(w) \/ \E s \in MasterData : Seed(w, s) PROVE Waits
  BY <1>3, <1>5, <1>9, Kinds DEF StartWorker, Seeding, Seed
<1>10. ASSUME NEW w \in Workers, Stop(w) PROVE Waits
  <2>1. a # w
    BY <1>1, Kinds
  <2>2. pc'[a] = pc[a] /\ job'[a] = job[a] /\ seen' = seen
    BY <1>1, <1>10, <2>1, Kinds DEF Stop
  <2> QED
    BY <1>3, <2>2
<1>11. ASSUME Migrate PROVE Waits
  BY <1>4, <1>5, <1>11, Kinds DEF Migrate, ScriptReads, ScriptInserts, ScriptMigrates
<1>12. ASSUME UNCHANGED vars PROVE Waits
  BY <1>3, <1>12 DEF vars
<1>13. Waits \/ Untouched(a)'
  BY <1>6, <1>7, <1>8, <1>9, <1>10, <1>11, <1>12 DEF Next, Boot
<1> QED
  BY <1>13 DEF Waits

LEMMA ApartStep == Inv /\ Apart /\ NoneStale /\ [Next]_vars => NoneStale'
<1> SUFFICES ASSUME Inv, Apart, NoneStale, [Next]_vars, NEW a \in Changing' PROVE Untouched(a)'
  BY DEF NoneStale
<1>1. SUFFICES ASSUME a \in Changing, job'[a] = job[a], seen'[a] = seen[a],
                      ~CommitChange(a), ~CommitDelete(a)
               PROVE  Untouched(a)'
  BY AskingIs
<1>2. job[a].id \in DOMAIN rows /\ seen[a] = rows[job[a].id]
  BY <1>1 DEF NoneStale, Untouched
<1>3. \A b \in Admins : CommitChange(b) \/ CommitDelete(b) => b \in Changing
  BY DEF CommitChange, CommitDelete, Changing, Writing
<1>4. \A b \in Admins : CommitChange(b) \/ CommitDelete(b) => job[b].id # job[a].id
  BY <1>1, <1>3 DEF Apart
<1>5. job[a].id \in DOMAIN rows' /\ rows'[job[a].id] = rows[job[a].id]
  BY <1>1, <1>2, <1>4, OthersSpare DEF Apart
<1> QED
  BY <1>1, <1>2, <1>5 DEF Untouched

\* A request whose row is untouched is not stale, and overwrites nothing.
LEMMA UntouchedStep ==
  Inv /\ NoneStale /\ [Next]_vars => [AtomicStep]_rows
<1> SUFFICES ASSUME Inv, NoneStale, [Next]_vars PROVE [AtomicStep]_rows
  OBVIOUS
<1>1. [Store!Next]_rows
  BY TableStep
<1>2. \A q \in Asked : ~q.stale
  <2> TAKE q \in Asked
  <2>1. PICK a \in Changing : q = Ask(a)
    BY DEF Asked, Ask
  <2>2. job[a].id \in DOMAIN rows /\ seen[a] = rows[job[a].id]
    BY DEF NoneStale, Untouched
  <2>3. q.stale = (job[a].id \notin DOMAIN rows \/ seen[a] # rows[job[a].id])
    BY <2>1 DEF Ask
  <2> QED
    BY <2>2, <2>3
<1>3. \A q \in Asked : ~Store!Overwrite(q)
  BY <1>2 DEF Store!Overwrite
<1> QED
  BY <1>1, <1>3 DEF Store!Next, AtomicStep

\* The endpoints: no change is lost while no two requests change the same
\* dictionary at the same time and no worker that starts meets a request for a
\* dictionary that lacks words of the master data, whatever else goes on:
\* requests for other dictionaries, creations, starts that find nothing to put
\* back or put it back between two requests, reloads and the script.
THEOREM ApartChangesAreAtomic == Spec /\ []Apart => EveryChangeIsAtomic
<1>1. Init => NoneStale
  BY Kinds DEF Init, NoneStale, Changing, Writing
<1>2. Init => Store!Init
  BY DEF Init, Nothing, Store!Init
<1> QED
  BY <1>1, <1>2, ApartStep, UntouchedStep, Invariance, PTL DEF Spec, EveryChangeIsAtomic

\* With one thread for administrators nothing gets between the read of a request
\* and its write except the start of a worker, and that at most once: the row is
\* the one the request has read, or this one with the words of the master data.
\* The script and the starts remove none.
RequestsMeetOnlyStarts ==
  \A a \in Changing :
    LET id == job[a].id
    IN  /\ id \in DOMAIN rows
        /\ \/ rows[id] = seen[a]
           \/ seen[a].code \in Extended /\ rows[id] = Extension(seen[a])

LEMMA MeetStep ==
  ASSUME \A a, b \in Admins : a = b
  PROVE  Inv /\ RequestsMeetOnlyStarts /\ [Next]_vars => RequestsMeetOnlyStarts'
<1> SUFFICES ASSUME Inv, RequestsMeetOnlyStarts, [Next]_vars, NEW a \in Changing'
             PROVE  /\ job'[a].id \in DOMAIN rows'
                    /\ \/ rows'[job'[a].id] = seen'[a]
                       \/ seen'[a].code \in Extended /\ rows'[job'[a].id] = Extension(seen'[a])
  BY DEF RequestsMeetOnlyStarts, Extension
<1>1. CASE Untouched(a)'
  BY <1>1 DEF Untouched
<1>2. CASE /\ a \in Changing /\ job'[a] = job[a] /\ seen'[a] = seen[a]
           /\ ~CommitChange(a) /\ ~CommitDelete(a)
  <2> DEFINE i == job[a].id
  <2>1. /\ a \in Admins /\ i \in DOMAIN rows
        /\ rows[i] = seen[a] \/ (seen[a].code \in Extended /\ rows[i] = Extension(seen[a]))
    BY <1>2 DEF RequestsMeetOnlyStarts, Changing
  <2>2. \A b \in Admins : CommitChange(b) \/ CommitDelete(b) => job[b].id # i
    BY <1>2, <2>1
  <2>3. CASE i \in DOMAIN rows' /\ rows'[i] = rows[i]
    BY <1>2, <2>1, <2>3
  <2>4. CASE /\ \E w \in Workers, s \in MasterData : s.do = "extend" /\ s \in todo[w] /\ Extends(rows[i], s.code)
             /\ i \in DOMAIN rows' /\ rows'[i] = Extension(rows[i])
    <3>1. rows[i] \in Row /\ rows[i].code \in Extended /\ ~(ExtraWords \subseteq rows[i].words)
      BY <2>1, <2>4, Statements DEF Extends, Inv, Table
    <3>2. seen[a] \in Row
      BY <1>2 DEF Inv, Requests, Changing, Writing, Asks, CreateJob
    <3>3. rows[i] = seen[a]
      BY <2>1, <3>1, <3>2, ExtensionIs
    <3> QED
      BY <1>2, <2>4, <3>1, <3>3
  <2> QED
    BY <2>1, <2>2, <2>3, <2>4, OthersSpare
<1> QED
  BY <1>1, <1>2, AskingIs

\* One thread that serves administrators does not overwrite another change, and
\* what a starting worker puts back is all it can overwrite: its request finds
\* the row it has read, or this row with the words of the master data, whatever
\* workers, reloads and the script do.
THEOREM OneAdministratorMeetsOnlyStarts ==
  ASSUME \A a, b \in Admins : a = b
  PROVE  Spec => []RequestsMeetOnlyStarts
<1>1. Init => RequestsMeetOnlyStarts
  BY Kinds DEF Init, RequestsMeetOnlyStarts, Changing, Writing
<1> QED
  BY <1>1, MeetStep, Invariance, PTL DEF Spec

\* A new list of words has a version of its own.
VersionsCount ==
  [][\A id \in DOMAIN rows \cap DOMAIN rows' :
        rows'[id].words # rows[id].words => rows'[id].version = rows[id].version + 1]_rows

LEMMA AppliedCounts ==
  ASSUME NEW row \in Row, NEW q, Store!Applied(row, q).words # row.words
  PROVE  Store!Applied(row, q).version = row.version + 1
<1> DEFINE words == Store!WordsAfter(row.words, q)
           newVersion == words # row.words \/ (q.op = "update" /\ "words" \in q.given)
           version == IF newVersion THEN row.version + 1 ELSE row.version
           active == IF "active" \in q.given THEN q.active ELSE row.active
<1>1. Store!Applied(row, q) = [row EXCEPT !.words = words, !.version = version, !.active = active]
  BY DEF Store!Applied, Row
<1> HIDE DEF words, version, active
<1>2. Store!Applied(row, q).words = words /\ Store!Applied(row, q).version = version
  BY <1>1 DEF Row
<1> QED
  BY <1>2 DEF version

LEMMA VersionStep ==
  Inv /\ NoneStale /\ [Next]_vars =>
    [\A id \in DOMAIN rows \cap DOMAIN rows' :
        rows'[id].words # rows[id].words => rows'[id].version = rows[id].version + 1]_rows
<1> SUFFICES ASSUME Inv, NoneStale, [Next]_vars, rows' # rows,
                    NEW id \in DOMAIN rows, id \in DOMAIN rows', rows'[id].words # rows[id].words
             PROVE  rows'[id].version = rows[id].version + 1
  OBVIOUS
<1>1. Store!Create \/ Store!Extend \/ \E q \in Asked : Store!Change(q) \/ Store!Delete(q)
  BY UntouchedStep DEF AtomicStep
<1>2. ~Store!Create
  <2> SUFFICES ASSUME Store!Create PROVE FALSE
    OBVIOUS
  <2>1. Store!Restrict(rows', DOMAIN rows)[id] = rows'[id]
    BY DEF Store!Restrict
  <2> QED
    BY <2>1 DEF Store!Create
<1>3. ASSUME NEW q \in Asked, Store!Delete(q) PROVE FALSE
  <2>1. rows' = [i \in DOMAIN rows \ {q.id} |-> rows[i]]
    BY <1>3 DEF Store!Delete, Store!Restrict
  <2> QED
    BY <2>1
<1>4. rows[id] \in Row
  BY DEF Inv, Table
<1>5. CASE Store!Extend
  <2>1. PICK i \in DOMAIN rows :
          rows' = [rows EXCEPT ![i].words = @ \cup ExtraWords, ![i].version = @ + 1]
    BY <1>5 DEF Store!Extend
  <2>2. i = id
    BY <2>1
  <2>3. rows'[id] = [rows[id] EXCEPT !.words = @ \cup ExtraWords, !.version = @ + 1]
    BY <2>1, <2>2, Zenon
  <2> QED
    BY <1>4, <2>3 DEF Row
<1> SUFFICES ASSUME ~Store!Extend PROVE rows'[id].version = rows[id].version + 1
  BY <1>5
<1>6. PICK q \in Asked : Store!Change(q)
  BY <1>1, <1>2, <1>3
<1>7. rows' = [rows EXCEPT ![q.id] = Store!Applied(rows[q.id], q)] /\ q.id \in DOMAIN rows
  BY <1>6 DEF Store!Change
<1>8. id = q.id /\ rows'[id] = Store!Applied(rows[id], q)
  BY <1>7
<1> QED
  BY <1>8, <1>4, AppliedCounts

\* dictionary_service.py counts a version with every new list of words, and so do
\* the UPDATEs of 02-master-data.sql. While changes do not meet (Apart), that
\* tells any list of a dictionary from the one before. (Two requests that do, or
\* one whose dictionary a starting worker extends in between, can leave different
\* words under the same version.)
THEOREM VersionsTellListsApart == Spec /\ []Apart => VersionsCount
<1>1. Init => NoneStale
  BY Kinds DEF Init, NoneStale, Changing, Writing
<1> QED
  BY <1>1, ApartStep, VersionStep, Invariance, PTL DEF Spec, VersionsCount
=============================================================================
