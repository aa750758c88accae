-------------------------- MODULE DictionaryStore --------------------------
(***************************************************************************)
(* What the dictionary endpoints promise: a table of keyword dictionaries  *)
(* on which every change is one step, applied to the row as it is then.    *)
(* A change to a row that is no longer as its request read it is the       *)
(* exception: of what it leaves in that row, nothing is promised. Some     *)
(* dictionaries are extended by the program itself, again and again.       *)
(***************************************************************************)
EXTENDS Integers, Functions

CONSTANTS
  extended,  \* codes of dictionaries the program extends
  extra      \* the words it wants in them

VARIABLES
  store,     \* table dictionaries: the rows by id
  asked      \* the changes asked for: [op, id, given, words, active, stale]

\* The words a request wants in the dictionary instead of those it has.
WordsAfter(words, q) ==
  CASE q.op = "add"    -> words \cup q.words
    [] q.op = "remove" -> words \ q.words
    [] q.op = "update" -> IF "words" \in q.given THEN q.words ELSE words

\* Row r after request q. A list of words that replaces the present one is a
\* new version; words that are added or removed only if they change it.
Applied(r, q) ==
  LET words == WordsAfter(r.words, q)
      newVersion == words # r.words \/ (q.op = "update" /\ "words" \in q.given)
  IN  [r EXCEPT !.words   = words,
                !.version = IF newVersion THEN @ + 1 ELSE @,
                !.active  = IF "active" \in q.given THEN q.active ELSE @]

-----------------------------------------------------------------------------
Init == store = [id \in {} |-> {}]

\* Dictionaries join the table, all in their first version; no two share a code.
Create ==
  /\ DOMAIN store \subseteq DOMAIN store'
  /\ Restrict(store', DOMAIN store) = store
  /\ \A id \in DOMAIN store' \ DOMAIN store : store'[id].version = 1
  /\ \A i, j \in DOMAIN store' : store'[i].code = store'[j].code => i = j

Change(q) ==
  /\ q.id \in DOMAIN store /\ q.op # "delete" /\ ~q.stale
  /\ store' = [store EXCEPT ![q.id] = Applied(@, q)]

Overwrite(q) ==
  /\ q.id \in DOMAIN store /\ q.op # "delete" /\ q.stale
  /\ DOMAIN store' = DOMAIN store
  /\ \A id \in DOMAIN store \ {q.id} : store'[id] = store[id]
  /\ store'[q.id].code = store[q.id].code

\* A dictionary that lacks a word of its extension gets all of it, as a change
\* of its own: nothing else of it is lost. No request asks for that.
Extend ==
  \E id \in DOMAIN store :
    /\ store[id].code \in extended /\ ~(extra \subseteq store[id].words)
    /\ store' = [store EXCEPT ![id].words = @ \cup extra, ![id].version = @ + 1]

Delete(q) ==
  /\ q.op = "delete"
  /\ store' = Restrict(store, DOMAIN store \ {q.id})

Next == Create \/ Extend \/ \E q \in asked : Change(q) \/ Overwrite(q) \/ Delete(q)

Spec == Init /\ [][Next]_store
=============================================================================
