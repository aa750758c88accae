---------------------------- MODULE AuditLedger ----------------------------
(***************************************************************************)
(* What the audit_chain table promises, with no request, session or        *)
(* worker in sight: a set of rows that only ever grows, one row at a time. *)
(*                                                                         *)
(*   LinearSpec  is the promise of the documentation: a new row is put     *)
(*               behind the last one and carries its hash.                 *)
(*   TreeSpec    is what is left of it when sealers run side by side: a    *)
(*               new row carries the hash of some row that was there.      *)
(***************************************************************************)
EXTENDS Integers

CONSTANT Genesis    \* the prev_hash of the first row: "0" * 64

VARIABLE chain      \* the committed rows of audit_chain

\* b comes directly behind p in id order.
Follows(b, p, rows) ==
  /\ p \in rows
  /\ p.id < b.id
  /\ \A r \in rows : r.id < b.id => r.id <= p.id

First(b, rows) == \A r \in rows : b.id <= r.id

\* The link verify_chain demands of row b.
Linked(b, rows) ==
  \/ First(b, rows) /\ b.prev_hash = Genesis
  \/ \E p \in rows : Follows(b, p, rows) /\ b.prev_hash = p.batch_hash

\* The hash b carries is Genesis or the hash of a row with a smaller id.
Rooted(b, rows) ==
  \/ b.prev_hash = Genesis
  \/ \E p \in rows : p.id < b.id /\ b.prev_hash = p.batch_hash

Init == chain = {}

\* A row b joins the table; its id is new.
Joins(b) ==
  /\ chain' = chain \cup {b}
  /\ \A r \in chain : r.id # b.id

Graft(b) == Joins(b) /\ Rooted(b, chain)

Extend(b) ==
  /\ Joins(b)
  /\ \A r \in chain : r.id < b.id
  /\ Linked(b, chain')

TreeSpec   == Init /\ [][\E b \in chain' : Graft(b)]_chain
LinearSpec == Init /\ [][\E b \in chain' : Extend(b)]_chain
=============================================================================
