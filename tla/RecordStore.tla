----------------------------- MODULE RecordStore -----------------------------
(***************************************************************************)
(* What StorageAT promises: a table that gives each key one record or      *)
(* none, and each record pages of its own.  A call changes the records it  *)
(* names and no other, in whole records only, and its status says what it  *)
(* achieved.  Power may be lost in the middle of a call.                   *)
(***************************************************************************)
EXTENDS Integers, FiniteSets, Sequences

CONSTANTS
  Keys,       \* the keys of records
  Requests,   \* the calls of clients: [op, key, val, addr, len]
  Idle        \* no call

VARIABLES
  store,     \* the record of each key, or NoRecord
  request,   \* the call in progress, or Idle
  reply      \* its status once it is answered, else "none"

vars == <<store, request, reply>>

Content(v, n) == [j \in 1 .. n |-> [val |-> v, part |-> j]]

NoRecord == [content |-> << >>, pages |-> {}]

Init ==
  /\ store = [k \in Keys |-> NoRecord]
  /\ request = Idle
  /\ reply = "none"

Taken(table, k) == UNION {table[j].pages : j \in Keys \ {k}}

\* The record a save makes: on as many pages as it is long, the first at the
\* address asked for, and none of them a page of another record.
IsSaved(c, table) ==
  LET r == table[c.key]
  IN  /\ r.content = Content(c.val, c.len)
      /\ c.addr \in r.pages
      /\ \A a \in r.pages : c.addr <= a
      /\ Cardinality(r.pages) = c.len
      /\ r.pages \cap Taken(table, c.key) = {}

\* Key k has in a table the record it has now, or none.
Kept(k, table)  == table[k] = store[k]
Gone(k, table)  == table[k] = NoRecord
Others(c)       == Keys \ {c.key}

\* The place of the record of key k is taken by the one being rewritten: the
\* key leads there until the call has completed.
Replaced(c, k, table) ==
  \/ Gone(k, table) /\ c.addr \in store[k].pages
  \/ c.addr \in table[k].pages /\ table[k].content = Content(c.val, c.len)

\* The tables that a step of the call c may lead to.  load and clear name no
\* key and may remove one record.
Allowed(c, table) ==
  \/ /\ c.op = "save"
     /\ Kept(c.key, table) \/ Gone(c.key, table) \/ IsSaved(c, table)
     /\ \A k \in Others(c) : Kept(k, table)
  \/ /\ c.op = "rewrite"
     /\ Kept(c.key, table) \/ Gone(c.key, table) \/ IsSaved(c, table)
     /\ \A k \in Others(c) : Kept(k, table) \/ Replaced(c, k, table)
  \/ /\ c.op = "delete"
     /\ Kept(c.key, table) \/ Gone(c.key, table)
     /\ \A k \in Others(c) : Kept(k, table)
  \/ /\ c.op \in {"load", "clear"}
     /\ \A j, k \in Keys : Kept(j, table) \/ Kept(k, table) \/ j = k
     /\ \A k \in Keys : Kept(k, table) \/ Gone(k, table)
  \/ /\ c.op = "find"
     /\ table = store
  \/ /\ c.op = "format"
     /\ \A k \in Keys : Kept(k, table) \/ Gone(k, table)

\* What the status of a call tells about the table.
Justified(c, status, table) ==
  /\ c.op \in {"save", "rewrite"} /\ status = "OK" => IsSaved(c, table)
  /\ c.op \in {"save", "rewrite"} /\ status = "NOT_FOUND" => Gone(c.key, table)
  /\ c.op = "delete" /\ status = "OK" => Gone(c.key, table)
  /\ c.op = "format" /\ status = "OK" => \A k \in Keys : Gone(k, table)

Begin ==
  /\ request = Idle
  /\ request' \in Requests
  /\ reply' # "none" => Justified(request', reply', store)
  /\ UNCHANGED store

\* The call changes records, is answered, or both.
Step ==
  /\ request # Idle /\ reply = "none"
  /\ Allowed(request, store')
  /\ reply' # "none" => Justified(request, reply', store')
  /\ UNCHANGED request

End ==
  /\ reply # "none"
  /\ request' = Idle /\ reply' = "none"
  /\ UNCHANGED store

\* Power is lost, in the middle of a step of the call if it has one.
Abort ==
  /\ request # Idle
  /\ \/ Allowed(request, store')
     \/ UNCHANGED store
  /\ request' = Idle /\ reply' = "none"

Next == Begin \/ Step \/ End \/ Abort

Spec == Init /\ [][Next]_vars
=============================================================================
