----------------------------- MODULE StoragePage -----------------------------
(***************************************************************************)
(* What the library reads from an image m of the storage: single pages,    *)
(* the chain that links the pages of a record, and the table of contents   *)
(* rebuilt from the pages of a macroblock when no header copy validates.   *)
(* Everything here is a function of the image: nothing is written.         *)
(***************************************************************************)
EXTENDS StorageMacroblock

\* The first element of a set of numbers (none when the set is empty).
Least(S) == {i \in S : \A j \in S : i <= j}

\* Page::load succeeds: the page is inside the storage and validates.
Readable(m, a) == a \in Addr /\ m[a] # Bad

IsStart(m, a) == m[a].prev = a
IsEnd(m, a)   == m[a].next = a

\* Page::load(startPage).
LoadsAsStart(m, a) == Readable(m, a) /\ IsStart(m, a)

\* loadPrev and loadNext follow a link only to a readable page of one key.
Linked(m, a, b) == b # a /\ Readable(m, b) /\ m[b].key = m[a].key

\* The page a walk along prev (next) from page a stops at, when it stops at a
\* start (end) within n hops; None when a link is broken.
StartOfChain(m, a) ==
  LET hop[n \in 0 .. PagesCount, b \in Addr] ==
        IF IsStart(m, b) THEN b
        ELSE IF n = 0 \/ ~Linked(m, b, m[b].prev) THEN None
        ELSE hop[n - 1, m[b].prev]
  IN  IF Readable(m, a) THEN hop[PagesCount, a] ELSE None

EndOfChain(m, a) ==
  LET hop[n \in 0 .. PagesCount, b \in Addr] ==
        IF IsEnd(m, b) THEN b
        ELSE IF n = 0 \/ ~Linked(m, b, m[b].next) THEN None
        ELSE hop[n - 1, m[b].next]
  IN  IF Readable(m, a) THEN hop[PagesCount, a] ELSE None

\* findStartAddress and findEndAddress.  The page a walk ends at is loaded
\* again as a start page, in both of them.
FindStartAddress(m, a) == StartOfChain(m, a)
FindEndAddress(m, a) ==
  LET e == EndOfChain(m, a)
  IN  IF e # None /\ LoadsAsStart(m, e) THEN e ELSE None

\* Header::create, for page a: pages beyond the storage are blocked, pages
\* whose walks succeed are registered, all others are empty.
CreatedUnit(m, a) ==
  IF a \notin Addr THEN BlockedUnit
  ELSE IF /\ Readable(m, a)
          /\ FindStartAddress(m, a) # None
          /\ FindEndAddress(m, FindStartAddress(m, a)) # None
  THEN [key |-> m[a].key, st |-> "OK"]
  ELSE EmptyUnit

CreatedToc(m, mb) == [i \in Index |-> CreatedUnit(m, PageAddress(mb, i))]

\* Header::load: the first copy that validates is the header.
ValidCopies(m, mb) == {i \in Copy : Readable(m, HeaderAddress(mb, i))}
FirstCopy(m, mb)   == Least(ValidCopies(m, mb))

-----------------------------------------------------------------------------
(* Operations on a table of contents.                                      *)

\* Mutant: the identifier is not compared.
ClearedUnitPrefix(u, key) ==
  IF u.key.prefix = key.prefix THEN EmptyUnit ELSE u

\* Mutant: the prefix is not compared.
ClearedUnitId(u, key) == IF u.key.id = key.id THEN EmptyUnit ELSE u

\* deleteData, on the table: whatever the status of a unit of that key was.
ClearedUnit(u, key) == IF u.key = key THEN EmptyUnit ELSE u

\* Mutant: the loop starts one unit late.
ClearedLate(toc, key) ==
  [i \in Index |-> IF i = 0 THEN toc[i] ELSE ClearedUnit(toc[i], key)]
Cleared(toc, key)   == [i \in Index |-> ClearedUnit(toc[i], key)]

\* formatMacroblock, on the table.
FormattedUnit(u) == IF u.st = "BLOCKED" THEN BlockedUnit ELSE EmptyUnit
Formatted(toc)   == [i \in Index |-> FormattedUnit(toc[i])]

\* rewrite registers the page it wrote, and blocks one it could not write.
Registered(toc, i, key) == [toc EXCEPT ![i] = [key |-> key, st |-> "OK"]]
Blocked(toc, i)         == [toc EXCEPT ![i].st = "BLOCKED"]

\* Mutant: every page that is not blocked counts as empty.
EmptyFromTaken(toc, i) == Least({j \in Index : j >= i /\ toc[j].st # "BLOCKED"})

\* The pages a search for an empty page can return from index i on.
EmptyFrom(toc, i) == Least({j \in Index : j >= i /\ toc[j].st = "EMPTY"})
=============================================================================
