-------------------------- MODULE StorageProperties --------------------------
(***************************************************************************)
(* What the library promises about the records of its clients, read off    *)
(* the contents of the drive.                                              *)
(***************************************************************************)
EXTENDS StorageAT

\* The table a search would use for a macroblock of the image m.
Table(m, b) ==
  IF ValidCopies(m, b) = {} THEN CreatedToc(m, b)
  ELSE m[HeaderAddress(b, CHOOSE i \in FirstCopy(m, b) : TRUE)].toc

Searched == 0 .. MacroblocksCount - 1

\* The pages of data a table lists with a status.
Listed(m, status) ==
  {a \in DataAddr : /\ MacroblockIndex(a) \in Searched
                    /\ Table(m, MacroblockIndex(a))[PageIndex(a)].st = status}

ListedKey(m, a) == Table(m, MacroblockIndex(a))[PageIndex(a)].key

\* The addresses at which FIND_MODE_EQUAL may find a key.
FoundAt(m, key) ==
  {a \in Listed(m, "OK") : ListedKey(m, a) = key /\ LoadsAsStart(m, a)}

\* The addresses of a chain, in order; None at its end when it is broken.
Chain(m, a) ==
  LET hop[n \in 0 .. PagesCount] ==
        [b \in Addr |->
           IF IsEnd(m, b) THEN <<b>>
           ELSE IF n = 0 \/ ~Linked(m, b, m[b].next) THEN <<b, None>>
           ELSE <<b>> \o hop[n - 1][m[b].next]]
  IN  hop[PagesCount][a]

ChainPages(m, a) == {Chain(m, a)[j] : j \in DOMAIN Chain(m, a)}
Complete(m, a)   == None \notin ChainPages(m, a)

ContentAt(m, a) ==
  [j \in DOMAIN Chain(m, a) |-> [val  |-> m[Chain(m, a)[j]].val,
                                 part |-> m[Chain(m, a)[j]].part]]

\* The record a client gets for a key: none, or the one in the complete chain
\* that starts where the key is found first.
Stored(m, key) ==
  LET records == {[content |-> ContentAt(m, a), pages |-> ChainPages(m, a)] :
                    a \in {b \in Least(FoundAt(m, key)) : Complete(m, b)}}
  IN  IF records = {} THEN [content |-> << >>, pages |-> {}]
      ELSE CHOOSE r \in records : TRUE

\* The promise of the library, kept by the records its clients can get.
Promise ==
  INSTANCE RecordStore WITH
    Keys     <- ClientKeys,
    Requests <- Call,
    Idle     <- NoCall,
    store    <- [k \in ClientKeys |-> Stored(mem, k)],
    request  <- call,
    reply    <- IF pc = "done" THEN st ELSE "none"

\* Every behaviour of the library, seen through the records it stores, is one
\* of RecordStore.
KeepsPromise == Promise!Spec

Content(v, n)  == Promise!Content(v, n)
Whole(content) == \E v \in Values : content = Content(v, Len(content))

-----------------------------------------------------------------------------

\* Links only lead forward: a page of data, readable, links back to an address
\* not above its own and ahead to one not below it.  The walks of load,
\* findStartAddress and findEndAddress terminate because of it.
ChainsForward ==
  \A a \in DataAddr :
    mem[a] # Bad => mem[a].prev <= a /\ a <= mem[a].next

\* A key is found at one address at most between two calls.
FoundOnce ==
  pc = "idle" => \A key \in ClientKeys : Cardinality(FoundAt(mem, key)) <= 1

\* save and rewrite that return STORAGE_OK have stored the record, at the
\* address they were given.
SaveStores ==
  pc = "done" /\ call.op \in {"save", "rewrite"} /\ st = "OK" =>
    /\ Stored(mem, call.key).content = Content(call.val, call.len)
    /\ FoundAt(mem, call.key) = {call.addr}

\* deleteData that returns STORAGE_OK leaves no record of the key.
DeleteRemoves ==
  pc = "done" /\ call.op = "delete" /\ st = "OK" => FoundAt(mem, call.key) = {}

\* The tables list all the pages of a record that is complete, under its key,
\* in whatever macroblock they are, so that no other record is given one.
TablesCoverRecords ==
  pc = "idle" =>
    \A key \in ClientKeys : \A a \in FoundAt(mem, key) :
      Complete(mem, a) =>
        \A b \in ChainPages(mem, a) :
          b \in Listed(mem, "OK") /\ ListedKey(mem, b) = key

\* save and deleteData, the deletes that undo a failed save included, leave the
\* records of all other keys as they are at every step.
OthersUntouched ==
  [][call.op \in {"save", "delete"} /\ mem' # mem =>
       \A key \in ClientKeys \ {call.key} :
         Stored(mem', key) = Stored(mem, key)]_vars

\* rewrite writes a page only after it has erased it in the same call: the loop
\* that erases and the loop that writes choose the same pages.
WritesErased == pc = "w_page" => mem[w.cur] = Bad

\* The array of addresses to erase holds one sector of pages.
BatchFits == Len(w.batch) <= SectorPages

-----------------------------------------------------------------------------

\* The keys that find looks at, among those that are found at all.
Matching(prefix) ==
  {k \in UserKey : /\ FoundAt(mem, k) # {}
                   /\ prefix = Blank \/ k.prefix = prefix}

Smallest(S) == {k \in S : \A j \in S : k.id <= j.id}
Largest(S)  == {k \in S : \A j \in S : k.id >= j.id}

\* The keys that each mode searches for: the one of that id, of the next id, of
\* the smallest and of the largest.
Searches(mode, key) ==
  LET M == Matching(key.prefix)
  IN  CASE mode = "EQUAL" -> {k \in M : k.id = key.id}
        [] mode = "NEXT"  -> Smallest({k \in M : k.id > key.id})
        [] mode = "MIN"   -> Smallest(M)
        [] mode = "MAX"   -> Largest(M)

\* The keys that it gets: prevId starts at an id that no result can have then,
\* the largest one for NEXT and MIN and 0 for MAX.
Answers(mode, key) ==
  {k \in Searches(mode, key) : mode = "EQUAL" \/ k.id # StartCmpId(mode)}

\* find answers with an address at which the right key is found, and with
\* STORAGE_NOT_FOUND when there is none, for all ids but the one that the
\* search starts with: when the id that NEXT, MIN or MAX searches for is that
\* one, it answers STORAGE_NOT_FOUND (see FindsEveryId).
FindInBounds ==
  pc = "done" /\ call.op = "find" /\ call.mode # "EMPTY" =>
    LET answers == Answers(call.mode, call.key)
    IN  IF answers = {} THEN st = "NOT_FOUND"
        ELSE st = "OK" /\ \E k \in answers : s.found \in FoundAt(mem, k)

\* find for an empty page answers with the first page that no table lists as
\* taken or blocked, and never with a page of a record.
FindEmptyExact ==
  pc = "done" /\ call.op = "find" /\ call.mode = "EMPTY" =>
    IF Listed(mem, "EMPTY") = {} THEN st = "NOT_FOUND"
    ELSE /\ st = "OK" /\ s.found \in Least(Listed(mem, "EMPTY"))
         /\ \A key \in ClientKeys : s.found \notin Stored(mem, key).pages

\* load of a record that is found gives the first parts of one save.
LoadWhole ==
  pc = "done" /\ call.op = "load" /\ st = "OK" =>
    \A key \in ClientKeys :
      call.addr \in FoundAt(mem, key) =>
        /\ Whole([j \in DOMAIN l.got |-> [val  |-> l.got[j].val,
                                         part |-> l.got[j].part]])
        /\ \A j \in DOMAIN l.got : l.got[j].key = key

\* Every call returns.
CallReturns == pc # "idle" ~> pc = "idle"

-----------------------------------------------------------------------------
(* How far a call is from its end.                                         *)

\* The point that a header is loaded or saved for, and the point that waits for
\* the search or the delete in progress.
Waiting == IF pc \in HeaderPoint THEN h.back ELSE pc
Caller  == IF Waiting \in SearchPoint THEN s.back
           ELSE IF Waiting \in DeletePoint THEN d.back
           ELSE Waiting

WriteLoop == {"w_next", "w_found", "w_switch", "w_reload", "w_page"}

\* The stages of a call, counted from its end.
Stage ==
  CASE pc = "idle"                        -> 0
    [] Caller = "v_start"                 -> 14
    [] Caller = "v_check"                 -> 13
    [] Caller = "w_start"                 -> 12
    [] Caller = "w_deleted"               -> 11
    [] Caller = "w_header"                -> 10
    [] Caller \in {"w_target", "w_erase"} -> 9
    [] Caller = "w_rest"                  -> 8
    [] Caller \in WriteLoop               -> 7
    [] Caller = "w_end"                   -> 6
    [] Caller = "v_saved"                 -> 5
    [] Caller \in {"v_undone", "l_start"} -> 4
    [] Caller \in {"l_copy", "c_start"}   -> 3
    [] Caller \in {"l_deleted", "c_load"} \cup FormatPoint -> 2
    [] OTHER                              -> 1

\* The rounds that its loop has left: pages to erase, addresses for the pages to
\* write, addresses ahead of the page that was loaded, macroblocks to format.
Rounds ==
  CASE Caller \in {"w_target", "w_erase"} -> call.len - w.erased
    [] Caller \in WriteLoop -> IF w.cur < PagesCount THEN PagesCount - w.cur ELSE 0
    [] Caller = "l_copy"                  -> PagesCount - l.at
    [] Caller \in FormatPoint             -> PagesCount - fmt
    [] OTHER                              -> 0

\* The points that are left of a round.
RoundPlace ==
  CASE Caller = "w_next"                   -> 4
    [] Caller \in {"w_found", "m_block"}   -> 3
    [] Caller \in {"w_switch", "m_header"} -> 2
    [] Caller \in {"w_reload", "m_saved", "w_target"} -> 1
    [] OTHER                               -> 0

\* The macroblocks that a search or a delete has left, the points of the one it
\* is at, and the pages of its table; the copies of a header that are left.
Blocks ==
  CASE Waiting \in SearchPoint -> PagesCount - s.mb + 1
    [] Waiting \in DeletePoint -> PagesCount - d.mb + 1
    [] OTHER                   -> 0

BlockPlace ==
  CASE Waiting \in {"s_block", "d_block"}   -> 3
    [] Waiting \in {"s_header", "d_header"} -> 2
    [] Waiting \in {"s_unit", "d_saved"}    -> 1
    [] OTHER                                -> 0

Units  == IF pc = "s_unit" THEN DataPages - s.i ELSE 0

Copies ==
  CASE pc = "h_load" -> Reserved + 1
    [] pc = "h_save" -> Reserved - h.copy
    [] OTHER         -> 0

Left == <<Stage, Rounds, RoundPlace, Blocks, BlockPlace, Units, Copies>>

\* The lexicographic order.
Nearer(x, y) ==
  \E j \in DOMAIN x : x[j] < y[j] /\ \A i \in 1 .. j - 1 : x[i] = y[i]

\* Every step of a call brings it nearer to its end, but for what the drive does
\* by itself: no loop of the library goes round without an end, whatever links
\* and tables it reads and whatever the drive answers.
CallsAdvance ==
  [][pc # "idle" =>
       \E before \in {Left}, after \in {Left'} :
         Nearer(after, before) \/ (Drive /\ after = before)]_vars
=============================================================================
