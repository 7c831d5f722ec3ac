---------------------------- MODULE StorageResize ----------------------------
(***************************************************************************)
(* setPagesCount: the library is told, between two calls, that the storage *)
(* has another size.  PagesCount is what the drive holds; the library uses *)
(* all of it, or its first SmallCount pages.  The drive keeps everything.  *)
(***************************************************************************)
EXTENDS StorageProperties

CONSTANT SmallCount   \* the smaller size

ASSUME SmallAssumption == SmallCount \in 1 .. PagesCount

VARIABLE size   \* m_pagesCount

\* The library, and what it reads off the drive, at the smaller size.
Small == INSTANCE StorageProperties WITH PagesCount <- SmallCount

ResizeInit == Init /\ size = PagesCount

SetPagesCount(n) ==
  /\ pc = "idle"
  /\ size' = n
  /\ UNCHANGED vars

ResizeNext ==
  \/ size = PagesCount /\ Next /\ UNCHANGED size
  \/ size = SmallCount /\ Small!Next /\ UNCHANGED size
  \/ \E n \in {SmallCount, PagesCount} \ {size} : SetPagesCount(n)

ResizeSpec == ResizeInit /\ [][ResizeNext]_<<vars, size>>

\* Mutant: a macroblock that is not whole has no pages of data.
PayloadPagesWhole(pages) == (pages \div PerBlock) * DataPages

\* getPayloadPagesCount, at a size.
PayloadPages(pages) ==
  LET rest == pages % PerBlock
  IN  (pages \div PerBlock) * DataPages
        + IF rest > Reserved THEN rest - Reserved ELSE 0

-----------------------------------------------------------------------------

\* save and deleteData, at either size, leave the records of other keys as
\* they are at both: those beyond the smaller size and those of the pages
\* after its last whole macroblock included.
ResizeKeepsOthers ==
  [][call.op \in {"save", "delete"} /\ mem' # mem =>
       \A key \in ClientKeys \ {call.key} :
         /\ Stored(mem', key) = Stored(mem, key)
         /\ Small!Stored(mem', key) = Small!Stored(mem, key)]_<<vars, size>>

\* The addresses that find may answer with at the size in use: those in its
\* whole macroblocks.
FoundInUse(key) ==
  IF size = PagesCount THEN FoundAt(mem, key) ELSE Small!FoundAt(mem, key)

\* A record saved at either size is complete at its address, and listed there
\* under its key for the whole storage, even if the smaller one has no
\* macroblock for it.  If the size in use has one, and the drive was never busy,
\* the record is found there and nowhere else at that size.  An older record of
\* the key in the pages after the last whole macroblock is left where it is:
\* the delete does not come there, and the whole storage finds both.
ResizeStores ==
  pc = "done" /\ call.op = "save" /\ st = "OK" =>
    /\ call.addr \in FoundAt(mem, call.key)
    /\ Complete(mem, call.addr)
    /\ ContentAt(mem, call.addr) = Content(call.val, call.len)
    /\ MacroblockIndex(call.addr) < size \div PerBlock /\ spent.busy = 0 =>
         FoundInUse(call.key) = {call.addr}

\* getPayloadPagesCount is the number of pages that a record can be saved to at
\* the size in use: those after the last whole macroblock, which no search
\* looks at, included.
PayloadExact ==
  PayloadPages(size) = Cardinality({a \in 0 .. size - 1 : ~IsMacroblockAddress(a)})
=============================================================================
