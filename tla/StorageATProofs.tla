--------------------------- MODULE StorageATProofs ---------------------------
(***************************************************************************)
(* For every geometry, every bound and every client, on a drive that may   *)
(* be busy, worn, decaying or lose power: the state of the library stays   *)
(* well typed, the links of every record lead forward, the loops of the    *)
(* library stay inside the storage, its searches never go back, and no     *)
(* call goes on without an end.                                            *)
(*                                                                         *)
(* The first four make up the inductive invariant IInv.  The links of data *)
(* lead forward because rewrite takes the pages of a record from searches  *)
(* that start after the page it is at; that a search finds a page not      *)
(* before the one it started at is the arithmetic of macroblocks, and that *)
(* the page is in the storage at all is the bounds of the loops.           *)
(*                                                                         *)
(* Of the arithmetic: an address and its macroblock and index determine    *)
(* each other, headers and data never share a page, and a search only      *)
(* finds pages ahead of it.                                                *)
(*                                                                         *)
(* The array in which rewrite collects the pages of one sector to erase    *)
(* has no check of its own.  It does not overflow because of the order of  *)
(* its pages: each comes from a search that starts after the last one, so  *)
(* that within a sector they are all different.                            *)
(*                                                                         *)
(* No call goes on without an end.  Left counts what a call has left, in   *)
(* seven numbers: every step of a call makes the first one that changes    *)
(* smaller.  For rewrite that is because it goes on to a later page, which *)
(* its search found, whether it wrote the page it was at or blocked it;    *)
(* for load because the links of pages of data lead ahead and to pages of  *)
(* data only (LinksToData), so that its walk does not come back either.    *)
(***************************************************************************)
EXTENDS StorageInvariants, TLAPS, WellFoundedInduction

-----------------------------------------------------------------------------
(* What makes the bounds of the array of pages to erase inductive.         *)

\* The pages in the array of addresses to erase go up and lie in the sector of
\* the last one, so they are no more than the pages of that sector up to it.
\* The search for the next one starts after the last one.
BatchInSector ==
  /\ Len(w.batch) <= (w.erase % SectorPages) + 1
  /\ s.back = "w_target" => s.from = w.erase + 1
  /\ pc = "w_target" => s.back = "w_target"

-----------------------------------------------------------------------------
(* The address arithmetic of StorageMacroblock.                            *)

\* What the assumptions on the geometry say of the sets of addresses.
LEMMA Geometry ==
  /\ PagesCount \in Nat /\ PerBlock \in Nat /\ Reserved \in Nat
  /\ 0 < Reserved /\ Reserved < PerBlock /\ PerBlock <= PagesCount
  /\ 0 \in Addr /\ 0 \in Index /\ 0 \in Copy
  /\ DataPages \in Nat /\ 0 < DataPages
BY GeometryAssumption DEF Addr, Index, Copy, DataPages

\* Division with remainder, by a variable divisor.
LEMMA DivMod ==
  ASSUME NEW a \in Nat, NEW b \in Nat, 0 < b
  PROVE  /\ a \div b \in Nat /\ a % b \in Nat
         /\ a % b < b
         /\ a = b * (a \div b) + (a % b)
OBVIOUS

\* Division by the size of a macroblock keeps the order.
LEMMA DivMonotone ==
  ASSUME NEW a \in Nat, NEW c \in Nat, NEW b \in Nat, 0 < b, a <= c
  PROVE  a \div b <= c \div b
BY DivMod

\* The quotient and the remainder are those of the only such decomposition.
LEMMA DivUnique ==
  ASSUME NEW q \in Nat, NEW r \in Nat, NEW b \in Nat, r < b
  PROVE  (q * b + r) \div b = q /\ (q * b + r) % b = r
BY DivMod

\* Multiplication keeps the order.
LEMMA ProductMonotone ==
  ASSUME NEW a \in Nat, NEW c \in Nat, NEW b \in Nat, a <= c
  PROVE  a * b \in Nat /\ a * b <= c * b
OBVIOUS

\* getMacroblockIndex of an address of the storage, and the macroblocks that
\* the loops of the library run through, are macroblocks of the storage.
LEMMA MacroblockInRange ==
  /\ \A a \in Addr : MacroblockIndex(a) \in Macroblock
  /\ \A mb \in Nat : mb < MacroblocksCount => mb \in Macroblock
  /\ 0 \in Macroblock
  /\ MacroblocksCount \in Nat /\ MacroblocksCount <= PagesCount
<1> USE Geometry
<1> DEFINE last == PagesCount - 1
<1>1. last \in Nat /\ last \div PerBlock \in Nat
  BY DivMod
<1>2. ASSUME NEW a \in Addr
      PROVE  MacroblockIndex(a) \in Macroblock
  <2>1. a \in Nat /\ a <= last
    BY DEF Addr
  <2>2. a \div PerBlock \in Nat /\ a \div PerBlock <= last \div PerBlock
    BY <1>1, <2>1, DivMod, DivMonotone
  <2> QED
    BY <1>1, <2>2 DEF Macroblock, MacroblockIndex
<1>3. ASSUME NEW mb \in Nat, mb < MacroblocksCount
      PROVE  mb \in Macroblock
  <2>1. /\ PagesCount \div PerBlock \in Nat
        /\ PagesCount = PerBlock * (PagesCount \div PerBlock)
                          + (PagesCount % PerBlock)
        /\ PagesCount % PerBlock \in Nat
    BY DivMod
  <2>2. last = PerBlock * (last \div PerBlock) + (last % PerBlock)
        /\ last % PerBlock \in Nat /\ last % PerBlock < PerBlock
    BY <1>1, DivMod
  <2>3. mb + 1 <= PagesCount \div PerBlock
    BY <1>3, <2>1 DEF MacroblocksCount
  <2>4. mb <= last \div PerBlock
    <3>1. (mb + 1) * PerBlock <= PagesCount
      BY <2>1, <2>3, ProductMonotone
    <3>2. last < (last \div PerBlock + 1) * PerBlock
      BY <1>1, <2>2
    <3>3. SUFFICES ASSUME last \div PerBlock + 1 <= mb PROVE FALSE
      BY <1>1
    <3>4. (last \div PerBlock + 1) * PerBlock <= mb * PerBlock
      BY <1>1, <3>3, ProductMonotone
    <3> QED
      BY <1>1, <3>1, <3>2, <3>4
  <2> QED
    BY <1>1, <2>4 DEF Macroblock, MacroblockIndex
<1>4. MacroblocksCount \in Nat /\ MacroblocksCount <= PagesCount
  BY DivMod DEF MacroblocksCount
<1>5. 0 \in Macroblock
  BY <1>2, <1>1 DEF Macroblock, MacroblockIndex
<1> QED
  BY <1>2, <1>3, <1>4, <1>5

\* getPageIndexByAddress is an index of the table, whatever the address.
LEMMA PageIndexInRange ==
  ASSUME NEW a \in Nat
  PROVE  PageIndex(a) \in Index
<1>1. a % PerBlock \in Nat /\ a % PerBlock < PerBlock
  BY Geometry, DivMod
<1> QED
  BY <1>1, Geometry DEF PageIndex, IsMacroblockAddress, Index, DataPages

\* A copy of a header never lies on a page of data.
LEMMA HeaderIsNotData ==
  ASSUME NEW mb \in Nat, NEW i \in Copy
  PROVE  HeaderAddress(mb, i) \notin DataAddr
<1>1. i \in Nat /\ i < Reserved
  BY Geometry DEF Copy
<1>2. (mb * PerBlock + i) % PerBlock = i
  BY <1>1, Geometry, DivUnique
<1> QED
  BY <1>1, <1>2 DEF HeaderAddress, MacroblockAddress, DataAddr,
                    IsMacroblockAddress

\* getPageAddressByIndex gives the page of data with that macroblock and index.
THEOREM AddressRoundTrip ==
  ASSUME NEW mb \in Nat, mb < MacroblocksCount, NEW i \in Index
  PROVE  /\ PageAddress(mb, i) \in DataAddr
         /\ MacroblockIndex(PageAddress(mb, i)) = mb
         /\ PageIndex(PageAddress(mb, i)) = i
<1> DEFINE r == Reserved + i
<1>1. i \in Nat /\ r \in Nat /\ Reserved <= r /\ r < PerBlock
  BY Geometry DEF Index, DataPages
<1>2. PageAddress(mb, i) = mb * PerBlock + r /\ mb * PerBlock \in Nat
  BY <1>1, Geometry DEF PageAddress, MacroblockAddress
<1>3. /\ (mb * PerBlock + r) \div PerBlock = mb
      /\ (mb * PerBlock + r) % PerBlock = r
  BY <1>1, Geometry, DivUnique
<1>4. mb * PerBlock + r < PagesCount
  <2>1. mb + 1 <= PagesCount \div PerBlock /\ PagesCount \div PerBlock \in Nat
    BY Geometry, DivMod DEF MacroblocksCount
  <2>2. (mb + 1) * PerBlock <= (PagesCount \div PerBlock) * PerBlock
    BY <2>1, Geometry, ProductMonotone
  <2>3. (PagesCount \div PerBlock) * PerBlock <= PagesCount
    BY <2>1, Geometry, DivMod
  <2>4. (mb + 1) * PerBlock = mb * PerBlock + PerBlock
    BY Geometry
  <2> QED
    BY <1>1, <1>2, <2>1, <2>2, <2>3, <2>4, Geometry
<1> QED
  BY <1>1, <1>2, <1>3, <1>4, Geometry
  DEF DataAddr, Addr, IsMacroblockAddress, MacroblockIndex, PageIndex

\* A search that starts at an address, in its macroblock or a later one and at
\* its index or a later one, finds no page behind that address.
LEMMA SearchAhead ==
  ASSUME NEW from \in Nat, NEW mb \in Nat, NEW i \in Index,
         MacroblockIndex(from) <= mb, PageIndex(from) <= i
  PROVE  from <= PageAddress(mb, i)
<1> DEFINE q == from \div PerBlock
           r == from % PerBlock
<1>1. /\ q \in Nat /\ r \in Nat /\ r < PerBlock
      /\ from = q * PerBlock + r
  BY Geometry, DivMod
<1>2. i \in Nat
  BY Geometry DEF Index
<1>3. q <= mb
  BY DEF MacroblockIndex
<1>4. PageAddress(mb, i) = mb * PerBlock + (Reserved + i)
  BY <1>2, Geometry DEF PageAddress, MacroblockAddress
<1>5. q * PerBlock \in Nat /\ q * PerBlock <= mb * PerBlock
  BY <1>1, <1>3, Geometry, ProductMonotone
<1>6. r <= Reserved + i
  BY <1>1, <1>2, Geometry DEF PageIndex, IsMacroblockAddress
<1> QED
  <2>1. mb * PerBlock \in Nat
    BY Geometry
  <2> HIDE DEF q, r
  <2> QED
    BY <1>1, <1>2, <1>4, <1>5, <1>6, <2>1, Geometry

-----------------------------------------------------------------------------
(* The types of the values the model is built from.                        *)

\* The constant keys, units and tables are of their types.
LEMMA ConstantTypes ==
  /\ NoKey \in Key
  /\ EmptyUnit \in Unit /\ BlockedUnit \in Unit /\ EmptyToc \in Toc
  /\ UserKey \subseteq Key
BY DataAssumption DEF NoKey, Key, EmptyUnit, BlockedUnit, Unit, EmptyToc, Toc,
  UserKey

\* The page of a header is a page.
LEMMA HeaderPageType ==
  ASSUME NEW toc \in Toc
  PROVE  HeaderPage(toc) \in Page
BY DataAssumption, ConstantTypes DEF HeaderPage, Page

\* A page of data is a page, with the links it is given.
LEMMA DataPageType ==
  ASSUME NEW key \in Key, NEW prev \in Nat, NEW next \in Nat,
         NEW val \in Values \cup {Junk}, NEW part \in 0 .. MaxLen
  PROVE  /\ DataPage(key, prev, next, val, part) \in Page
         /\ DataPage(key, prev, next, val, part).prev = prev
         /\ DataPage(key, prev, next, val, part).next = next
BY MisreadAssumption DEF DataPage, Page

\* The operations on a table of contents give a table of contents.
LEMMA TocTypes ==
  ASSUME NEW toc \in Toc, NEW key \in Key, NEW i \in Index
  PROVE  /\ Cleared(toc, key) \in Toc
         /\ Formatted(toc) \in Toc
         /\ Registered(toc, i, key) \in Toc
         /\ Blocked(toc, i) \in Toc
BY ConstantTypes DEF Cleared, ClearedUnit, Formatted, FormattedUnit,
  Registered, Blocked, Toc, Unit

\* A table rebuilt from the pages of a macroblock is a table.
LEMMA CreatedTocType ==
  ASSUME NEW m \in Image, NEW mb
  PROVE  CreatedToc(m, mb) \in Toc
<1>1. ASSUME NEW a
      PROVE  CreatedUnit(m, a) \in Unit
  <2>1. CASE a \notin Addr
    BY <2>1, ConstantTypes DEF CreatedUnit
  <2>2. CASE a \in Addr /\ Readable(m, a)
    <3>1. m[a].key \in Key
      BY <2>2 DEF Readable, Image, Page
    <3> QED
      BY <2>2, <3>1, ConstantTypes DEF CreatedUnit, Unit
  <2>3. CASE a \in Addr /\ ~Readable(m, a)
    BY <2>3, ConstantTypes DEF CreatedUnit
  <2> QED
    BY <2>1, <2>2, <2>3
<1> QED
  BY <1>1 DEF CreatedToc, Toc

\* The frames of a library that is not in a call.
LEMMA FrameTypes ==
  /\ NoHeader \in HeaderFrame /\ NoSearch \in SearchFrame
  /\ NoDelete \in DeleteFrame /\ NoRewrite \in RewriteFrame
  /\ NoLoad \in LoadFrame /\ NoCall \in Call
<1> USE DataAssumption, Geometry, ConstantTypes, MacroblockInRange
<1>1. HeaderPage(EmptyToc) \in Page
  BY HeaderPageType
<1>2. NoHeader \in HeaderFrame
  BY <1>1 DEF NoHeader, HeaderFrame, HeaderReturn
<1>3. NoSearch \in SearchFrame
  BY DEF NoSearch, SearchFrame, SearchMode, SearchReturn
<1>4. NoDelete \in DeleteFrame
  BY DEF NoDelete, DeleteFrame, DeleteReturn, Status
<1>5. NoRewrite \in RewriteFrame
  BY <1>1 DEF NoRewrite, RewriteFrame, Status
<1>6. NoLoad \in LoadFrame
  BY <1>1 DEF NoLoad, LoadFrame
<1>7. NoCall \in Call
  BY DEF NoCall, Call, SearchMode
<1> QED
  BY <1>2, <1>3, <1>4, <1>5, <1>6, <1>7

-----------------------------------------------------------------------------
(* Writing and erasing pages.                                              *)

\* Saving a page keeps the drive well typed, and keeps links forward when it
\* is no page of data or its links lead forward.
LEMMA SavePageStep ==
  ASSUME DeviceType, ChainsForward,
         NEW a, NEW pg \in Page, NEW status, SavePage(a, pg, status),
         a \in DataAddr => pg.prev <= a /\ a <= pg.next
  PROVE  DeviceType' /\ ChainsForward'
<1>1. PICK q \in Page \cup {Bad} :
        /\ q \in {pg, Bad} \/ (a \in Addr /\ q = mem[a])
        /\ mem' = mem \/ mem' = [mem EXCEPT ![a] = q]
  BY DEF SavePage, device, DeviceType, Image
<1>2. mem' \in Image
  BY <1>1 DEF DeviceType, Image
<1>3. busy' \in BOOLEAN /\ worn' = worn
  BY DEF SavePage, device, DeviceType
<1>4. spent' \in [busy : Nat, decay : Nat, crash : Nat]
  BY DEF SavePage, device, DeviceType
<1>5. ChainsForward'
  BY <1>1 DEF ChainsForward, DeviceType, Image, DataAddr
<1> QED
  BY <1>2, <1>3, <1>4, <1>5 DEF DeviceType

\* Erasing pages, all of a set or some, leaves links forward.
LEMMA ErasedForward ==
  ASSUME DeviceType, ChainsForward, NEW S, mem' = Erased(mem, S)
  PROVE  mem' \in Image /\ ChainsForward'
BY DEF DeviceType, Image, Erased, ChainsForward, DataAddr

\* Erasing pages keeps the drive well typed and links forward.
LEMMA ErasePagesStep ==
  ASSUME DeviceType, ChainsForward,
         NEW S, NEW status, ErasePages(S, status)
  PROVE  DeviceType' /\ ChainsForward'
<1>1. CASE mem' = mem
  BY <1>1 DEF ErasePages, device, DeviceType, ChainsForward
<1>2. CASE \E T : mem' = Erased(mem, T)
  BY <1>2, ErasedForward DEF ErasePages, device, DeviceType
<1> QED
  BY <1>1, <1>2 DEF ErasePages, device

-----------------------------------------------------------------------------
(* The inductive invariant, and what each step does to it.                 *)

IInv == TypeOK /\ LoopsBounded /\ SearchForward /\ ChainsForward

\* A library on a drive that is all erased satisfies the invariant.
LEMMA InitIInv == Init => IInv
<1> SUFFICES ASSUME Init PROVE IInv
  OBVIOUS
<1> USE Geometry, FrameTypes
<1>1. TypeOK
  <2>1. DeviceType
    BY DEF Init, DeviceInit, DeviceType, Image
  <2>2. HeaderType /\ SearchType /\ DataType
    BY DEF Init, HeaderInit, HeaderType, Point, Status, SearchType, DataType
  <2> QED
    BY <2>1, <2>2 DEF TypeOK, Init
<1>2. LoopsBounded
  BY DEF Init, HeaderInit, LoopsBounded, At, Within, HeaderPoint, SearchPoint
<1>3. SearchForward
  <2>1. MacroblockIndex(0) = 0
    BY DEF MacroblockIndex
  <2> QED
    BY <2>1 DEF Init, HeaderInit, SearchForward, At, Within, HeaderPoint,
      SearchPoint, NoSearch, NoRewrite
<1>4. ChainsForward
  BY DEF Init, DeviceInit, ChainsForward, DataAddr
<1> QED
  BY <1>1, <1>2, <1>3, <1>4 DEF IInv

\* Loading a header, or creating it, preserves the invariant.
LEMMA HeaderLoadStep ==
  ASSUME IInv, HeaderLoad, UNCHANGED <<s, call, d, w, l, fmt>>
  PROVE  IInv'
<1> USE DEF IInv, TypeOK
<1>1. DeviceType' /\ ChainsForward'
  BY DEF HeaderLoad, device, DeviceType, ChainsForward
<1>2. HeaderType'
  <2> USE DEF Goto, Return, HeaderType, HeaderFrame,
      Point, HeaderPoint, SearchPoint, DeletePoint, RewritePoint,
      DataPoint, FormatPoint, HeaderReturn, SearchReturn, DeleteReturn, Status
  <2>1. CASE \E i \in FirstCopy(mem, h.mb) :
               h' = [h EXCEPT !.page = mem[HeaderAddress(h.mb, i)]]
    <3>1. PICK i \in FirstCopy(mem, h.mb) :
            h' = [h EXCEPT !.page = mem[HeaderAddress(h.mb, i)]]
      BY <2>1
    <3>2. mem[HeaderAddress(h.mb, i)] \in Page
      BY <3>1 DEF DeviceType, Image, FirstCopy, Least, ValidCopies, Readable
    <3> QED
      BY <3>1, <3>2 DEF HeaderLoad
  <2>2. CASE h' = [h EXCEPT !.page = HeaderPage(CreatedToc(mem, h.mb)),
                            !.created = TRUE]
    <3>1. HeaderPage(CreatedToc(mem, h.mb)) \in Page
      BY CreatedTocType, HeaderPageType DEF DeviceType
    <3> QED
      BY <2>2, <3>1 DEF HeaderLoad
  <2> QED
    BY <2>1, <2>2 DEF HeaderLoad
<1>3. LoopsBounded' /\ SearchForward'
  BY DEF HeaderLoad, HeaderType, HeaderFrame, LoopsBounded, SearchForward, At,
    Within, Goto, Return, Point, HeaderPoint, SearchPoint, DeletePoint,
    RewritePoint, DataPoint, FormatPoint, HeaderReturn, SearchReturn,
    DeleteReturn, Status
<1> QED
  BY <1>1, <1>2, <1>3 DEF SearchType, DataType

\* Saving a copy of a header does: no copy lies at a page of data.
LEMMA HeaderSaveStep ==
  ASSUME IInv, HeaderSave, UNCHANGED <<s, call, d, w, l, fmt>>
  PROVE  IInv'
<1> USE DEF IInv, TypeOK
<1>1. PICK status \in {"OK", "BUSY", "ERROR"} :
        /\ SavePage(HeaderAddress(h.mb, h.copy), h.page, status)
        /\ \/ Return(status, h.back) /\ UNCHANGED h
           \/ /\ h.copy + 1 \in Copy
              /\ h' = [h EXCEPT !.copy = @ + 1]
              /\ UNCHANGED control
           \/ Return(AllCopiesFailed, h.back) /\ UNCHANGED h
  BY DEF HeaderSave
<1>2. DeviceType' /\ ChainsForward'
  <2>1. HeaderAddress(h.mb, h.copy) \notin DataAddr /\ h.page \in Page
    BY HeaderIsNotData DEF HeaderType, HeaderFrame, Macroblock
  <2> QED
    BY <1>1, <2>1, SavePageStep
<1>3. HeaderType'
  BY <1>1 DEF HeaderSave, AllCopiesFailed, control, Return, HeaderType,
      HeaderFrame, Point, HeaderPoint, SearchPoint, DeletePoint, RewritePoint,
      DataPoint, FormatPoint, HeaderReturn, SearchReturn, DeleteReturn, Status
<1>4. LoopsBounded' /\ SearchForward'
  BY <1>1 DEF HeaderSave, AllCopiesFailed, control, HeaderType, HeaderFrame,
      LoopsBounded, SearchForward, At, Within, Goto, Return,
      Point, HeaderPoint, SearchPoint, DeletePoint, RewritePoint,
      DataPoint, FormatPoint, HeaderReturn, SearchReturn, DeleteReturn, Status
<1> QED
  BY <1>1, <1>2, <1>3, <1>4 DEF SearchType, DataType

\* The loop of a search over macroblocks does.
LEMMA SearchBlockStep ==
  ASSUME IInv, SearchBlock, UNCHANGED <<call, d, w, l, fmt>>
  PROVE  IInv'
<1> USE DEF IInv, TypeOK
<1>1. DeviceType' /\ ChainsForward'
  BY DEF SearchBlock, device, DeviceType, ChainsForward
<1>2. HeaderType'
  <2>1. CASE s.mb < MacroblocksCount /\ LoadHeader(s.mb, "s_header")
    <3>1. s.mb \in Macroblock
      BY <2>1, MacroblockInRange DEF SearchType, SearchFrame
    <3> QED
      BY <2>1, <3>1, FrameTypes DEF LoadHeader, HeaderType, HeaderFrame,
        Point, HeaderPoint, SearchPoint, DeletePoint, RewritePoint, DataPoint,
        FormatPoint, HeaderReturn, SearchReturn, DeleteReturn, Status
  <2> QED
    BY <2>1 DEF SearchBlock, Return, HeaderType, SearchType, SearchFrame,
      Point, HeaderPoint, SearchPoint, DeletePoint, RewritePoint,
      DataPoint, FormatPoint, HeaderReturn, SearchReturn, DeleteReturn, Status
<1>3. LoopsBounded' /\ SearchForward'
  BY DEF SearchBlock, LoadHeader, NoHeader, SearchType, SearchFrame,
      LoopsBounded, SearchForward, At, Within, Goto, Return,
      Point, HeaderPoint, SearchPoint, DeletePoint, RewritePoint,
      DataPoint, FormatPoint, HeaderReturn, SearchReturn, DeleteReturn, Status
<1> QED
  BY <1>1, <1>2, <1>3 DEF SearchBlock, SearchType, DataType

\* A search for an empty page finds one not before its start.
LEMMA SearchHeaderStep ==
  ASSUME IInv, SearchHeader, UNCHANGED <<call, d, w, l, fmt>>
  PROVE  IInv'
<1> USE DEF IInv, TypeOK
<1>1. s \in SearchFrame /\ s.mb \in Nat /\ s.mb < MacroblocksCount /\ s.from \in Nat
  BY DEF SearchHeader, SearchType, SearchFrame, LoopsBounded, At
<1>2. \A i \in EmptyFrom(h.page.toc, ScanFrom) :
        /\ PageAddress(s.mb, i) \in Addr
        /\ s.from <= PageAddress(s.mb, i)
  <2>1. TAKE i \in EmptyFrom(h.page.toc, ScanFrom)
  <2>2. i \in Index /\ PageIndex(s.from) <= i
    BY DEF EmptyFrom, Least, ScanFrom
  <2> QED
    BY <1>1, <2>2, AddressRoundTrip, SearchAhead DEF SearchForward, DataAddr
<1>3. DeviceType' /\ ChainsForward'
  BY DEF SearchHeader, device, DeviceType, ChainsForward
<1>4. HeaderType'
  BY DEF SearchHeader, Goto, Return, control, HeaderType, SearchType,
    SearchFrame, Point, HeaderPoint, SearchPoint, DeletePoint, RewritePoint,
    DataPoint, FormatPoint, HeaderReturn, SearchReturn, DeleteReturn, Status
<1>5. SearchType'
  <2>1. PageIndex(s.from) \in 0 .. DataPages
    BY <1>1, PageIndexInRange, Geometry DEF Index
  <2>2. s.mb + 1 \in 0 .. PagesCount
    BY <1>1, MacroblockInRange, Geometry
  <2> QED
    BY <1>1, <1>2, <2>1, <2>2 DEF SearchHeader, ScanFrom, SearchType,
      SearchFrame
<1>6. LoopsBounded'
  BY <1>1, <1>2, NoneAssumption DEF SearchHeader, SearchType, SearchFrame,
      Addr, LoopsBounded, At, Within, Goto, Return,
      Point, HeaderPoint, SearchPoint, DeletePoint, RewritePoint,
      DataPoint, FormatPoint, HeaderReturn, SearchReturn, DeleteReturn, Status
<1>7. SearchForward'
  <2>1. MacroblockIndex(s.from) \in Nat /\ PageIndex(s.from) \in Nat
    BY <1>1, Geometry, DivMod, PageIndexInRange DEF MacroblockIndex, Index
  <2> QED
    BY <1>1, <1>2, <2>1 DEF SearchHeader, SearchType, SearchFrame, ScanFrom,
      Addr, SearchForward, At, Within, Goto, Return, Point, HeaderPoint,
      SearchPoint, DeletePoint, RewritePoint, DataPoint, FormatPoint,
      HeaderReturn, SearchReturn, DeleteReturn, Status
<1> QED
  BY <1>1, <1>2, <1>3, <1>4, <1>5, <1>6, <1>7 DEF SearchHeader, DataType

\* A search for a record finds a page not before its start.
LEMMA SearchUnitStep ==
  ASSUME IInv, SearchUnit, UNCHANGED <<call, d, w, l, fmt>>
  PROVE  IInv'
<1> USE DEF IInv, TypeOK
<1> USE DEF Goto, Return, HeaderType, HeaderFrame, SearchType, SearchFrame,
      LoopsBounded, SearchForward, At, Within, control,
      Point, HeaderPoint, SearchPoint, DeletePoint, RewritePoint,
      DataPoint, FormatPoint, HeaderReturn, SearchReturn, DeleteReturn, Status
<1>1. /\ pc = "s_unit" /\ st \in Status
      /\ s \in SearchFrame /\ s.mb \in Nat /\ s.mb < MacroblocksCount
      /\ s.from \in Nat /\ s.i \in Nat
      /\ PageIndex(s.from) \in Nat /\ PageIndex(s.from) <= s.i
      /\ MacroblockIndex(s.from) \in Nat /\ MacroblockIndex(s.from) <= s.mb
  <2>1. pc = "s_unit"
    BY DEF SearchUnit
  <2>2. s.from \in Nat
    OBVIOUS
  <2>3. PageIndex(s.from) \in Nat /\ MacroblockIndex(s.from) \in Nat
    BY <2>2, PageIndexInRange, Geometry, DivMod DEF Index, MacroblockIndex
  <2> QED
    BY <2>1, <2>2, <2>3
<1>2. DeviceType' /\ ChainsForward' /\ h' = h
  BY DEF SearchUnit, device, DeviceType, ChainsForward
<1>3. CASE \E i \in Least(Candidates) :
             /\ s' \in {[s EXCEPT !.i = i + 1],
                        [s EXCEPT !.found = PageAddress(s.mb, i), !.i = i + 1,
                                  !.prevId = h.page.toc[i].key.id]}
             /\ (Return("OK", s.back) /\ s'.found # None) \/ UNCHANGED control
  <2>1. PICK i \in Least(Candidates) :
          /\ s' \in {[s EXCEPT !.i = i + 1],
                     [s EXCEPT !.found = PageAddress(s.mb, i), !.i = i + 1,
                               !.prevId = h.page.toc[i].key.id]}
          /\ (Return("OK", s.back) /\ s'.found # None) \/ UNCHANGED control
    BY <1>3
  <2>2. i \in Index /\ i \in Nat /\ s.i <= i /\ i + 1 \in 0 .. DataPages
    BY <2>1, Geometry DEF Candidates, Least, Index
  <2>3. h.page.toc[i].key.id \in 0 .. MaxId
    BY <2>2 DEF Page, Toc, Unit, Key
  <2>4. /\ PageAddress(s.mb, i) \in Addr
        /\ s.from <= PageAddress(s.mb, i)
        /\ PageAddress(s.mb, i) # None
    <3>1. PageIndex(s.from) <= i
      BY <1>1, <2>2
    <3>2. PageAddress(s.mb, i) \in Addr
      BY <1>1, <2>2, AddressRoundTrip DEF DataAddr
    <3>3. s.from <= PageAddress(s.mb, i)
      BY <1>1, <2>2, <3>1, SearchAhead
    <3> QED
      BY <3>2, <3>3, NoneAssumption DEF Addr
  <2>5. /\ s' \in SearchFrame
        /\ s'.from = s.from /\ s'.mb = s.mb /\ s'.back = s.back
        /\ s'.i = i + 1 /\ s'.found \in {s.found, PageAddress(s.mb, i)}
    BY <1>1, <2>1, <2>2, <2>3, <2>4
  <2>6. HeaderType'
    BY <1>1, <1>2, <2>1
  <2>7. LoopsBounded'
    BY <1>1, <1>2, <2>1, <2>5
  <2>8. SearchForward'
    <3>1. /\ s'.found # None => s'.from <= s'.found
          /\ MacroblockIndex(s'.from) <= s'.mb
          /\ PageIndex(s'.from) <= s'.i
      BY <1>1, <2>2, <2>4, <2>5
    <3>2. Within({"w_found"})' => Within({"w_found"})
      BY <1>1, <1>2, <2>1, <2>5
    <3> QED
      BY <2>5, <3>1, <3>2
  <2> QED
    BY <1>2, <2>5, <2>6, <2>7, <2>8 DEF DataType
<1>4. CASE s' = [s EXCEPT !.mb = @ + 1] /\ Goto("s_block")
  <2>1. s.mb + 1 \in 0 .. PagesCount
    BY <1>1, MacroblockInRange, Geometry
  <2>2. HeaderType' /\ SearchType'
    BY <1>1, <1>2, <1>4, <2>1
  <2>3. LoopsBounded' /\ SearchForward'
    BY <1>1, <1>2, <1>4, <2>1
  <2> QED
    BY <1>2, <2>2, <2>3 DEF DataType
<1> QED
  <2>1. \A i \in Least(Candidates) : PageAddress(s.mb, i) # None
    <3>1. TAKE i \in Least(Candidates)
    <3>2. i \in Index
      BY DEF Candidates, Least
    <3> QED
      BY <1>1, <3>2, AddressRoundTrip, NoneAssumption DEF DataAddr, Addr
  <2> QED
    BY <1>3, <1>4, <2>1 DEF SearchUnit

-----------------------------------------------------------------------------
(* Deleting a record.                                                      *)

\* The loop of a delete over macroblocks preserves the invariant.
LEMMA DeleteBlockStep ==
  ASSUME IInv, DeleteBlock, UNCHANGED fmt
  PROVE  IInv'
<1> USE DEF IInv, TypeOK
<1>1. DeviceType' /\ ChainsForward'
  BY DEF DeleteBlock, device, DeviceType, ChainsForward
<1>2. HeaderType'
  <2>1. CASE d.mb < MacroblocksCount /\ LoadHeader(d.mb, "d_header")
    <3>1. d.mb \in Macroblock
      BY <2>1, MacroblockInRange DEF DataType, DeleteFrame
    <3> QED
      BY <2>1, <3>1, FrameTypes DEF LoadHeader, HeaderType, HeaderFrame,
        Point, HeaderPoint, SearchPoint, DeletePoint, RewritePoint, DataPoint,
        FormatPoint, HeaderReturn, SearchReturn, DeleteReturn, Status
  <2> QED
    BY <2>1 DEF DeleteBlock, Return, HeaderType, DataType, DeleteFrame,
      Success, Point, HeaderPoint, SearchPoint, DeletePoint, RewritePoint,
      DataPoint, FormatPoint, HeaderReturn, SearchReturn, DeleteReturn, Status
<1>3. LoopsBounded' /\ SearchForward'
  BY DEF DeleteBlock, LoadHeader, NoHeader, DataType, DeleteFrame,
    LoopsBounded, SearchForward, At, Within, Goto, Return, Point, HeaderPoint,
    SearchPoint, DeletePoint, RewritePoint, DataPoint, FormatPoint,
    HeaderReturn, SearchReturn, DeleteReturn, Status
<1> QED
  BY <1>1, <1>2, <1>3 DEF DeleteBlock, SearchType, DataType

\* Clearing a key in a table does.
LEMMA DeleteHeaderStep ==
  ASSUME IInv, DeleteHeader, UNCHANGED fmt
  PROVE  IInv'
<1> USE DEF IInv, TypeOK
<1>1. DeviceType' /\ ChainsForward'
  BY DEF DeleteHeader, device, DeviceType, ChainsForward
<1>2. HeaderType'
  <2>1. CASE SaveHeader(d.mb, [h.page EXCEPT !.toc = Cleared(@, d.key)],
                        "d_saved")
    <3>1. d.mb \in Macroblock
      BY MacroblockInRange DEF DeleteHeader, DataType, DeleteFrame,
        LoopsBounded, At
    <3>2. [h.page EXCEPT !.toc = Cleared(@, d.key)] \in Page
      BY TocTypes, Geometry DEF HeaderType, HeaderFrame, Page, DataType,
        DeleteFrame
    <3> QED
      BY <2>1, <3>1, <3>2, FrameTypes DEF SaveHeader, HeaderType, HeaderFrame,
        Point, HeaderPoint, SearchPoint, DeletePoint, RewritePoint, DataPoint,
        FormatPoint, HeaderReturn, SearchReturn, DeleteReturn, Status
  <2> QED
    BY <2>1 DEF DeleteHeader, Return, HeaderType, DataType, DeleteFrame,
      Point, HeaderPoint, SearchPoint, DeletePoint, RewritePoint,
      DataPoint, FormatPoint, HeaderReturn, SearchReturn, DeleteReturn, Status
<1>3. LoopsBounded' /\ SearchForward'
  BY DEF DeleteHeader, SaveHeader, NoHeader, DataType, DeleteFrame,
    LoopsBounded, SearchForward, At, Within, Goto, Return, Point, HeaderPoint,
    SearchPoint, DeletePoint, RewritePoint, DataPoint, FormatPoint,
    HeaderReturn, SearchReturn, DeleteReturn, Status
<1> QED
  BY <1>1, <1>2, <1>3 DEF DeleteHeader, SearchType, DataType

\* Choosing the pages to erase instead does.
LEMMA DeleteSavedStep ==
  ASSUME IInv, DeleteSaved, UNCHANGED fmt
  PROVE  IInv'
<1> USE DEF IInv, TypeOK
<1>1. /\ d \in DeleteFrame /\ d.mb + 1 \in 0 .. PagesCount
      /\ \E victims \in SUBSET Addr :
           \/ d' = [d EXCEPT !.mb = @ + 1] /\ Goto("d_block")
           \/ d' = [d EXCEPT !.victims = victims] /\ Goto("d_erase")
  <2>1. PagesOf(d.key, d.mb) \subseteq Addr
    BY DEF PagesOf, Readable
  <2> QED
    BY <2>1, MacroblockInRange, Geometry DEF DeleteSaved, DataType,
      DeleteFrame, LoopsBounded, At
<1>2. DeviceType' /\ ChainsForward'
  BY DEF DeleteSaved, device, DeviceType, ChainsForward
<1>3. HeaderType' /\ DataType'
  BY <1>1 DEF DeleteSaved, Goto, HeaderType, DataType, DeleteFrame,
      Point, HeaderPoint, SearchPoint, DeletePoint, RewritePoint,
      DataPoint, FormatPoint, HeaderReturn, SearchReturn, DeleteReturn, Status
<1>4. LoopsBounded' /\ SearchForward'
  BY <1>1 DEF DeleteSaved, DataType, DeleteFrame, LoopsBounded, SearchForward,
    At, Within, Goto, Return, Point, HeaderPoint, SearchPoint, DeletePoint,
    RewritePoint, DataPoint, FormatPoint, HeaderReturn, SearchReturn,
    DeleteReturn, Status
<1> QED
  BY <1>1, <1>2, <1>3, <1>4 DEF DeleteSaved, SearchType

\* Erasing them does.
LEMMA DeleteEraseStep ==
  ASSUME IInv, DeleteErase, UNCHANGED fmt
  PROVE  IInv'
<1> USE DEF IInv, TypeOK
<1>1. PICK status \in {"OK", "BUSY", "ERROR"} :
        /\ ErasePages(d.victims, status)
        /\ d' = [d EXCEPT !.mb = @ + 1, !.victims = {},
                          !.res = IF Success(status) THEN @ ELSE status]
  BY DEF DeleteErase
<1>2. DeviceType' /\ ChainsForward'
  BY <1>1, ErasePagesStep
<1>3. d.mb + 1 \in 0 .. PagesCount
  BY MacroblockInRange, Geometry DEF DeleteErase, DataType, DeleteFrame,
      LoopsBounded, At
<1>4. HeaderType' /\ DataType'
  BY <1>1, <1>3 DEF DeleteErase, Goto, HeaderType, DataType, DeleteFrame,
      Point, HeaderPoint, SearchPoint, DeletePoint, RewritePoint,
      DataPoint, FormatPoint, HeaderReturn, SearchReturn, DeleteReturn, Status
<1>5. LoopsBounded' /\ SearchForward'
  BY DEF DeleteErase, DataType, DeleteFrame, LoopsBounded, SearchForward, At,
    Within, Goto, Return, Point, HeaderPoint, SearchPoint, DeletePoint,
    RewritePoint, DataPoint, FormatPoint, HeaderReturn, SearchReturn,
    DeleteReturn, Status
<1> QED
  BY <1>1, <1>2, <1>3, <1>4, <1>5 DEF DeleteErase, SearchType

\* A header about to be loaded.
LEMMA LoadHeaderStep ==
  ASSUME NEW mb \in Macroblock, NEW back \in HeaderReturn,
         st \in Status, LoadHeader(mb, back)
  PROVE  HeaderType' /\ pc' = "h_load" /\ st' = st /\ h'.back = back
BY FrameTypes DEF LoadHeader, HeaderType, HeaderFrame, Point, HeaderPoint

\* A header about to be saved.
LEMMA SaveHeaderStep ==
  ASSUME NEW mb \in Macroblock, NEW pg \in Page, NEW back \in HeaderReturn,
         st \in Status, SaveHeader(mb, pg, back)
  PROVE  HeaderType' /\ pc' = "h_save" /\ st' = st /\ h'.back = back
BY FrameTypes DEF SaveHeader, HeaderType, HeaderFrame, Point, HeaderPoint

\* A delete about to start.
LEMMA DeleteStep ==
  ASSUME NEW key \in Key, NEW back \in DeleteReturn, Delete(key, back)
  PROVE  d' \in DeleteFrame /\ pc' = "d_block" /\ st' = st
BY FrameTypes DEF Delete, DeleteFrame

\* A search about to start has its macroblock in range and no result.
LEMMA SearchStep ==
  ASSUME NEW mode \in SearchMode, NEW key \in Key, NEW from \in 0 .. PagesCount,
         NEW back \in SearchReturn, Search(mode, key, from, back)
  PROVE  /\ s' \in SearchFrame /\ pc' = "s_block" /\ st' = st
         /\ s'.back = back /\ s'.from = from /\ s'.found = None
         /\ MacroblockIndex(s'.from) <= s'.mb
<1>1. MacroblockIndex(from) \in 0 .. PagesCount
  <2>1. from \in Nat /\ from <= PagesCount
    BY Geometry
  <2>2. /\ from \div PerBlock \in Nat
        /\ from \div PerBlock <= PagesCount \div PerBlock
    BY <2>1, Geometry, DivMod, DivMonotone
  <2>3. PagesCount \div PerBlock \in Nat /\ PagesCount \div PerBlock <= PagesCount
    BY MacroblockInRange DEF MacroblocksCount
  <2> QED
    BY <2>2, <2>3, Geometry DEF MacroblockIndex
<1>2. StartCmpId(mode) \in 0 .. MaxId
  BY DataAssumption DEF StartCmpId
<1>3. s' = [NoSearch EXCEPT !.mode = mode, !.key = key, !.from = from,
                           !.mb = MacroblockIndex(from),
                           !.prevId = StartCmpId(mode), !.back = back]
  BY DEF Search
<1>4. s' \in SearchFrame
  BY <1>1, <1>2, <1>3, FrameTypes DEF SearchFrame
<1>5. /\ s'.back = back /\ s'.from = from /\ s'.found = None
      /\ s'.mb = MacroblockIndex(from)
  BY <1>3 DEF NoSearch
<1> QED
  BY <1>1, <1>4, <1>5, Geometry DEF Search

\* A search that is over says nothing of its result.
LEMMA NoSearchForward ==
  /\ NoSearch \in SearchFrame
  /\ NoSearch.found = None /\ NoSearch.back = "idle"
  /\ MacroblockIndex(NoSearch.from) <= NoSearch.mb
<1>1. MacroblockIndex(0) = 0
  BY Geometry DEF MacroblockIndex
<1> QED
  BY <1>1, FrameTypes DEF NoSearch

\* The loop over the pages to erase: a search in bounds, or its end.
LEMMA EraseMoreStep ==
  ASSUME DataType, NEW f \in RewriteFrame, EraseMore(f)
  PROVE  /\ s' \in SearchFrame /\ st' = st /\ s'.found = None
         /\ MacroblockIndex(s'.from) <= s'.mb
         /\ \/ pc' = "s_block" /\ s'.back = "w_target" /\ f.erased < call.len
            \/ pc' = "w_rest"
<1>1. CASE Search("EMPTY", call.key, f.erase + 1, "w_target")
  <2>1. f.erase + 1 \in 0 .. PagesCount
    BY Geometry DEF RewriteFrame, Addr
  <2>2. call.key \in Key /\ "EMPTY" \in SearchMode /\ "w_target" \in SearchReturn
    BY DEF DataType, Call, SearchMode, SearchReturn
  <2>3. f.erased < call.len \/ pc' = "w_rest"
    BY DEF EraseMore, Goto
  <2> QED
    BY <1>1, <2>1, <2>2, <2>3, SearchStep
<1>2. CASE Goto("w_rest") /\ s' = NoSearch
  BY <1>2, NoSearchForward DEF Goto
<1> QED
  BY <1>1, <1>2 DEF EraseMore

-----------------------------------------------------------------------------
(* Rewriting a record: the pages to erase.                                 *)

\* A rewrite that starts preserves the invariant.
LEMMA RewriteStartStep ==
  ASSUME IInv, RewriteStart, UNCHANGED fmt
  PROVE  IInv'
<1> USE DEF IInv, TypeOK
<1>1. DeviceType' /\ ChainsForward'
  BY DEF RewriteStart, device, DeviceType, ChainsForward
<1>2. pc = "w_start" /\ call.key \in Key /\ "w_deleted" \in DeleteReturn
  BY DEF RewriteStart, DataType, Call, DeleteReturn
<1>3. CASE Delete(call.key, "w_deleted")
  <2>1. d' \in DeleteFrame /\ pc' = "d_block" /\ st' = st /\ d'.mb = 0
    BY <1>2, <1>3, DeleteStep DEF Delete, NoDelete
  <2>2. HeaderType' /\ DataType'
    BY <2>1 DEF RewriteStart, HeaderType, DataType, Point, DeletePoint
  <2> QED
    BY <1>1, <1>2, <2>1, <2>2 DEF RewriteStart, SearchType, LoopsBounded,
      SearchForward, At, Within, HeaderPoint, SearchPoint
<1>4. CASE Return("ERROR", RewriteBack) /\ UNCHANGED d
  <2>1. HeaderType' /\ DataType'
    BY <1>4 DEF RewriteStart, Return, RewriteBack, HeaderType, DataType,
      Point, DataPoint, Status
  <2> QED
    BY <1>1, <1>2, <1>4, <2>1 DEF RewriteStart, Return, RewriteBack,
      SearchType, LoopsBounded, SearchForward, At, Within, HeaderPoint,
      SearchPoint
<1> QED
  BY <1>3, <1>4 DEF RewriteStart

\* A rewrite whose old record is deleted does.
LEMMA RewriteDeletedStep ==
  ASSUME IInv, RewriteDeleted, UNCHANGED fmt
  PROVE  IInv'
<1> USE DEF IInv, TypeOK
<1>1. /\ DeviceType' /\ ChainsForward' /\ SearchType' /\ DataType'
      /\ UNCHANGED <<s, call, d, w, l>> /\ pc = "w_deleted"
  BY DEF RewriteDeleted, device, DeviceType, ChainsForward, SearchType,
    DataType
<1>2. CASE LoadHeader(MacroblockIndex(call.addr), "w_header")
  <2>1. MacroblockIndex(call.addr) \in Macroblock
    BY MacroblockInRange DEF DataType, Call
  <2>2. HeaderType' /\ pc' = "h_load" /\ st' = st /\ h'.back = "w_header"
    BY <1>2, <2>1, LoadHeaderStep DEF HeaderType, HeaderReturn
  <2> QED
    BY <1>1, <2>2 DEF LoopsBounded, SearchForward, At, Within, HeaderPoint,
      SearchPoint
<1>3. CASE Return(st, RewriteBack) /\ UNCHANGED h
  <2>1. HeaderType'
    BY <1>3 DEF Return, RewriteBack, HeaderType, Point, DataPoint
  <2> QED
    BY <1>1, <1>3, <2>1 DEF Return, RewriteBack, LoopsBounded, SearchForward,
      At, Within, HeaderPoint, SearchPoint
<1> QED
  BY <1>2, <1>3 DEF RewriteDeleted

\* A rewrite that starts to collect the pages to erase does.
LEMMA RewriteHeaderStep ==
  ASSUME IInv, RewriteHeader, UNCHANGED fmt
  PROVE  IInv'
<1> USE DEF IInv, TypeOK
<1>1. /\ DeviceType' /\ ChainsForward' /\ UNCHANGED <<h, call, d, l, fmt>>
      /\ pc = "w_header"
  BY DEF RewriteHeader, device, DeviceType, ChainsForward
<1>2. CASE Return(st, RewriteBack) /\ UNCHANGED <<s, w>>
  <2>1. HeaderType'
    BY <1>1, <1>2 DEF Return, RewriteBack, HeaderType, Point, DataPoint
  <2> QED
    BY <1>1, <1>2, <2>1 DEF Return, RewriteBack, SearchType, DataType,
      LoopsBounded, SearchForward, At, Within, HeaderPoint, SearchPoint
<1>3. CASE /\ w' = [NoRewrite EXCEPT !.erase = call.addr, !.batch = <<call.addr>>,
                      !.header = [mb |-> h.mb, page |-> h.page],
                      !.cur = call.addr, !.prev = call.addr, !.next = call.addr]
           /\ EraseMore(w')
  <2>1. call.addr \in Addr /\ call.addr \in Nat
    BY Geometry DEF DataType, Call, Addr
  <2>2. /\ w' \in RewriteFrame
        /\ w'.prev = call.addr /\ w'.cur = call.addr /\ w'.next = call.addr
    <3>1. <<call.addr>> \in Seq(Addr) /\ call.addr \in Nat
      BY <2>1
    <3>2. [mb |-> h.mb, page |-> h.page] \in [mb : Macroblock, page : Page]
      BY DEF HeaderType, HeaderFrame
    <3>3. NoRewrite \in RewriteFrame
      BY FrameTypes
    <3> QED
      BY <1>3, <2>1, <3>1, <3>2, <3>3 DEF RewriteFrame
  <2>3. /\ s' \in SearchFrame /\ st' = st /\ s'.found = None
        /\ MacroblockIndex(s'.from) <= s'.mb
        /\ \/ pc' = "s_block" /\ s'.back = "w_target" /\ w'.erased < call.len
           \/ pc' = "w_rest"
    BY <1>3, <2>2, EraseMoreStep
  <2>4. HeaderType' /\ SearchType' /\ DataType'
    BY <1>1, <2>2, <2>3 DEF HeaderType, SearchType, DataType, Point,
      SearchPoint, RewritePoint
  <2> QED
    BY <1>1, <2>1, <2>2, <2>3, <2>4 DEF LoopsBounded, SearchForward, At,
      Within, HeaderPoint, SearchPoint
<1> QED
  BY <1>2, <1>3 DEF RewriteHeader

\* A page that joins the batch leaves the pages to write alone.
LEMMA TargetedStep ==
  ASSUME DataType, NEW f \in RewriteFrame, f.erased < call.len
  PROVE  /\ Targeted(f) \in RewriteFrame
         /\ Targeted(f).prev = f.prev /\ Targeted(f).cur = f.cur
         /\ Targeted(f).next = f.next
<1>1. f.erased + 1 \in 0 .. MaxLen
  BY DataAssumption DEF DataType, Call, RewriteFrame
<1>2. Append(f.batch, f.target) \in Seq(Addr)
  BY DEF RewriteFrame
<1> QED
  BY <1>1, <1>2 DEF Targeted, RewriteFrame

\* A rewrite that found a page to erase does: it is in the storage.
LEMMA RewriteTargetStep ==
  ASSUME IInv, RewriteTarget, UNCHANGED fmt
  PROVE  IInv'
<1> USE DEF IInv, TypeOK
<1> DEFINE f == [w EXCEPT !.target = IF st = "OK" THEN s.found ELSE 0]
<1>1. /\ DeviceType' /\ ChainsForward' /\ UNCHANGED <<h, call, d, l, fmt>>
      /\ pc = "w_target"
  BY DEF RewriteTarget, device, DeviceType, ChainsForward
<1>2. w.erased < call.len /\ w \in RewriteFrame
  BY <1>1 DEF LoopsBounded, Within, At, DataType
<1>3. f \in RewriteFrame /\ f.erased = w.erased
      /\ f.prev = w.prev /\ f.cur = w.cur /\ f.next = w.next
  <2>1. (IF st = "OK" THEN s.found ELSE 0) \in Addr
    BY <1>1, Geometry DEF LoopsBounded, SearchType, SearchFrame
  <2> QED
    BY <1>2, <2>1 DEF RewriteFrame
<1> HIDE DEF f
<1>4. CASE Return(st, RewriteBack) /\ s' = NoSearch /\ UNCHANGED w
  <2>1. HeaderType' /\ SearchType' /\ DataType'
    BY <1>1, <1>4, NoSearchForward DEF Return, RewriteBack, HeaderType, Point,
      DataPoint, SearchType, DataType
  <2> QED
    BY <1>1, <1>4, <2>1, NoSearchForward DEF Return, RewriteBack,
      LoopsBounded, SearchForward, At, Within, HeaderPoint, SearchPoint
<1>5. CASE w' = f /\ s' = NoSearch /\ Goto("w_erase")
  <2>1. HeaderType' /\ SearchType' /\ DataType'
    BY <1>1, <1>3, <1>5, NoSearchForward DEF Goto, HeaderType, Point,
      RewritePoint, SearchType, DataType
  <2> QED
    BY <1>1, <1>2, <1>3, <1>5, <2>1, NoSearchForward DEF Goto, LoopsBounded,
      SearchForward, At, Within, HeaderPoint, SearchPoint
<1>6. CASE w' = Targeted(f) /\ EraseMore(w')
  <2>1. w' \in RewriteFrame /\ w'.prev = w.prev /\ w'.cur = w.cur /\ w'.next = w.next
    BY <1>2, <1>3, <1>6, TargetedStep
  <2>2. /\ s' \in SearchFrame /\ st' = st /\ s'.found = None
        /\ MacroblockIndex(s'.from) <= s'.mb
        /\ \/ pc' = "s_block" /\ s'.back = "w_target" /\ w'.erased < call.len
           \/ pc' = "w_rest"
    BY <1>6, <2>1, EraseMoreStep
  <2>3. HeaderType' /\ SearchType' /\ DataType'
    BY <1>1, <2>1, <2>2 DEF HeaderType, SearchType, DataType, Point,
      SearchPoint, RewritePoint
  <2> QED
    BY <1>1, <2>1, <2>2, <2>3 DEF LoopsBounded, SearchForward, At, Within,
      HeaderPoint, SearchPoint
<1> QED
  BY <1>4, <1>5, <1>6 DEF RewriteTarget, f

\* A rewrite that erased a batch of pages does.
LEMMA RewriteEraseStep ==
  ASSUME IInv, RewriteErase, UNCHANGED fmt
  PROVE  IInv'
<1> USE DEF IInv, TypeOK
<1> DEFINE f == [w EXCEPT !.batch = << >>]
<1>1. PICK status \in {"OK", "BUSY", "ERROR"} :
        /\ ErasePages(BatchPages, status)
        /\ \/ Return("BUSY", RewriteBack) /\ UNCHANGED <<s, w>>
           \/ /\ w' = [w EXCEPT !.batch = [j \in DOMAIN @ |-> 0]]
              /\ Return("ERROR", "w_rest")
              /\ UNCHANGED s
           \/ w' = Targeted(f) /\ EraseMore(w')
  BY DEF RewriteErase
<1>2. UNCHANGED <<h, call, d, l, fmt>> /\ pc = "w_erase"
  BY DEF RewriteErase
<1>3. DeviceType' /\ ChainsForward'
  BY <1>1, ErasePagesStep
<1>4. w.erased < call.len /\ w \in RewriteFrame
  BY <1>2 DEF LoopsBounded, Within, At, DataType
<1>5. CASE Return("BUSY", RewriteBack) /\ UNCHANGED <<s, w>>
  <2>1. HeaderType' /\ SearchType' /\ DataType'
    BY <1>2, <1>5 DEF Return, RewriteBack, HeaderType, Point, DataPoint,
      SearchType, DataType, Status
  <2> QED
    BY <1>2, <1>3, <1>5, <2>1 DEF Return, RewriteBack, LoopsBounded,
      SearchForward, At, Within, HeaderPoint, SearchPoint
<1>6. CASE /\ w' = [w EXCEPT !.batch = [j \in DOMAIN @ |-> 0]]
           /\ Return("ERROR", "w_rest") /\ UNCHANGED s
  <2>1. [j \in DOMAIN w.batch |-> 0] \in Seq(Addr)
    <3>1. w.batch \in Seq(Addr) /\ 0 \in Addr
      BY <1>4, Geometry DEF RewriteFrame
    <3>2. Len(w.batch) \in Nat /\ DOMAIN w.batch = 1 .. Len(w.batch)
      BY <3>1
    <3> QED
      BY <3>1, <3>2
  <2>2. w' \in RewriteFrame /\ w'.prev = w.prev /\ w'.cur = w.cur /\ w'.next = w.next
    BY <1>4, <1>6, <2>1 DEF RewriteFrame
  <2>3. HeaderType' /\ SearchType' /\ DataType'
    BY <1>2, <1>6, <2>2 DEF Return, HeaderType, Point, RewritePoint,
      SearchType, DataType, Status
  <2> QED
    BY <1>2, <1>3, <1>6, <2>2, <2>3 DEF Return, LoopsBounded, SearchForward,
      At, Within, HeaderPoint, SearchPoint
<1>7. CASE w' = Targeted(f) /\ EraseMore(w')
  <2>1. f \in RewriteFrame /\ f.erased = w.erased
        /\ f.prev = w.prev /\ f.cur = w.cur /\ f.next = w.next
    <3>1. << >> \in Seq(Addr)
      OBVIOUS
    <3> QED
      BY <1>4, <3>1 DEF RewriteFrame
  <2>2. w' \in RewriteFrame /\ w'.prev = w.prev /\ w'.cur = w.cur /\ w'.next = w.next
    BY <1>4, <1>7, <2>1, TargetedStep
  <2>3. /\ s' \in SearchFrame /\ st' = st /\ s'.found = None
        /\ MacroblockIndex(s'.from) <= s'.mb
        /\ \/ pc' = "s_block" /\ s'.back = "w_target" /\ w'.erased < call.len
           \/ pc' = "w_rest"
    BY <1>7, <2>2, EraseMoreStep
  <2>4. HeaderType' /\ SearchType' /\ DataType'
    BY <1>2, <2>2, <2>3 DEF HeaderType, SearchType, DataType, Point,
      SearchPoint, RewritePoint
  <2> QED
    BY <1>2, <1>3, <2>2, <2>3, <2>4 DEF LoopsBounded, SearchForward, At,
      Within, HeaderPoint, SearchPoint
<1> QED
  BY <1>1, <1>5, <1>6, <1>7

\* A rewrite that erased the last batch does.
LEMMA RewriteRestStep ==
  ASSUME IInv, RewriteRest, UNCHANGED fmt
  PROVE  IInv'
<1> USE DEF IInv, TypeOK
<1>1. UNCHANGED <<h, s, call, d, w, l, fmt>> /\ pc = "w_rest"
  BY DEF RewriteRest
<1>2. DeviceType' /\ ChainsForward'
  <2>1. CASE UNCHANGED device
    BY <2>1 DEF device, DeviceType, ChainsForward
  <2>2. CASE \E status \in {"OK", "BUSY", "ERROR"} : ErasePages(BatchPages, status)
    BY <2>2, ErasePagesStep
  <2> QED
    BY <2>1, <2>2 DEF RewriteRest
<1>3. HeaderType' /\ pc' \in {"w_next", "v_saved", "done"}
  BY <1>1 DEF RewriteRest, Goto, Return, RewriteBack, HeaderType, Point,
    RewritePoint, DataPoint, Status
<1> QED
  BY <1>1, <1>2, <1>3 DEF SearchType, DataType, LoopsBounded, SearchForward,
    At, Within, HeaderPoint, SearchPoint

-----------------------------------------------------------------------------
(* Rewriting a record: the pages to write.                                 *)

\* A rewrite that looks for the page to link to does.
LEMMA RewriteNextStep ==
  ASSUME IInv, RewriteNext, UNCHANGED fmt
  PROVE  IInv'
<1> USE DEF IInv, TypeOK
<1>1. /\ DeviceType' /\ ChainsForward' /\ UNCHANGED <<call, d, w, l, fmt>>
      /\ pc = "w_next" /\ DataType' /\ w \in RewriteFrame
  BY DEF RewriteNext, device, DeviceType, ChainsForward, DataType
<1>2. CASE Return("OOM", RewriteBack) /\ UNCHANGED <<h, s>>
  <2>1. HeaderType' /\ SearchType'
    BY <1>2 DEF Return, RewriteBack, HeaderType, Point, DataPoint, Status,
      SearchType
  <2> QED
    BY <1>1, <1>2, <2>1 DEF Return, RewriteBack, LoopsBounded, SearchForward,
      At, Within, HeaderPoint, SearchPoint
<1>3. CASE /\ w.n < call.len /\ w.cur < PagesCount
           /\ Search("EMPTY", call.key, w.cur + 1, "w_found")
           /\ UNCHANGED h
  <2>1. w.cur + 1 \in 0 .. PagesCount
    BY <1>1, <1>3, Geometry DEF RewriteFrame
  <2>2. call.key \in Key /\ "EMPTY" \in SearchMode /\ "w_found" \in SearchReturn
    BY DEF DataType, Call, SearchMode, SearchReturn
  <2>3. /\ s' \in SearchFrame /\ pc' = "s_block" /\ st' = st
        /\ s'.back = "w_found" /\ s'.from = w.cur + 1 /\ s'.found = None
        /\ MacroblockIndex(s'.from) <= s'.mb
    BY <1>3, <2>1, <2>2, SearchStep
  <2>4. HeaderType' /\ SearchType'
    BY <1>3, <2>3 DEF HeaderType, SearchType, Point, SearchPoint
  <2> QED
    BY <1>1, <1>3, <2>3, <2>4 DEF LoopsBounded, SearchForward, At, Within,
      HeaderPoint, SearchPoint
<1>4. CASE SaveHeader(w.header.mb, w.header.page, "w_end") /\ UNCHANGED s
  <2>1. w.header.mb \in Macroblock /\ w.header.page \in Page
    BY <1>1 DEF RewriteFrame
  <2>2. HeaderType' /\ pc' = "h_save" /\ st' = st /\ h'.back = "w_end"
    BY <1>4, <2>1, SaveHeaderStep DEF HeaderType, HeaderReturn
  <2> QED
    BY <1>1, <1>4, <2>2 DEF SearchType, LoopsBounded, SearchForward, At,
      Within, HeaderPoint, SearchPoint
<1> QED
  BY <1>2, <1>3, <1>4 DEF RewriteNext

\* The page to link to lies after the page it is at.
LEMMA RewriteFoundStep ==
  ASSUME IInv, RewriteFound, UNCHANGED fmt
  PROVE  IInv'
<1> USE DEF IInv, TypeOK
<1>1. /\ DeviceType' /\ ChainsForward' /\ UNCHANGED <<call, d, l, fmt>>
      /\ pc = "w_found" /\ s' = NoSearch /\ SearchType' /\ w \in RewriteFrame
  BY NoSearchForward DEF RewriteFound, device, DeviceType, ChainsForward,
    SearchType, DataType
<1>2. w.cur < PagesCount /\ w.n < call.len /\ s.from = w.cur + 1
  BY <1>1 DEF LoopsBounded, SearchForward, Within, At
<1>3. CASE Return(st, RewriteBack) /\ UNCHANGED <<h, w>>
  <2>1. HeaderType' /\ DataType'
    BY <1>1, <1>3 DEF Return, RewriteBack, HeaderType, DataType, Point,
      DataPoint
  <2> QED
    BY <1>1, <1>3, <2>1, NoSearchForward DEF Return, RewriteBack,
      LoopsBounded, SearchForward, At, Within, HeaderPoint, SearchPoint
<1>4. CASE /\ w' = [w EXCEPT !.next = IF st = "OK" THEN s.found ELSE w.cur + 1]
           /\ IF w.loaded /\ HeaderIsOfOther
              THEN SaveHeader(w.header.mb, w.header.page, "w_switch")
              ELSE Return("OK", "w_switch") /\ UNCHANGED h
  <2>1. /\ (IF st = "OK" THEN s.found ELSE w.cur + 1) \in Nat
        /\ w.cur <= (IF st = "OK" THEN s.found ELSE w.cur + 1)
    <3>1. w.cur \in Nat
      BY <1>1 DEF RewriteFrame
    <3>2. CASE st = "OK"
      <4>1. s.found # None /\ s.found \in Addr /\ s.from <= s.found
        BY <1>1, <3>2 DEF LoopsBounded, SearchForward, SearchType, SearchFrame
      <4> QED
        BY <1>2, <3>1, <3>2, <4>1, Geometry DEF Addr
    <3> QED
      BY <3>1, <3>2
  <2>2. /\ w' \in RewriteFrame /\ w'.prev = w.prev /\ w'.cur = w.cur
        /\ w'.n = w.n /\ w'.cur <= w'.next
    BY <1>1, <1>4, <2>1 DEF RewriteFrame
  <2>3. /\ HeaderType'
        /\ \/ pc' = "h_save" /\ h'.back = "w_switch"
           \/ pc' = "w_switch"
    <3>1. w.header.mb \in Macroblock /\ w.header.page \in Page
      BY <1>1 DEF RewriteFrame
    <3>2. CASE SaveHeader(w.header.mb, w.header.page, "w_switch")
      BY <3>1, <3>2, SaveHeaderStep DEF HeaderType, HeaderReturn
    <3>3. CASE Return("OK", "w_switch") /\ UNCHANGED h
      BY <3>3 DEF Return, HeaderType, Point, RewritePoint, Status
    <3> QED
      BY <1>4, <3>2, <3>3
  <2>4. DataType'
    BY <1>1, <2>2 DEF DataType
  <2> QED
    BY <1>1, <1>2, <2>2, <2>3, <2>4, NoSearchForward DEF LoopsBounded,
      SearchForward, At, Within, HeaderPoint, SearchPoint
<1> QED
  BY <1>3, <1>4 DEF RewriteFound

\* The header to register the page in is that of a macroblock.
LEMMA RewriteSwitchStep ==
  ASSUME IInv, RewriteSwitch, UNCHANGED fmt
  PROVE  IInv'
<1> USE DEF IInv, TypeOK
<1>1. /\ DeviceType' /\ ChainsForward' /\ UNCHANGED <<s, call, d, w, l, fmt>>
      /\ pc = "w_switch" /\ SearchType' /\ DataType' /\ w \in RewriteFrame
  BY DEF RewriteSwitch, device, DeviceType, ChainsForward, SearchType,
    DataType
<1>2. w.cur < PagesCount /\ w.n < call.len
  BY <1>1 DEF LoopsBounded, Within, At
<1>3. CASE Return(st, RewriteBack) /\ UNCHANGED h
  <2>1. HeaderType'
    BY <1>3 DEF Return, RewriteBack, HeaderType, Point, DataPoint
  <2> QED
    BY <1>1, <1>3, <2>1 DEF Return, RewriteBack, LoopsBounded, SearchForward,
      At, Within, HeaderPoint, SearchPoint
<1>4. CASE LoadHeader(MacroblockIndex(w.cur), "w_reload")
  <2>1. MacroblockIndex(w.cur) \in Macroblock
    <3>1. w.cur \in Addr
      BY <1>1, <1>2, Geometry DEF RewriteFrame, Addr
    <3> QED
      BY <3>1, MacroblockInRange
  <2>2. HeaderType' /\ pc' = "h_load" /\ st' = st /\ h'.back = "w_reload"
    BY <1>4, <2>1, LoadHeaderStep DEF HeaderType, HeaderReturn
  <2> QED
    BY <1>1, <1>2, <2>2 DEF LoopsBounded, SearchForward, At, Within,
      HeaderPoint, SearchPoint
<1>5. CASE Goto("w_page") /\ UNCHANGED h
  <2>1. HeaderType'
    BY <1>5 DEF Goto, HeaderType, Point, RewritePoint
  <2> QED
    BY <1>1, <1>2, <1>5, <2>1 DEF Goto, LoopsBounded, SearchForward, At,
      Within, HeaderPoint, SearchPoint
<1> QED
  BY <1>3, <1>4, <1>5 DEF RewriteSwitch

\* A header taken in use preserves the invariant.
LEMMA RewriteReloadStep ==
  ASSUME IInv, RewriteReload, UNCHANGED fmt
  PROVE  IInv'
<1> USE DEF IInv, TypeOK
<1>1. /\ DeviceType' /\ ChainsForward' /\ UNCHANGED <<h, s, call, d, l, fmt>>
      /\ pc = "w_reload" /\ SearchType' /\ w \in RewriteFrame
  BY DEF RewriteReload, device, DeviceType, ChainsForward, SearchType,
    DataType
<1>2. w.cur < PagesCount /\ w.n < call.len
  BY <1>1 DEF LoopsBounded, Within, At
<1>3. CASE Return(st, RewriteBack) /\ UNCHANGED w
  <2>1. HeaderType' /\ DataType'
    BY <1>1, <1>3 DEF Return, RewriteBack, HeaderType, DataType, Point,
      DataPoint
  <2> QED
    BY <1>1, <1>3, <2>1 DEF Return, RewriteBack, LoopsBounded, SearchForward,
      At, Within, HeaderPoint, SearchPoint
<1>4. CASE /\ w' = [w EXCEPT !.header = [mb |-> h.mb, page |-> h.page],
                             !.block = MacroblockIndex(w.cur), !.loaded = TRUE]
           /\ Goto("w_page")
  <2>1. MacroblockIndex(w.cur) \in Macroblock
    <3>1. w.cur \in Addr
      BY <1>1, <1>2, Geometry DEF RewriteFrame, Addr
    <3> QED
      BY <3>1, MacroblockInRange
  <2>2. [mb |-> h.mb, page |-> h.page] \in [mb : Macroblock, page : Page]
    BY DEF HeaderType, HeaderFrame
  <2>3. /\ w' \in RewriteFrame /\ w'.prev = w.prev /\ w'.cur = w.cur
        /\ w'.next = w.next /\ w'.n = w.n
    BY <1>1, <1>4, <2>1, <2>2 DEF RewriteFrame
  <2>4. HeaderType' /\ DataType'
    BY <1>1, <1>4, <2>3 DEF Goto, HeaderType, DataType, Point, RewritePoint
  <2> QED
    BY <1>1, <1>2, <1>4, <2>3, <2>4 DEF Goto, LoopsBounded, SearchForward, At,
      Within, HeaderPoint, SearchPoint
<1> QED
  BY <1>3, <1>4 DEF RewriteReload

\* The page written links forward, and the next one lies ahead.
LEMMA RewritePageStep ==
  ASSUME IInv, RewritePage, UNCHANGED fmt
  PROVE  IInv'
<1> USE DEF IInv, TypeOK
<1>1. /\ UNCHANGED <<h, s, call, d, l, fmt>> /\ pc = "w_page"
      /\ w \in RewriteFrame /\ call \in Call
  BY DEF RewritePage, DataType
<1>2. /\ w.cur \in Addr /\ w.cur \in Nat /\ w.next \in Nat /\ w.prev \in Nat
      /\ w.n + 1 \in 0 .. MaxLen
      /\ w.prev <= w.cur /\ w.cur <= w.next
  <2>1. w.cur < PagesCount /\ w.n < call.len
    BY <1>1 DEF LoopsBounded, Within, At
  <2>2. w.cur \in Nat /\ w.next \in Nat /\ w.prev \in Nat /\ w.n \in 0 .. MaxLen
    BY <1>1 DEF RewriteFrame
  <2>3. call.len \in 0 .. MaxLen
    BY <1>1 DEF Call
  <2> QED
    BY <2>1, <2>2, <2>3, Geometry, DataAssumption DEF SearchForward, Addr
<1>3. PICK status \in {"OK", "BUSY", "ERROR"} :
        /\ SavePage(w.cur, CurrentPage, status)
        /\ \/ Return(status, RewriteBack) /\ UNCHANGED w
           \/ Return(status, "w_next") /\ w' = PageWritten
           \/ Return(status, "w_next") /\ w' = PageBlocked
  BY DEF RewritePage
<1>4. DeviceType' /\ ChainsForward'
  <2> DEFINE prev == IF w.n = 0 THEN w.cur ELSE w.prev
             next == IF IsLastPage THEN w.cur ELSE w.next
  <2>1. prev \in Nat /\ next \in Nat /\ prev <= w.cur /\ w.cur <= next
    BY <1>2
  <2>2. call.key \in Key /\ call.val \in Values \cup {Junk}
    BY <1>1 DEF Call
  <2>3. CurrentPage = DataPage(call.key, prev, next, call.val, w.n + 1)
    BY DEF CurrentPage
  <2> HIDE DEF prev, next
  <2>4. /\ CurrentPage \in Page
        /\ CurrentPage.prev = prev /\ CurrentPage.next = next
    <3>1. w.n + 1 \in 0 .. MaxLen
      BY <1>2
    <3>2. /\ DataPage(call.key, prev, next, call.val, w.n + 1) \in Page
          /\ DataPage(call.key, prev, next, call.val, w.n + 1).prev = prev
          /\ DataPage(call.key, prev, next, call.val, w.n + 1).next = next
      BY <2>1, <2>2, <3>1, DataPageType
    <3> QED
      BY <2>3, <3>2
  <2> QED
    BY <1>3, <2>1, <2>4, SavePageStep
<1>5. CurrentIndex \in Index
  BY <1>2, PageIndexInRange DEF CurrentIndex
<1>6. w.header.page.toc \in Toc /\ w.header \in [mb : Macroblock, page : Page]
  BY <1>1 DEF RewriteFrame, Page
<1>7. /\ Registered(w.header.page.toc, CurrentIndex, call.key) \in Toc
      /\ Blocked(w.header.page.toc, CurrentIndex) \in Toc
  BY <1>1, <1>5, <1>6, TocTypes DEF Call
<1>8. CASE Return(status, RewriteBack) /\ UNCHANGED w
  <2>1. HeaderType' /\ DataType' /\ SearchType'
    BY <1>1, <1>8 DEF Return, RewriteBack, HeaderType, DataType, SearchType,
      Point, DataPoint, Status
  <2> QED
    BY <1>1, <1>4, <1>8, <2>1 DEF Return, RewriteBack, LoopsBounded,
      SearchForward, At, Within, HeaderPoint, SearchPoint
<1>9. ASSUME NEW toc \in Toc,
             Return(status, "w_next"),
             \/ w' = [w EXCEPT !.header.page.toc = toc, !.prev = w.cur,
                               !.cur = w.next, !.n = @ + 1]
             \/ w' = [w EXCEPT !.header.page.toc = toc, !.cur = w.next]
      PROVE  IInv'
  <2>1. [w.header EXCEPT !.page.toc = toc] \in [mb : Macroblock, page : Page]
    BY <1>6, <1>9 DEF Page
  <2>2. w' \in RewriteFrame
    BY <1>1, <1>2, <1>9, <2>1 DEF RewriteFrame
  <2>3. w'.prev \in {w.prev, w.cur} /\ w'.cur = w.next /\ w'.next = w.next
    BY <1>1, <1>9 DEF RewriteFrame
  <2>4. w'.prev <= w'.cur /\ w'.cur <= w'.next
    BY <1>2, <2>3
  <2>5. HeaderType' /\ DataType' /\ SearchType'
    BY <1>1, <1>9, <2>2 DEF Return, HeaderType, DataType, SearchType, Point,
      RewritePoint, Status
  <2> QED
    BY <1>1, <1>4, <1>9, <2>4, <2>5 DEF Return, LoopsBounded, SearchForward,
      At, Within, HeaderPoint, SearchPoint
<1>10. CASE Return(status, "w_next") /\ w' = PageWritten
  <2>1. w' = [w EXCEPT !.header.page.toc
                         = Registered(w.header.page.toc, CurrentIndex, call.key),
                       !.prev = w.cur, !.cur = w.next, !.n = @ + 1]
    BY <1>10 DEF PageWritten
  <2> QED
    BY <1>7, <1>9, <1>10, <2>1
<1>11. CASE Return(status, "w_next") /\ w' = PageBlocked
  <2>1. w' = [w EXCEPT !.header.page.toc
                         = Blocked(w.header.page.toc, CurrentIndex),
                       !.cur = w.next]
    BY <1>11 DEF PageBlocked
  <2> QED
    BY <1>7, <1>9, <1>11, <2>1
<1> QED
  BY <1>3, <1>8, <1>10, <1>11

\* The end of a rewrite preserves the invariant.
LEMMA RewriteEndStep ==
  ASSUME IInv, RewriteEnd, UNCHANGED fmt
  PROVE  IInv'
<1> USE DEF IInv, TypeOK
<1>1. /\ DeviceType' /\ ChainsForward' /\ UNCHANGED <<h, s, call, d, w, l, fmt>>
      /\ SearchType' /\ DataType' /\ pc' \in {"v_saved", "done"} /\ st' \in Status
  BY DEF RewriteEnd, Return, RewriteBack, device, DeviceType, ChainsForward,
    SearchType, DataType, HeaderType, Status
<1>2. HeaderType'
  BY <1>1 DEF HeaderType, Point, DataPoint
<1> QED
  BY <1>1, <1>2 DEF LoopsBounded, SearchForward, At, Within, HeaderPoint,
    SearchPoint
\* The points that LoopsBounded and SearchForward say nothing of.
Quiet == {"idle", "done", "d_block", "w_start", "w_deleted", "w_header",
          "w_rest", "w_next", "w_end", "m_block"} \cup DataPoint

\* A step to a quiet point preserves what they say.
LEMMA QuietStep ==
  ASSUME IInv, DeviceType', ChainsForward', HeaderType', DataType',
         fmt' \in 0 .. PagesCount, UNCHANGED s,
         w'.prev = w.prev, w'.cur = w.cur, w'.next = w.next,
         pc' \in Quiet \/ (pc' \in HeaderPoint /\ h'.back \in Quiet)
  PROVE  IInv'
<1> USE DEF IInv, TypeOK
<1>1. SearchType'
  BY DEF SearchType
<1>2. LoopsBounded'
  BY DEF Quiet, DataPoint, LoopsBounded, At, Within, HeaderPoint, SearchPoint
<1>3. SearchForward'
  BY DEF Quiet, DataPoint, SearchForward, At, Within, HeaderPoint, SearchPoint
<1> QED
  BY <1>1, <1>2, <1>3

-----------------------------------------------------------------------------
(* Saving, loading, clearing, formatting.                                  *)

\* The steps of save around its rewrite do.
LEMMA SaveStep ==
  ASSUME IInv, SaveNext, UNCHANGED fmt
  PROVE  IInv'
<1> USE DEF IInv, TypeOK
<1>1. /\ DeviceType' /\ ChainsForward' /\ UNCHANGED <<s, call, l, fmt>>
      /\ w' \in RewriteFrame
      /\ w'.prev = w.prev /\ w'.cur = w.cur /\ w'.next = w.next
      /\ call \in Call /\ fmt' \in 0 .. PagesCount
  <2>1. UNCHANGED device /\ UNCHANGED <<s, call, l, fmt>>
        /\ (w' = w \/ w' = [w EXCEPT !.res = st])
    BY DEF SaveNext, SaveStart, SaveCheck, SaveRewritten, SaveUndone
  <2> QED
    BY <2>1 DEF device, DeviceType, ChainsForward, DataType, RewriteFrame,
      HeaderType
<1>2. CASE SaveStart
  <2>1. MacroblockIndex(call.addr) \in Macroblock
    BY <1>1, MacroblockInRange DEF Call
  <2>2. /\ HeaderType'
        /\ pc' = "done" \/ (pc' \in HeaderPoint /\ h'.back = "v_check")
    <3>1. CASE Return("ERROR", "done") /\ UNCHANGED h
      BY <3>1 DEF Return, HeaderType, Point, Status
    <3>2. CASE LoadHeader(MacroblockIndex(call.addr), "v_check")
      BY <2>1, <3>2, LoadHeaderStep DEF HeaderType, HeaderReturn, HeaderPoint
    <3> QED
      BY <1>2, <3>1, <3>2 DEF SaveStart
  <2>3. DataType'
    BY <1>1, <1>2 DEF SaveStart, DataType
  <2> QED
    BY <1>1, <2>2, <2>3, QuietStep DEF Quiet, DataPoint
<1>3. CASE SaveCheck
  <2>1. HeaderType' /\ DataType' /\ pc' \in {"done", "w_start"}
    BY <1>3 DEF SaveCheck, Return, Goto, HeaderType, DataType, Point,
      RewritePoint, Status
  <2> QED
    BY <1>1, <2>1, QuietStep DEF Quiet, DataPoint
<1>4. CASE SaveRewritten
  <2>1. CASE Goto("done") /\ UNCHANGED <<d, w>>
    <3>1. HeaderType' /\ DataType'
      BY <1>1, <1>4, <2>1 DEF SaveRewritten, Goto, HeaderType, DataType, Point
    <3> QED
      BY <1>1, <2>1, <3>1, QuietStep DEF Quiet, DataPoint, Goto
  <2>2. CASE Delete(call.key, "v_undone")
    <3>1. d' \in DeleteFrame /\ pc' = "d_block" /\ st' = st
      BY <1>1, <2>2, DeleteStep DEF Call, DeleteReturn
    <3>2. HeaderType' /\ DataType'
      BY <1>1, <1>4, <3>1 DEF SaveRewritten, HeaderType, DataType, Point,
        DeletePoint
    <3> QED
      BY <1>1, <3>1, <3>2, QuietStep DEF Quiet, DataPoint
  <2> QED
    BY <1>4, <2>1, <2>2 DEF SaveRewritten
<1>5. CASE SaveUndone
  <2>1. HeaderType' /\ DataType' /\ pc' = "done"
    BY <1>5 DEF SaveUndone, Return, HeaderType, DataType, RewriteFrame, Point
  <2> QED
    BY <1>1, <2>1, QuietStep DEF Quiet, DataPoint
<1> QED
  BY <1>2, <1>3, <1>4, <1>5 DEF SaveNext

\* The first page of a load does.
LEMMA LoadStartStep ==
  ASSUME IInv, LoadStart, UNCHANGED fmt
  PROVE  IInv'
<1> USE DEF IInv, TypeOK
<1>1. /\ DeviceType' /\ ChainsForward' /\ UNCHANGED <<h, s, call, d, w, fmt>>
      /\ call \in Call /\ fmt' \in 0 .. PagesCount
  BY DEF LoadStart, device, DeviceType, ChainsForward, DataType
<1>2. pc' \in {"done", "l_copy"} /\ st' \in Status
  BY DEF LoadStart, Return, Goto, HeaderType, Status
<1>3. l' \in LoadFrame
  <2>1. CASE UNCHANGED l
    BY <2>1 DEF DataType
  <2>2. CASE /\ LoadsAsStart(mem, call.addr)
             /\ l' = [NoLoad EXCEPT !.at = call.addr, !.page = mem[call.addr]]
    <3>1. call.addr \in Addr /\ mem[call.addr] \in Page
      BY <2>2 DEF LoadsAsStart, Readable, DeviceType, Image
    <3>2. NoLoad \in LoadFrame
      BY FrameTypes
    <3> QED
      BY <2>2, <3>1, <3>2 DEF LoadFrame
  <2> QED
    BY <2>1, <2>2 DEF LoadStart
<1>4. HeaderType' /\ DataType'
  BY <1>1, <1>2, <1>3 DEF HeaderType, DataType, Point, DataPoint
<1> QED
  BY <1>1, <1>2, <1>4, QuietStep DEF Quiet, DataPoint

\* A round of a load does.
LEMMA LoadCopyStep ==
  ASSUME IInv, LoadCopy, UNCHANGED fmt
  PROVE  IInv'
<1> USE DEF IInv, TypeOK
<1> DEFINE got == Append(l.got, l.page)
<1>1. /\ DeviceType' /\ ChainsForward' /\ UNCHANGED <<h, s, call, w, fmt>>
      /\ l \in LoadFrame /\ fmt' \in 0 .. PagesCount /\ pc = "l_copy"
  BY DEF LoadCopy, device, DeviceType, ChainsForward, DataType
<1>2. got \in Seq(Page) /\ l.page \in Page /\ l.page.key \in Key
  BY <1>1 DEF LoadFrame, Page
<1> HIDE DEF got
<1>3. CASE /\ NextLoads /\ UNCHANGED <<control, d>>
           /\ l' = [at |-> l.page.next, page |-> mem[l.page.next], got |-> got]
  <2>1. l.page.next \in Addr /\ mem[l.page.next] \in Page
    BY <1>3 DEF NextLoads, Readable, DeviceType, Image
  <2>2. l' \in LoadFrame
    BY <1>2, <1>3, <2>1 DEF LoadFrame
  <2>3. HeaderType' /\ DataType'
    BY <1>1, <1>3, <2>2 DEF control, HeaderType, DataType
  <2> QED
    BY <1>1, <1>3, <2>3, QuietStep DEF Quiet, DataPoint, control
<1>4. CASE /\ l' = [l EXCEPT !.got = got]
           /\ UNCHANGED d
           /\ pc' = "done" /\ st' \in {"OK", "NOT_FOUND", "BUSY"}
  <2>1. l' \in LoadFrame
    BY <1>1, <1>2, <1>4 DEF LoadFrame
  <2>2. HeaderType' /\ DataType'
    BY <1>1, <1>4, <2>1 DEF HeaderType, DataType, Point, Status
  <2> QED
    BY <1>1, <1>4, <2>2, QuietStep DEF Quiet, DataPoint
<1>5. CASE l' = [l EXCEPT !.got = got] /\ Delete(l.page.key, "l_deleted")
  <2>1. l' \in LoadFrame
    BY <1>1, <1>2, <1>5 DEF LoadFrame
  <2>2. d' \in DeleteFrame /\ pc' = "d_block" /\ st' = st
    BY <1>2, <1>5, DeleteStep DEF DeleteReturn
  <2>3. HeaderType' /\ DataType'
    BY <1>1, <2>1, <2>2 DEF HeaderType, DataType, Point, DeletePoint
  <2> QED
    BY <1>1, <2>2, <2>3, QuietStep DEF Quiet, DataPoint
<1> QED
  BY <1>3, <1>4, <1>5 DEF LoadCopy, Return, got

\* The steps of load do.
LEMMA LoadStep ==
  ASSUME IInv, LoadNext, UNCHANGED fmt
  PROVE  IInv'
<1>1. CASE LoadDeleted
  <2>1. /\ UNCHANGED <<device, h, s, call, d, w, l, fmt>>
        /\ pc' = "done" /\ st' = "NOT_FOUND"
    BY <1>1 DEF LoadDeleted, Return
  <2>2. DeviceType' /\ ChainsForward' /\ DataType' /\ fmt' \in 0 .. PagesCount
    BY <2>1 DEF IInv, TypeOK, device, DeviceType, ChainsForward, DataType
  <2>3. HeaderType'
    BY <2>1 DEF IInv, TypeOK, HeaderType, Point, Status
  <2> QED
    BY <2>1, <2>2, <2>3, QuietStep DEF Quiet, DataPoint
<1> QED
  BY <1>1, LoadStartStep, LoadCopyStep DEF LoadNext

\* The steps of clearAddress do.
LEMMA ClearStep ==
  ASSUME IInv, ClearNext, UNCHANGED fmt
  PROVE  IInv'
<1> USE DEF IInv, TypeOK
<1>1. /\ DeviceType' /\ ChainsForward' /\ UNCHANGED <<h, s, call, w, fmt>>
      /\ fmt' \in 0 .. PagesCount
  BY DEF ClearNext, ClearStart, ClearLoad, device, DeviceType, ChainsForward
<1>2. CASE ClearStart
  <2>1. UNCHANGED d /\ pc' \in {"done", "c_load"} /\ st' \in Status
    BY <1>2 DEF ClearStart, Return, Goto, HeaderType, Status
  <2>2. \E at \in Addr : l' = l \/ l' = [l EXCEPT !.at = at]
    BY <1>2, Geometry DEF ClearStart, Addr
  <2>3. l' \in LoadFrame
    BY <2>2 DEF DataType, LoadFrame
  <2>4. HeaderType' /\ DataType'
    BY <1>1, <2>1, <2>3 DEF HeaderType, DataType, Point, DataPoint
  <2> QED
    BY <1>1, <2>1, <2>4, QuietStep DEF Quiet, DataPoint
<1>3. CASE ClearLoad
  <2>1. CASE UNCHANGED d /\ pc' = "done" /\ st' \in {"BUSY", "ERROR"}
    <3>1. HeaderType' /\ DataType'
      BY <1>1, <1>3, <2>1 DEF ClearLoad, HeaderType, DataType, Point, Status
    <3> QED
      BY <1>1, <2>1, <3>1, QuietStep DEF Quiet, DataPoint
  <2>2. CASE Readable(mem, l.at) /\ Delete(mem[l.at].key, "done")
    <3>1. mem[l.at].key \in Key
      BY <2>2 DEF Readable, DeviceType, Image, Page
    <3>2. d' \in DeleteFrame /\ pc' = "d_block" /\ st' = st
      BY <2>2, <3>1, DeleteStep DEF DeleteReturn
    <3>3. HeaderType' /\ DataType'
      BY <1>1, <1>3, <3>2 DEF ClearLoad, HeaderType, DataType, Point,
        DeletePoint
    <3> QED
      BY <1>1, <3>2, <3>3, QuietStep DEF Quiet, DataPoint
  <2> QED
    BY <1>3, <2>1, <2>2 DEF ClearLoad, Return
<1> QED
  BY <1>2, <1>3 DEF ClearNext
\* The steps of format do.
LEMMA FormatStep ==
  ASSUME IInv, FormatNext
  PROVE  IInv'
<1> USE DEF IInv, TypeOK
<1>1. /\ UNCHANGED <<s, call, d, w, l>> /\ SearchType' /\ DataType'
      /\ fmt \in 0 .. PagesCount
  BY DEF FormatNext, FormatBlock, FormatHeader, FormatSaved, FormatErase,
    SearchType, DataType
<1>2. At({"m_header", "m_saved", "m_erase"}) => fmt + 1 \in 0 .. PagesCount
  BY <1>1, MacroblockInRange, Geometry DEF LoopsBounded
<1>3. DeviceType' /\ ChainsForward'
  <2>1. CASE UNCHANGED device
    BY <2>1 DEF device, DeviceType, ChainsForward
  <2>2. CASE \E status \in {"OK", "BUSY", "ERROR"} : ErasePages(FormatPages, status)
    BY <2>2, ErasePagesStep
  <2> QED
    BY <2>1, <2>2 DEF FormatNext, FormatBlock, FormatHeader, FormatSaved,
      FormatErase
<1>4. CASE FormatBlock
  <2>1. CASE fmt < MacroblocksCount /\ LoadHeader(fmt, "m_header")
    <3>1. fmt \in Macroblock
      BY <1>1, <2>1, MacroblockInRange
    <3>2. HeaderType' /\ pc' = "h_load" /\ st' = st /\ h'.back = "m_header"
      BY <2>1, <3>1, LoadHeaderStep DEF HeaderType, HeaderReturn
    <3> QED
      BY <1>1, <1>3, <1>4, <2>1, <3>2 DEF FormatBlock, LoopsBounded,
        SearchForward, At, Within, HeaderPoint, SearchPoint
  <2>2. CASE Return("OK", "done") /\ UNCHANGED h
    <3>1. HeaderType' /\ fmt' \in 0 .. PagesCount
      BY <1>1, <1>4, <2>2 DEF FormatBlock, Return, HeaderType, Point, Status
    <3> QED
      BY <1>1, <1>3, <2>2, <3>1, QuietStep DEF Quiet, DataPoint, Return
  <2> QED
    BY <1>4, <2>1, <2>2 DEF FormatBlock
<1>5. CASE FormatHeader
  <2>1. pc = "m_header" /\ fmt' = fmt /\ fmt < MacroblocksCount
    BY <1>5 DEF FormatHeader, LoopsBounded, At
  <2>2. CASE Return(st, "done") /\ UNCHANGED h
    <3>1. HeaderType'
      BY <2>2 DEF Return, HeaderType, Point
    <3> QED
      BY <1>1, <1>3, <2>1, <2>2, <3>1, QuietStep DEF Quiet, DataPoint, Return
  <2>3. CASE SaveHeader(fmt, [h.page EXCEPT !.toc = Formatted(@)], "m_saved")
    <3>1. fmt \in Macroblock
      BY <1>1, <2>1, MacroblockInRange
    <3>2. [h.page EXCEPT !.toc = Formatted(@)] \in Page
      <4>1. h.page \in Page /\ h.page.toc \in Toc
        BY DEF HeaderType, HeaderFrame, Page
      <4>2. Formatted(h.page.toc) \in Toc
        BY <4>1, ConstantTypes DEF Formatted, FormattedUnit, Toc, Unit
      <4> QED
        BY <4>1, <4>2 DEF Page
    <3>3. HeaderType' /\ pc' = "h_save" /\ st' = st /\ h'.back = "m_saved"
      BY <2>3, <3>1, <3>2, SaveHeaderStep DEF HeaderType, HeaderReturn
    <3> QED
      BY <1>1, <1>3, <2>1, <3>3 DEF LoopsBounded, SearchForward, At, Within,
        HeaderPoint, SearchPoint
  <2> QED
    BY <1>5, <2>2, <2>3 DEF FormatHeader
<1>6. CASE FormatSaved
  <2>1. /\ pc = "m_saved" /\ UNCHANGED h /\ fmt' \in 0 .. PagesCount
        /\ fmt < MacroblocksCount
    BY <1>1, <1>2, <1>6 DEF FormatSaved, LoopsBounded, At
  <2>2. /\ HeaderType'
        /\ pc' \in {"m_block", "done"} \/ (pc' = "m_erase" /\ fmt' = fmt)
    BY <1>6, <2>1 DEF FormatSaved, Goto, Return, HeaderType, Point,
      FormatPoint, Status
  <2>3. CASE pc' \in {"m_block", "done"}
    BY <1>1, <1>3, <2>1, <2>2, <2>3, QuietStep DEF Quiet, DataPoint
  <2>4. CASE pc' = "m_erase" /\ fmt' = fmt
    BY <1>1, <1>3, <2>1, <2>2, <2>4 DEF LoopsBounded, SearchForward, At,
      Within, HeaderPoint, SearchPoint
  <2> QED
    BY <2>2, <2>3, <2>4
<1>7. CASE FormatErase
  <2>1. /\ UNCHANGED h /\ fmt' \in 0 .. PagesCount
        /\ HeaderType' /\ pc' \in {"m_block", "done"}
    BY <1>1, <1>2, <1>7 DEF FormatErase, At, Goto, Return, HeaderType, Point,
      FormatPoint, Status
  <2> QED
    BY <1>1, <1>3, <2>1, QuietStep DEF Quiet, DataPoint
<1> QED
  BY <1>4, <1>5, <1>6, <1>7 DEF FormatNext

-----------------------------------------------------------------------------
(* The end of a call, the loss of power, the drive and the client.         *)

\* A library that has forgotten its call satisfies the invariant.
LEMMA ForgetStep ==
  ASSUME IInv, Forget, DeviceType', ChainsForward'
  PROVE  IInv'
<1>1. HeaderType' /\ SearchType' /\ DataType'
  BY FrameTypes DEF Forget, HeaderType, Point, Status, SearchType, DataType
<1>2. fmt' \in 0 .. PagesCount
  BY Geometry DEF Forget
<1>3. LoopsBounded'
  BY DEF Forget, LoopsBounded, At, Within, HeaderPoint, SearchPoint
<1>4. SearchForward'
  BY NoSearchForward DEF Forget, SearchForward, At, Within, HeaderPoint,
    SearchPoint, NoRewrite
<1> QED
  BY <1>1, <1>2, <1>3, <1>4 DEF IInv, TypeOK

\* So does one that lost power while pages were being changed.
LEMMA CrashStep ==
  ASSUME IInv, Crash
  PROVE  IInv'
<1> USE DEF IInv, TypeOK
<1>1. /\ \E S : mem' = Erased(mem, S)
      /\ busy' = FALSE /\ worn' = worn
      /\ spent' = [spent EXCEPT !.crash = @ + 1]
  BY DEF Crash, PowerLoss
<1>2. mem' \in Image /\ ChainsForward'
  BY <1>1, ErasedForward
<1>3. spent' \in [busy : Nat, decay : Nat, crash : Nat]
  BY <1>1 DEF DeviceType
<1>4. worn' \in SUBSET Addr /\ busy' \in BOOLEAN
  BY <1>1 DEF DeviceType
<1>5. DeviceType'
  BY <1>2, <1>3, <1>4 DEF DeviceType
<1> QED
  BY <1>2, <1>5, ForgetStep DEF Crash

\* What the drive does by itself preserves the invariant.
LEMMA DriveStep ==
  ASSUME IInv, Drive
  PROVE  IInv'
<1> USE DEF IInv, TypeOK
<1>1. UNCHANGED <<pc, st, h, s, call, d, w, l, fmt>> /\ DeviceNext
  BY DEF Drive, control, frames
<1>2. DeviceType' /\ ChainsForward'
  <2> USE DEF DeviceType, Image, ChainsForward, DataAddr
  <2>1. CASE TurnBusy
    <3>1. spent' \in [busy : Nat, decay : Nat, crash : Nat]
      BY <2>1 DEF TurnBusy
    <3> QED
      BY <2>1, <3>1 DEF TurnBusy
  <2>2. CASE TurnReady
    BY <2>2 DEF TurnReady
  <2>3. CASE \E a \in Addr : Wear(a)
    BY <2>3 DEF Wear
  <2>4. CASE \E a \in Addr : Decay(a)
    <3>1. spent' \in [busy : Nat, decay : Nat, crash : Nat]
      BY <2>4 DEF Decay
    <3>2. mem' \in Image
      BY <2>4 DEF Decay
    <3>3. ChainsForward'
      BY <2>4 DEF Decay
    <3> QED
      BY <2>4, <3>1, <3>2, <3>3 DEF Decay
  <2> QED
    BY <1>1, <2>1, <2>2, <2>3, <2>4 DEF DeviceNext
<1>3. HeaderType' /\ SearchType' /\ DataType'
  BY <1>1 DEF HeaderType, SearchType, DataType
<1>4. LoopsBounded' /\ SearchForward'
  BY <1>1 DEF LoopsBounded, SearchForward, At, Within
<1> QED
  BY <1>1, <1>2, <1>3, <1>4
\* So does a step of something else.
LEMMA StutterStep ==
  ASSUME IInv, UNCHANGED vars
  PROVE  IInv'
BY DEF vars, device, control, frames, IInv, TypeOK, DeviceType, HeaderType,
  SearchType, DataType, LoopsBounded, SearchForward, At, Within, ChainsForward

\* A call that enters the library, or is refused, preserves the invariant.
LEMMA CallStep ==
  ASSUME IInv, UNCHANGED <<device, h, s, w, l, fmt>>, call' \in Call,
         d' \in DeleteFrame, pc' \in Quiet, st' \in Status
  PROVE  IInv'
<1> USE DEF IInv, TypeOK
<1>1. DeviceType' /\ ChainsForward' /\ fmt' \in 0 .. PagesCount
  BY DEF device, DeviceType, ChainsForward
<1>2. HeaderType' /\ DataType'
  BY DEF HeaderType, DataType, Quiet, Point, DeletePoint, RewritePoint,
    FormatPoint
<1> QED
  BY <1>1, <1>2, QuietStep

\* A find that enters the library does.
LEMMA FindStep ==
  ASSUME IInv, NEW mode \in SearchMode, NEW key \in Key, Find(mode, key)
  PROVE  IInv'
<1> USE DEF IInv, TypeOK
<1>1. /\ DeviceType' /\ ChainsForward' /\ UNCHANGED <<h, d, w, l, fmt>>
      /\ call' = [NoCall EXCEPT !.op = "find", !.mode = mode, !.key = key]
  BY DEF Find, device, DeviceType, ChainsForward
<1>2. call' \in Call
  BY <1>1, FrameTypes DEF Call, Operation
<1>3. /\ s' \in SearchFrame /\ pc' = "s_block" /\ st' = st
      /\ s'.back = "done" /\ s'.from = 0 /\ s'.found = None
      /\ MacroblockIndex(s'.from) <= s'.mb
  <2>1. "done" \in SearchReturn /\ 0 \in 0 .. PagesCount
    BY Geometry DEF SearchReturn
  <2> QED
    BY <2>1, SearchStep DEF Find
<1>4. HeaderType' /\ SearchType' /\ DataType'
  BY <1>1, <1>2, <1>3 DEF HeaderType, SearchType, DataType, Point, SearchPoint
<1> QED
  BY <1>1, <1>3, <1>4 DEF LoopsBounded, SearchForward, At, Within,
    HeaderPoint, SearchPoint

\* Every request of the client does.
LEMMA RequestStep ==
  ASSUME IInv, Request
  PROVE  IInv'
<1> USE DEF IInv, TypeOK
<1>1. /\ ClientAddrs \subseteq Addr /\ ClientKeys \subseteq Key
      /\ ClientLens \subseteq 0 .. MaxLen
  BY ClientAssumption, ConstantTypes
<1>2. d \in DeleteFrame /\ NoCall \in Call
  BY FrameTypes DEF DataType
<1>3. ASSUME NEW mode \in SearchMode, NEW key \in Key, Find(mode, key)
      PROVE  IInv'
  BY <1>3, FindStep
<1>4. ASSUME NEW addr \in Addr, NEW len \in 0 .. MaxLen, Load(addr, len)
      PROVE  IInv'
  <2>1. [NoCall EXCEPT !.op = "load", !.addr = addr, !.len = len] \in Call
    BY <1>2 DEF Call, Operation
  <2> QED
    BY <1>2, <1>4, <2>1, CallStep DEF Load, Enter, Refuse, Return, Quiet,
      DataPoint, Status
<1>5. ASSUME NEW op \in {"save", "rewrite"}, NEW addr \in Addr, NEW key \in Key,
             NEW val \in Values, NEW len \in 0 .. MaxLen,
             NEW point \in {"v_start", "w_start"},
             Write(op, addr, key, val, len, point)
      PROVE  IInv'
  <2>1. [NoCall EXCEPT !.op = op, !.addr = addr, !.key = key, !.val = val,
                       !.len = len] \in Call
    BY <1>2 DEF Call, Operation
  <2> QED
    BY <1>2, <1>5, <2>1, CallStep DEF Write, Enter, Refuse, Return, Quiet,
      DataPoint, Status
<1>6. ASSUME NEW key \in Key, DeleteData(key)
      PROVE  IInv'
  <2>1. [NoCall EXCEPT !.op = "delete", !.key = key] \in Call
    BY <1>2 DEF Call, Operation
  <2>2. d' \in DeleteFrame /\ pc' = "d_block" /\ st' = st
    BY <1>6, DeleteStep DEF DeleteData, DeleteReturn
  <2> QED
    BY <1>6, <2>1, <2>2, CallStep DEF DeleteData, HeaderType, Quiet
<1>7. ASSUME NEW addr \in Addr, ClearAddress(addr)
      PROVE  IInv'
  <2>1. [NoCall EXCEPT !.op = "clear", !.addr = addr] \in Call
    BY <1>2 DEF Call, Operation
  <2> QED
    BY <1>2, <1>7, <2>1, CallStep DEF ClearAddress, Enter, Quiet, DataPoint,
      Status
<1>8. ASSUME Format
      PROVE  IInv'
  <2>1. [NoCall EXCEPT !.op = "format"] \in Call
    BY <1>2 DEF Call, Operation
  <2> QED
    BY <1>2, <1>8, <2>1, CallStep DEF Format, Enter, Quiet, Status
<1>9. "EMPTY" \in SearchMode /\ NoKey \in Key
  BY ConstantTypes DEF SearchMode
<1> QED
  BY <1>1, <1>3, <1>4, <1>5, <1>6, <1>7, <1>8, <1>9 DEF Request, Save, Rewrite

\* Every step of the library does.
LEMMA LibraryStep ==
  ASSUME IInv, Library
  PROVE  IInv'
<1>1. CASE DataNext /\ UNCHANGED fmt
  <2>1. CASE HeaderNext /\ UNCHANGED <<s, call, d, w, l>>
    BY <1>1, <2>1, HeaderLoadStep, HeaderSaveStep DEF HeaderNext
  <2>2. CASE SearchNext /\ UNCHANGED <<call, d, w, l>>
    BY <1>1, <2>2, SearchBlockStep, SearchHeaderStep, SearchUnitStep DEF
      SearchNext
  <2>3. CASE DeleteNext
    BY <1>1, <2>3, DeleteBlockStep, DeleteHeaderStep, DeleteSavedStep,
      DeleteEraseStep DEF DeleteNext
  <2>4. CASE RewriteEraseNext
    BY <1>1, <2>4, RewriteStartStep, RewriteDeletedStep, RewriteHeaderStep,
      RewriteTargetStep, RewriteEraseStep, RewriteRestStep DEF
      RewriteEraseNext
  <2>5. CASE RewriteWriteNext
    BY <1>1, <2>5, RewriteNextStep, RewriteFoundStep, RewriteSwitchStep,
      RewriteReloadStep, RewritePageStep, RewriteEndStep DEF RewriteWriteNext
  <2>6. CASE SaveNext \/ LoadNext \/ ClearNext
    BY <1>1, <2>6, SaveStep, LoadStep, ClearStep
  <2> QED
    BY <1>1, <2>1, <2>2, <2>3, <2>4, <2>5, <2>6 DEF DataNext
<1>2. CASE FormatNext
  BY <1>2, FormatStep
<1>3. CASE Answer
  <2>1. UNCHANGED device /\ Forget
    BY <1>3 DEF Answer
  <2>2. DeviceType' /\ ChainsForward'
    BY <2>1 DEF IInv, TypeOK, device, DeviceType, ChainsForward
  <2> QED
    BY <2>1, <2>2, ForgetStep
<1> QED
  BY <1>1, <1>2, <1>3 DEF Library

\* The invariant is inductive.
LEMMA NextIInv ==
  ASSUME IInv, [Next]_vars
  PROVE  IInv'
BY RequestStep, LibraryStep, DriveStep, CrashStep, StutterStep DEF Next

-----------------------------------------------------------------------------
(* What holds in every reachable state.                                    *)

\* The invariant holds in every reachable state.
LEMMA Inductive == Spec => []IInv
<1>1. Init => IInv
  BY InitIInv
<1>2. IInv /\ [Next]_vars => IInv'
  BY NextIInv
<1> QED
  BY <1>1, <1>2, PTL DEF Spec

\* Every value the library and the drive hold is of its type: addresses stay
\* in the storage, lengths in their bounds, every page has the shape of one.
THEOREM TypeCorrect == Spec => []TypeOK
<1>1. IInv => TypeOK
  BY DEF IInv
<1> QED
  BY <1>1, Inductive, PTL

\* The chain of every record leads forward through the drive: a page of data
\* (StoragePage.cpp, StorageData.cpp rewrite) links to no page after it as its
\* previous one, and to none before it as its next one, whatever was
\* interrupted, failed or was lost.  A load that follows links terminates.
THEOREM LinksForward == Spec => []ChainsForward
<1>1. IInv => ChainsForward
  BY DEF IInv
<1> QED
  BY <1>1, Inductive, PTL

\* The loops over macroblocks, pages to erase and pages to write are inside
\* their bounds at every point within them, and a search that returns success
\* has a result: rewrite erases and writes addresses without checking them.
THEOREM LoopsStayInside == Spec => []LoopsBounded
<1>1. IInv => LoopsBounded
  BY DEF IInv
<1> QED
  BY <1>1, Inductive, PTL

\* A search never returns a page before the address it was asked to start at,
\* and the page a rewrite is at lies between its neighbours.
THEOREM SearchesGoForward == Spec => []SearchForward
<1>1. IInv => SearchForward
  BY DEF IInv
<1> QED
  BY <1>1, Inductive, PTL

-----------------------------------------------------------------------------
(* Sectors.                                                                *)

\* A later page of the same sector has a larger place in it.
LEMMA LaterInSector ==
  ASSUME NEW a \in Nat, NEW b \in Nat, a < b, Sector(a) = Sector(b)
  PROVE  (a % SectorPages) + 1 <= b % SectorPages
<1>1. SectorPages \in Nat /\ 0 < SectorPages
  BY GeometryAssumption
<1> DEFINE start == SectorPages * (a \div SectorPages)
<1>2. /\ a = start + (a % SectorPages)
      /\ a \div SectorPages \in Nat /\ a % SectorPages \in Nat
  BY <1>1, DivMod
<1>3. /\ b = (SectorPages * (b \div SectorPages)) + (b % SectorPages)
      /\ b % SectorPages \in Nat
  BY <1>1, DivMod
<1>4. a \div SectorPages = b \div SectorPages
  BY DEF Sector
<1>5. b = start + (b % SectorPages) /\ start \in Nat
  BY <1>1, <1>2, <1>3, <1>4
<1> HIDE DEF start
<1> QED
  BY <1>2, <1>3, <1>5

\* A place in a sector is one of its pages.
LEMMA PlaceInSector ==
  ASSUME NEW a \in Nat
  PROVE  a % SectorPages \in Nat /\ (a % SectorPages) + 1 <= SectorPages
  BY GeometryAssumption

-----------------------------------------------------------------------------
(* The steps that leave the array alone.                                   *)

\* A step that leaves the array and the page it is at, and starts no search
\* for the next one, preserves the invariant.
LEMMA BatchKept ==
  ASSUME BatchInSector, w'.batch = w.batch, w'.erase = w.erase,
         pc' # "w_target",
         s'.back # "w_target" \/ (s'.back = s.back /\ s'.from = s.from)
  PROVE  BatchInSector'
BY DEF BatchInSector

\* Loading and saving headers preserves it.
LEMMA HeaderBatch ==
  ASSUME TypeOK, BatchInSector, HeaderNext, UNCHANGED <<s, call, d, w, l>>
  PROVE  BatchInSector'
<1>1. pc # "w_target" /\ h.back # "w_target"
  BY DEF HeaderNext, HeaderLoad, HeaderSave, TypeOK, HeaderType, HeaderFrame,
    HeaderReturn
<1>2. pc' # "w_target"
  BY <1>1 DEF HeaderNext, HeaderLoad, HeaderSave, Return, Goto, control
<1> QED
  BY <1>2, BatchKept

\* So do the steps of a search: it keeps its start, and the point that waits
\* for it.
LEMMA SearchBatch ==
  ASSUME TypeOK, BatchInSector, SearchNext, UNCHANGED <<call, d, w, l>>
  PROVE  BatchInSector'
<1>1. s \in SearchFrame
  BY DEF TypeOK, SearchType
<1>2. s'.back = s.back /\ s'.from = s.from
  BY <1>1 DEF SearchFrame, SearchNext, SearchBlock, SearchHeader, SearchUnit
<1>3. pc \in SearchPoint
  BY DEF SearchNext, SearchBlock, SearchHeader, SearchUnit, SearchPoint
<1>4. pc' = "w_target" => s.back = "w_target"
  BY <1>3 DEF SearchPoint, SearchNext, SearchBlock, SearchHeader, SearchUnit,
    Return, Goto, LoadHeader, control
<1> QED
  BY <1>2, <1>4 DEF BatchInSector

\* So do those of a delete.
LEMMA DeleteBatch ==
  ASSUME TypeOK, BatchInSector, DeleteNext
  PROVE  BatchInSector'
<1>1. d.back # "w_target"
  BY DEF TypeOK, DataType, DeleteFrame, DeleteReturn
<1>2. UNCHANGED <<s, w>> /\ pc' # "w_target"
  BY <1>1 DEF DeleteNext, DeleteBlock, DeleteHeader, DeleteSaved, DeleteErase,
    LoadHeader, SaveHeader, Return, Goto
<1> QED
  BY <1>2, BatchKept

\* So do those of save, load and clearAddress.
LEMMA DataBatch ==
  ASSUME TypeOK, BatchInSector, SaveNext \/ LoadNext \/ ClearNext
  PROVE  BatchInSector'
<1>1. CASE SaveNext
  <2>1. s' = s /\ w'.batch = w.batch /\ w'.erase = w.erase /\ pc' # "w_target"
    BY <1>1 DEF TypeOK, DataType, RewriteFrame, SaveNext, SaveStart, SaveCheck,
      SaveRewritten, SaveUndone, LoadHeader, Delete, Return, Goto
  <2> QED
    BY <2>1, BatchKept
<1>2. CASE LoadNext
  <2>1. UNCHANGED <<s, w>> /\ pc' # "w_target"
    BY <1>2 DEF LoadNext, LoadStart, LoadCopy, LoadDeleted, Delete, Return,
      Goto, control
  <2> QED
    BY <2>1, BatchKept
<1>3. CASE ClearNext
  <2>1. UNCHANGED <<s, w>> /\ pc' # "w_target"
    BY <1>3 DEF ClearNext, ClearStart, ClearLoad, Delete, Return, Goto
  <2> QED
    BY <2>1, BatchKept
<1> QED
  BY <1>1, <1>2, <1>3

\* So do those of format.
LEMMA FormatBatch ==
  ASSUME TypeOK, BatchInSector, FormatNext
  PROVE  BatchInSector'
<1>1. UNCHANGED <<s, w>>
  BY DEF FormatNext, FormatBlock, FormatHeader, FormatSaved, FormatErase
<1>2. pc' # "w_target"
  <2>1. CASE FormatBlock \/ FormatHeader
    BY <2>1 DEF FormatBlock, FormatHeader, LoadHeader, SaveHeader, Return
  <2>2. CASE FormatSaved \/ FormatErase
    BY <2>2 DEF FormatSaved, FormatErase, Return, Goto
  <2> QED
    BY <2>1, <2>2 DEF FormatNext
<1> QED
  BY <1>1, <1>2, BatchKept

\* So do the steps of rewrite that write.
LEMMA WriteBatch ==
  ASSUME TypeOK, BatchInSector, RewriteWriteNext
  PROVE  BatchInSector'
<1>1. w \in RewriteFrame /\ NoSearch.back # "w_target" /\ RewriteBack # "w_target"
  BY DEF TypeOK, DataType, NoSearch, RewriteBack
<1>2. w'.batch = w.batch /\ w'.erase = w.erase
  BY <1>1 DEF RewriteFrame, RewriteWriteNext, RewriteNext, RewriteFound,
    RewriteSwitch, RewriteReload, RewritePage, RewriteEnd, PageWritten,
    PageBlocked
<1>3. pc' # "w_target"
  BY <1>1 DEF RewriteWriteNext, RewriteNext, RewriteFound, RewriteSwitch,
    RewriteReload, RewritePage, RewriteEnd, Search, LoadHeader, SaveHeader,
    Return, Goto
<1>4. s'.back # "w_target" \/ (s'.back = s.back /\ s'.from = s.from)
  BY <1>1 DEF RewriteWriteNext, RewriteNext, RewriteFound, RewriteSwitch,
    RewriteReload, RewritePage, RewriteEnd, Search, NoSearch
<1> QED
  BY <1>2, <1>3, <1>4, BatchKept

-----------------------------------------------------------------------------
(* The steps that fill and empty the array.                                *)

\* Where the loop goes on: a search from after the page it is at, or none.
LEMMA EraseMoreBatch ==
  ASSUME TypeOK, EraseMore(w'), Len(w'.batch) <= (w'.erase % SectorPages) + 1
  PROVE  BatchInSector'
<1>1. CASE Search("EMPTY", call.key, w'.erase + 1, "w_target")
  <2>1. pc' = "s_block" /\ s'.from = w'.erase + 1
    BY <1>1 DEF Search, NoSearch
  <2> QED
    BY <2>1 DEF BatchInSector
<1>2. CASE Goto("w_rest") /\ s' = NoSearch
  <2>1. pc' = "w_rest" /\ s'.back = "idle"
    BY <1>2 DEF Goto, NoSearch
  <2> QED
    BY <2>1 DEF BatchInSector
<1> QED
  BY <1>1, <1>2 DEF EraseMore

\* The array starts with the first page of the record.
LEMMA HeaderStartBatch ==
  ASSUME TypeOK, BatchInSector, RewriteHeader
  PROVE  BatchInSector'
<1>1. CASE st # "OK"
  <2>1. UNCHANGED <<s, w>> /\ pc' # "w_target"
    BY <1>1 DEF RewriteHeader, Return, RewriteBack
  <2> QED
    BY <2>1, BatchKept
<1>2. CASE st = "OK"
  <2>1. /\ w'.batch = <<call.addr>> /\ w'.erase = call.addr
        /\ EraseMore(w')
    BY <1>2 DEF RewriteHeader, NoRewrite
  <2>2. call.addr \in Nat
    BY DEF TypeOK, DataType, Call, Addr
  <2>3. Len(w'.batch) <= (w'.erase % SectorPages) + 1
    BY <2>1, <2>2, PlaceInSector
  <2> QED
    BY <2>1, <2>3, EraseMoreBatch
<1> QED
  BY <1>1, <1>2

\* A page that joins the array comes after the last one, in its sector.
LEMMA TargetBatch ==
  ASSUME IInv, BatchInSector, RewriteTarget
  PROVE  BatchInSector'
<1> USE DEF IInv
<1>1. w \in RewriteFrame /\ s \in SearchFrame /\ pc = "w_target"
  BY DEF TypeOK, DataType, SearchType, RewriteTarget
<1>2. CASE w' = w /\ s' = NoSearch /\ pc' # "w_target"
  BY <1>2, BatchKept DEF NoSearch
<1> DEFINE f == [w EXCEPT !.target = IF st = "OK" THEN s.found ELSE 0]
<1>3. CASE BatchEnds(f) /\ w' = f /\ s' = NoSearch /\ pc' # "w_target"
  <2>1. w'.batch = w.batch /\ w'.erase = w.erase
    BY <1>1, <1>3 DEF RewriteFrame
  <2> QED
    BY <1>3, <2>1, BatchKept DEF NoSearch
<1>4. CASE ~BatchEnds(f) /\ w' = Targeted(f) /\ EraseMore(w') /\
           (st = "OK" \/ w.erased + 1 >= call.len)
  <2>1. /\ f.erased = w.erased /\ f.erase = w.erase /\ f.batch = w.batch
        /\ f.target = IF st = "OK" THEN s.found ELSE 0
    BY <1>1 DEF RewriteFrame
  <2>2. f.erased + 1 < call.len /\ Sector(f.erase) = Sector(f.target)
    BY <1>1, <1>4 DEF BatchEnds, RewriteFrame, TypeOK, DataType, Call
  <2>3. st = "OK" /\ f.target = s.found
    BY <1>1, <1>4, <2>1, <2>2 DEF RewriteFrame, TypeOK, DataType, Call
  <2>4. s.found \in Nat /\ w.erase \in Nat /\ s.from = w.erase + 1
    BY <1>1, <2>3 DEF LoopsBounded, BatchInSector, SearchFrame, RewriteFrame, Addr
  <2>5. w.erase < s.found
    BY <1>1, <2>3, <2>4 DEF LoopsBounded, SearchForward, SearchFrame
  <2>6. w'.erase = s.found /\ w'.batch = Append(w.batch, s.found)
    BY <1>1, <1>4, <2>1, <2>2, <2>3 DEF Targeted, RewriteFrame
  <2>7. Len(w'.batch) = Len(w.batch) + 1 /\ Len(w.batch) \in Nat
    BY <1>1, <2>4, <2>6 DEF RewriteFrame
  <2>8. (w.erase % SectorPages) + 1 <= s.found % SectorPages
    BY <2>1, <2>2, <2>3, <2>4, <2>5, LaterInSector
  <2>9. w.erase % SectorPages \in Nat /\ s.found % SectorPages \in Nat
    BY <2>4, PlaceInSector
  <2>10. Len(w'.batch) <= (w'.erase % SectorPages) + 1
    BY <2>6, <2>7, <2>8, <2>9 DEF BatchInSector
  <2> QED
    BY <1>4, <2>10, EraseMoreBatch
<1> QED
  BY <1>2, <1>3, <1>4 DEF RewriteTarget, Return, Goto, RewriteBack

\* After a batch was erased the array starts again, with the next page.
LEMMA EraseBatch ==
  ASSUME IInv, BatchInSector, RewriteErase
  PROVE  BatchInSector'
<1> USE DEF IInv
<1>1. w \in RewriteFrame /\ pc = "w_erase" /\ SectorPages \in Nat \ {0}
  BY GeometryAssumption DEF TypeOK, DataType, RewriteErase
<1>2. CASE UNCHANGED <<s, w>> /\ pc' = RewriteBack
  BY <1>2, BatchKept DEF RewriteBack
<1>3. CASE w' = [w EXCEPT !.batch = [j \in DOMAIN @ |-> 0]] /\ pc' = "w_rest" /\ s' = s
  <2>1. w'.erase = w.erase /\ w'.batch = [j \in DOMAIN w.batch |-> 0]
    BY <1>1, <1>3 DEF RewriteFrame
  <2>2. w.batch \in Seq(Addr)
    BY <1>1 DEF RewriteFrame
  <2>3. Len(w'.batch) = Len(w.batch)
    BY <2>1, <2>2
  <2> QED
    BY <1>3, <2>1, <2>3 DEF BatchInSector
<1>4. CASE w' = Targeted([w EXCEPT !.batch = << >>]) /\ EraseMore(w')
  <2>1. /\ w'.erase = w.target
        /\ w'.batch = << >> \/ w'.batch = <<w.target>>
    BY <1>1, <1>4 DEF Targeted, RewriteFrame
  <2>2. w.target \in Nat
    BY <1>1 DEF RewriteFrame, Addr
  <2>3. w.target % SectorPages \in Nat
    BY <2>2, PlaceInSector
  <2>4. Len(w'.batch) <= (w'.erase % SectorPages) + 1
    <3>1. CASE w'.batch = << >>
      BY <2>1, <2>3, <3>1
    <3>2. CASE w'.batch = <<w.target>>
      BY <2>1, <2>3, <3>2
    <3> QED
      BY <2>1, <3>1, <3>2
  <2> QED
    BY <1>4, <2>4, EraseMoreBatch
<1> QED
  BY <1>2, <1>3, <1>4 DEF RewriteErase, Return

\* The other steps of rewrite that come before the writes leave it alone.
LEMMA EraseNextBatch ==
  ASSUME IInv, BatchInSector, RewriteEraseNext
  PROVE  BatchInSector'
<1>1. CASE RewriteStart \/ RewriteDeleted \/ RewriteRest
  <2>1. UNCHANGED <<s, w>> /\ pc' # "w_target"
    BY <1>1 DEF RewriteStart, RewriteDeleted, RewriteRest, LoadHeader, Delete,
      Return, Goto, RewriteBack
  <2> QED
    BY <2>1, BatchKept
<1>2. TypeOK
  BY DEF IInv
<1> QED
  BY <1>1, <1>2, HeaderStartBatch, TargetBatch, EraseBatch DEF RewriteEraseNext

-----------------------------------------------------------------------------

\* A library that has forgotten its call has an empty array.
LEMMA ForgetBatch ==
  ASSUME Forget
  PROVE  BatchInSector'
<1>1. /\ w'.batch = << >> /\ w'.erase = 0 /\ s'.back = "idle" /\ pc' = "idle"
  BY DEF Forget, NoRewrite, NoSearch
<1>2. 0 % SectorPages \in Nat
  BY PlaceInSector
<1> QED
  BY <1>1, <1>2 DEF BatchInSector

\* A request of the client starts with the array it finds.
LEMMA RequestBatch ==
  ASSUME TypeOK, BatchInSector, Request
  PROVE  BatchInSector'
<1>1. ASSUME NEW mode, NEW key, Find(mode, key)
      PROVE  BatchInSector'
  <2>1. w' = w /\ pc' = "s_block" /\ s'.back = "done"
    BY <1>1 DEF Find, Search, NoSearch
  <2> QED
    BY <2>1, BatchKept
<1>2. CASE UNCHANGED <<s, w>> /\ pc' \in {"done", "l_start", "v_start", "w_start",
                                        "c_start", "m_block", "d_block"}
  BY <1>2, BatchKept
<1>3. ASSUME NEW addr, NEW len, Load(addr, len)
      PROVE  BatchInSector'
  BY <1>2, <1>3 DEF Load, Enter, Refuse, Return
<1>4. ASSUME NEW op, NEW addr, NEW key, NEW val, NEW len,
             NEW point \in {"v_start", "w_start"},
             Write(op, addr, key, val, len, point)
      PROVE  BatchInSector'
  BY <1>2, <1>4 DEF Write, Enter, Refuse, Return
<1>5. ASSUME NEW key, DeleteData(key)
      PROVE  BatchInSector'
  BY <1>2, <1>5 DEF DeleteData, Delete
<1>6. ASSUME NEW addr, ClearAddress(addr)
      PROVE  BatchInSector'
  BY <1>2, <1>6 DEF ClearAddress, Enter
<1>7. ASSUME Format
      PROVE  BatchInSector'
  BY <1>2, <1>7 DEF Format, Enter
<1> QED
  BY <1>1, <1>3, <1>4, <1>5, <1>6, <1>7 DEF Request, Save, Rewrite

\* The two invariants together are inductive.
LEMMA NextBatch ==
  ASSUME IInv, BatchInSector, [Next]_vars
  PROVE  BatchInSector'
<1>1. TypeOK
  BY DEF IInv
<1>2. CASE Request
  BY <1>1, <1>2, RequestBatch
<1>3. CASE DataNext
  BY <1>1, <1>3, HeaderBatch, SearchBatch, DeleteBatch, EraseNextBatch,
    WriteBatch, DataBatch DEF DataNext
<1>4. CASE FormatNext
  BY <1>1, <1>4, FormatBatch
<1>5. CASE Answer \/ Crash
  BY <1>5, ForgetBatch DEF Answer, Crash
<1>6. CASE UNCHANGED <<control, frames>>
  BY <1>6 DEF control, frames, BatchInSector
<1> QED
  BY <1>2, <1>3, <1>4, <1>5, <1>6 DEF Next, Library, Drive, vars

\* The array of addresses to erase (StorageData.cpp rewrite, eraseAddrs) holds
\* one sector of pages and is filled without a check of its end: it never
\* takes more pages than a sector has, whatever pages are taken, blocked or
\* lost, and wherever the record starts.
THEOREM BatchStaysInSector == Spec => []BatchFits
<1>1. Init => BatchInSector
  <2>1. 0 % SectorPages \in Nat
    BY PlaceInSector
  <2> QED
    BY <2>1 DEF Init, HeaderInit, NoSearch, NoRewrite, BatchInSector
<1>2. IInv /\ BatchInSector /\ [Next]_vars => BatchInSector'
  BY NextBatch
<1>3. IInv /\ BatchInSector => BatchFits
  <2> SUFFICES ASSUME IInv, BatchInSector PROVE BatchFits
    OBVIOUS
  <2>1. w.erase \in Nat /\ Len(w.batch) \in Nat
    BY DEF IInv, TypeOK, DataType, RewriteFrame, Addr
  <2>2. w.erase % SectorPages \in Nat /\ (w.erase % SectorPages) + 1 <= SectorPages
    BY <2>1, PlaceInSector
  <2>3. SectorPages \in Nat
    BY GeometryAssumption
  <2> QED
    BY <2>1, <2>2, <2>3 DEF BatchInSector, BatchFits
<1> QED
  BY <1>1, <1>2, <1>3, Inductive, PTL DEF Spec

-----------------------------------------------------------------------------
(* Links from pages of data lead to pages of data.                         *)

\* Pages of data link ahead to pages of data only.
DataLinks == \A a \in DataAddr : mem[a] # Bad => mem[a].next \in DataAddr

\* Searches end at pages of data, and rewrite goes on to a later page, which is
\* one of data unless it is past the last one.
FoundInData == s.found # None => s.found \in DataAddr
WriteAhead ==
  At({"w_switch", "w_reload", "w_page"}) =>
    w.cur < w.next /\ (~IsLastPage => w.next \in DataAddr)

\* So the page that load is at links to one of data that is not before it.
LoadAhead ==
  pc = "l_copy" => l.at \in DataAddr /\ l.page.next \in DataAddr /\ l.at <= l.page.next

LinksToData == DataLinks /\ FoundInData /\ WriteAhead /\ LoadAhead

\* Saving a page keeps the links, when it is no page of data or links to one.
LEMMA SaveKeepsLinks ==
  ASSUME DeviceType, DataLinks, NEW a, NEW pg, NEW status,
         SavePage(a, pg, status), a \in DataAddr => pg.next \in DataAddr
  PROVE  DataLinks'
<1>1. \/ mem' = mem
      \/ \E q \in {pg, Bad, mem[a]} : mem' = [mem EXCEPT ![a] = q]
  BY DEF SavePage, device
<1> QED
  BY <1>1 DEF DataLinks, DeviceType, Image, DataAddr

\* Erasing pages, all of a set or some, does.
LEMMA ErasedKeepsLinks ==
  ASSUME DeviceType, DataLinks, NEW S, mem' = Erased(mem, S)
  PROVE  DataLinks'
BY DEF DeviceType, Image, Erased, DataLinks, DataAddr

LEMMA EraseKeepsLinks ==
  ASSUME DeviceType, DataLinks, NEW S, NEW status, ErasePages(S, status)
  PROVE  DataLinks'
<1>1. CASE mem' = mem
  BY <1>1 DEF DataLinks
<1>2. CASE \E T : mem' = Erased(mem, T)
  BY <1>2, ErasedKeepsLinks
<1> QED
  BY <1>1, <1>2 DEF ErasePages, device

\* So do all steps that leave the drive as it is.
LEMMA SameKeepsLinks ==
  ASSUME DataLinks, UNCHANGED device
  PROVE  DataLinks'
BY DEF DataLinks, device

\* The points at which WriteAhead and LoadAhead say something.
AheadPoint == {"w_switch", "w_reload", "w_page", "l_copy"}

\* At all others they hold.
LEMMA OtherPoint ==
  ASSUME DataLinks', FoundInData',
         pc' \notin AheadPoint,
         pc' \in HeaderPoint => h'.back \notin AheadPoint
  PROVE  LinksToData'
BY DEF LinksToData, WriteAhead, LoadAhead, At, AheadPoint, HeaderPoint

\* Loading and saving headers keeps the links: no header is at a page of data.
LEMMA HeaderKeepsLinks ==
  ASSUME IInv, LinksToData, HeaderNext, UNCHANGED <<s, call, d, w, l, fmt>>
  PROVE  LinksToData'
<1>1. DataLinks'
  <2>1. CASE HeaderLoad
    BY <2>1, SameKeepsLinks DEF HeaderLoad, LinksToData
  <2>2. CASE HeaderSave
    <3>1. HeaderAddress(h.mb, h.copy) \notin DataAddr
      BY HeaderIsNotData DEF IInv, TypeOK, HeaderType, HeaderFrame, Macroblock
    <3>2. PICK status : SavePage(HeaderAddress(h.mb, h.copy), h.page, status)
      BY <2>2 DEF HeaderSave
    <3> QED
      BY <3>1, <3>2, SaveKeepsLinks DEF IInv, TypeOK, LinksToData
  <2> QED
    BY <2>1, <2>2 DEF HeaderNext
<1>2. FoundInData'
  BY DEF LinksToData, FoundInData
<1>3. /\ pc \in HeaderPoint /\ h.back \in HeaderReturn /\ h'.back = h.back
      /\ pc' \in HeaderPoint \/ pc' = h.back
  BY DEF HeaderNext, HeaderLoad, HeaderSave, Return, Goto, control, IInv, TypeOK,
    HeaderType, HeaderFrame, HeaderPoint
<1>4. WriteAhead'
  BY <1>3 DEF LinksToData, WriteAhead, At, HeaderPoint, HeaderReturn, IsLastPage
<1>5. LoadAhead'
  BY <1>3 DEF LoadAhead, HeaderPoint, HeaderReturn
<1> QED
  BY <1>1, <1>2, <1>4, <1>5 DEF LinksToData

\* Searches end at pages of data.
LEMMA SearchKeepsLinks ==
  ASSUME IInv, LinksToData, SearchNext, UNCHANGED <<call, d, w, l, fmt>>
  PROVE  LinksToData'
<1>1. DataLinks'
  BY SameKeepsLinks DEF LinksToData, SearchNext, SearchBlock, SearchHeader, SearchUnit
<1>2. FoundInData'
  <2>1. CASE s'.found = s.found
    BY <2>1 DEF LinksToData, FoundInData
  <2>2. CASE ~(s'.found = s.found)
    <3>1. s \in SearchFrame
      BY DEF IInv, TypeOK, SearchType
    <3>2. PICK i \in Index : s'.found = PageAddress(s.mb, i)
      <4>1. CASE SearchBlock
        BY <2>2, <4>1 DEF SearchBlock
      <4>2. CASE SearchHeader
        <5>1. \A i \in EmptyFrom(h.page.toc, ScanFrom) : i \in Index
          BY DEF EmptyFrom, Least
        <5> QED
          BY <2>2, <3>1, <4>2, <5>1 DEF SearchHeader, SearchFrame
      <4>3. CASE SearchUnit
        <5>1. \A i \in Least(Candidates) : i \in Index
          BY DEF Candidates, Least
        <5> QED
          BY <2>2, <3>1, <4>3, <5>1 DEF SearchUnit, SearchFrame
      <4> QED
        BY <4>1, <4>2, <4>3 DEF SearchNext
    <3>3. pc \in {"s_header", "s_unit"}
      BY <2>2 DEF SearchNext, SearchBlock, SearchHeader, SearchUnit
    <3>4. s.mb \in Nat /\ s.mb < MacroblocksCount
      BY <3>1, <3>3 DEF IInv, LoopsBounded, At, SearchFrame
    <3> QED
      BY <3>2, <3>4, AddressRoundTrip DEF FoundInData
  <2> QED
    BY <2>1, <2>2
<1>3. /\ s.back \in SearchReturn
      /\ \/ pc' \in {"s_block", "s_unit"} \/ pc' = s.back
         \/ pc' = "h_load" /\ h'.back = "s_header"
         \/ pc' = pc /\ pc \in SearchPoint
  BY DEF SearchNext, SearchBlock, SearchHeader, SearchUnit, Return, Goto, control,
    LoadHeader, NoHeader, SearchPoint, IInv, TypeOK, SearchType, SearchFrame
<1> QED
  BY <1>1, <1>2, <1>3, OtherPoint DEF AheadPoint, SearchReturn, SearchPoint, HeaderPoint

\* deleteData goes on to points of its own, or back to its caller.
LEMMA DeleteKeepsLinks ==
  ASSUME IInv, LinksToData, DeleteNext, UNCHANGED fmt
  PROVE  LinksToData'
<1>1. DataLinks'
  <2>1. CASE DeleteErase
    BY <2>1, EraseKeepsLinks DEF DeleteErase, IInv, TypeOK, LinksToData
  <2> QED
    BY <2>1, SameKeepsLinks DEF LinksToData, DeleteNext, DeleteBlock, DeleteHeader,
      DeleteSaved
<1>2. FoundInData'
  BY DEF DeleteNext, DeleteBlock, DeleteHeader, DeleteSaved, DeleteErase, LinksToData,
    FoundInData
<1>3. /\ d.back \in DeleteReturn
      /\ \/ pc' \in DeletePoint \/ pc' = d.back
         \/ pc' \in HeaderPoint /\ h'.back \in {"d_header", "d_saved"}
  BY DEF DeleteNext, DeleteBlock, DeleteHeader, DeleteSaved, DeleteErase, Return, Goto,
    LoadHeader, SaveHeader, NoHeader, DeletePoint, HeaderPoint, IInv, TypeOK, DataType,
    DeleteFrame
<1> QED
  BY <1>1, <1>2, <1>3, OtherPoint DEF AheadPoint, DeleteReturn, DeletePoint, HeaderPoint

\* A search starts without a result.
LEMMA SearchFromScratch ==
  ASSUME NEW mode, NEW key, NEW from, NEW back, Search(mode, key, from, back)
  PROVE  /\ s'.found = None /\ s'.back = back /\ s'.mb = MacroblockIndex(from)
         /\ pc' = "s_block"
BY DEF Search, NoSearch

\* The loop over the pages to erase searches from scratch.
LEMMA EraseMoreKeepsLinks ==
  ASSUME NEW f, EraseMore(f), DataLinks'
  PROVE  LinksToData'
<1>1. s'.found = None /\ pc' \in {"s_block", "w_rest"}
  <2>1. CASE Search("EMPTY", call.key, f.erase + 1, "w_target")
    BY <2>1, SearchFromScratch
  <2>2. CASE Goto("w_rest") /\ s' = NoSearch
    BY <2>2, NoSearchForward DEF Goto
  <2> QED
    BY <2>1, <2>2 DEF EraseMore
<1> QED
  BY <1>1, OtherPoint DEF AheadPoint, HeaderPoint, FoundInData

LEMMA RewriteEraseKeepsLinks ==
  ASSUME IInv, LinksToData, RewriteEraseNext, UNCHANGED fmt
  PROVE  LinksToData'
<1>1. DataLinks'
  <2>1. CASE RewriteErase
    BY <2>1, EraseKeepsLinks DEF RewriteErase, IInv, TypeOK, LinksToData
  <2>2. CASE RewriteRest
    <3>1. CASE UNCHANGED device
      BY <3>1, SameKeepsLinks DEF LinksToData
    <3>2. CASE \E status : ErasePages(BatchPages, status)
      BY <3>2, EraseKeepsLinks DEF IInv, TypeOK, LinksToData
    <3> QED
      BY <2>2, <3>1, <3>2 DEF RewriteRest
  <2> QED
    BY <2>1, <2>2, SameKeepsLinks DEF LinksToData, RewriteEraseNext, RewriteStart,
      RewriteDeleted, RewriteHeader, RewriteTarget
<1>2. CASE \E f : EraseMore(f)
  BY <1>1, <1>2, EraseMoreKeepsLinks
<1>3. CASE ~(\E f : EraseMore(f))
  <2>1. s'.found = s.found \/ s'.found = None
    BY <1>3 DEF RewriteEraseNext, RewriteStart, RewriteDeleted, RewriteHeader,
      RewriteTarget, RewriteErase, RewriteRest, NoSearch
  <2>2. \/ pc' \in {"d_block", "w_erase", "w_rest", "w_next", "v_saved", "done"}
        \/ pc' = "h_load" /\ h'.back = "w_header"
    BY <1>3 DEF RewriteEraseNext, RewriteStart, RewriteDeleted, RewriteHeader,
      RewriteTarget, RewriteErase, RewriteRest, RewriteBack, Return, Goto, Delete,
      LoadHeader, NoHeader
  <2>3. FoundInData'
    BY <2>1 DEF LinksToData, FoundInData
  <2> QED
    BY <1>1, <2>2, <2>3, OtherPoint DEF AheadPoint, HeaderPoint
<1> QED
  BY <1>2, <1>3

\* The page after the one that is written is that of a search that started after
\* it, but for the last one.
LEMMA FoundKeepsLinks ==
  ASSUME IInv, LinksToData, RewriteFound, UNCHANGED fmt
  PROVE  LinksToData'
<1>1. DataLinks'
  BY SameKeepsLinks DEF RewriteFound, LinksToData
<1>2. FoundInData'
  BY NoSearchForward DEF RewriteFound, FoundInData
<1>3. CASE Return(st, RewriteBack)
  BY <1>1, <1>2, <1>3, OtherPoint DEF Return, RewriteBack, AheadPoint, HeaderPoint
<1>4. CASE /\ st = "OK" \/ IsLastPage
           /\ w' = [w EXCEPT !.next = IF st = "OK" THEN s.found ELSE w.cur + 1]
  <2>1. w \in RewriteFrame /\ pc = "w_found" /\ call' = call
    BY DEF RewriteFound, IInv, TypeOK, DataType
  <2>2. /\ w'.cur = w.cur /\ w'.n = w.n
        /\ w'.next = IF st = "OK" THEN s.found ELSE w.cur + 1
    BY <1>4, <2>1 DEF RewriteFrame
  <2>3. st = "OK" => w.cur < s.found /\ s.found \in DataAddr
    <3>1. s.from = w.cur + 1 /\ (st = "OK" => s.found # None /\ s.from <= s.found)
      BY <2>1 DEF IInv, LoopsBounded, SearchForward, Within, At
    <3>2. st = "OK" => s.found \in DataAddr /\ s.found \in Nat
      BY <3>1 DEF LinksToData, FoundInData, DataAddr, Addr
    <3> QED
      BY <2>1, <3>1, <3>2 DEF RewriteFrame
  <2>4. w'.cur < w'.next /\ (~IsLastPage' => w'.next \in DataAddr)
    BY <1>4, <2>1, <2>2, <2>3 DEF RewriteFrame, IsLastPage
  <2>5. pc' \in {"h_save", "w_switch"}
    BY <1>4 DEF RewriteFound, SaveHeader, Return, RewriteBack, IsLastPage
  <2> QED
    BY <1>1, <1>2, <2>4, <2>5 DEF LinksToData, WriteAhead, LoadAhead
<1> QED
  BY <1>3, <1>4 DEF RewriteFound

LEMMA RewriteWriteKeepsLinks ==
  ASSUME IInv, LinksToData, RewriteWriteNext, UNCHANGED fmt
  PROVE  LinksToData'
<1>1. CASE RewriteNext
  <2>1. DataLinks'
    BY <1>1, SameKeepsLinks DEF RewriteNext, LinksToData
  <2>2. s'.found = s.found \/ s'.found = None
    BY <1>1, SearchFromScratch DEF RewriteNext
  <2>3. \/ pc' \in {"s_block", "v_saved", "done"}
        \/ pc' = "h_save" /\ h'.back = "w_end"
    BY <1>1 DEF RewriteNext, Search, SaveHeader, NoHeader, Return, RewriteBack
  <2>4. FoundInData'
    BY <2>2 DEF LinksToData, FoundInData
  <2> QED
    BY <2>1, <2>3, <2>4, OtherPoint DEF AheadPoint, HeaderPoint
<1>2. CASE RewriteFound
  BY <1>2, FoundKeepsLinks
<1>3. CASE RewriteSwitch \/ RewriteReload
  <2>1. DataLinks'
    BY <1>3, SameKeepsLinks DEF RewriteSwitch, RewriteReload, LinksToData
  <2>2. FoundInData'
    BY <1>3 DEF RewriteSwitch, RewriteReload, LinksToData, FoundInData
  <2>3. w \in RewriteFrame
    BY DEF IInv, TypeOK, DataType
  <2>4. w'.cur = w.cur /\ w'.next = w.next /\ w'.n = w.n /\ call' = call
    BY <1>3, <2>3 DEF RewriteSwitch, RewriteReload, RewriteFrame
  <2>5. pc \in {"w_switch", "w_reload"}
    BY <1>3 DEF RewriteSwitch, RewriteReload
  <2>6. WriteAhead'
    BY <2>4, <2>5 DEF LinksToData, WriteAhead, At, IsLastPage
  <2>7. pc' # "l_copy"
    BY <1>3 DEF RewriteSwitch, RewriteReload, Return, RewriteBack, Goto, LoadHeader
  <2> QED
    BY <2>1, <2>2, <2>6, <2>7 DEF LinksToData, LoadAhead
<1>4. CASE RewritePage
  <2>1. PICK status : SavePage(w.cur, CurrentPage, status)
    BY <1>4 DEF RewritePage
  <2>2. w.cur \in DataAddr => CurrentPage.next \in DataAddr
    <3>1. ~IsLastPage => w.next \in DataAddr
      BY <1>4 DEF RewritePage, LinksToData, WriteAhead, At
    <3> QED
      BY <3>1 DEF CurrentPage, DataPage
  <2>3. DataLinks'
    BY <2>1, <2>2, SaveKeepsLinks DEF IInv, TypeOK, LinksToData
  <2>4. FoundInData'
    BY <1>4 DEF RewritePage, LinksToData, FoundInData
  <2>5. pc' \in {"v_saved", "done", "w_next"}
    BY <1>4 DEF RewritePage, Return, RewriteBack
  <2> QED
    BY <2>3, <2>4, <2>5, OtherPoint DEF AheadPoint, HeaderPoint
<1>5. CASE RewriteEnd
  <2>1. DataLinks'
    BY <1>5, SameKeepsLinks DEF RewriteEnd, LinksToData
  <2>2. FoundInData' /\ pc' \in {"v_saved", "done"}
    BY <1>5 DEF RewriteEnd, Return, RewriteBack, LinksToData, FoundInData
  <2> QED
    BY <2>1, <2>2, OtherPoint DEF AheadPoint, HeaderPoint
<1> QED
  BY <1>1, <1>2, <1>3, <1>4, <1>5 DEF RewriteWriteNext

\* load starts at a page of data, and each of its pages links to one.
LEMMA LoadKeepsLinks ==
  ASSUME IInv, LinksToData, LoadNext, UNCHANGED fmt
  PROVE  LinksToData'
<1>1. UNCHANGED <<device, h, s, w>>
  BY DEF LoadNext, LoadStart, LoadCopy, LoadDeleted
<1>2. DataLinks' /\ FoundInData'
  BY <1>1, SameKeepsLinks DEF LinksToData, FoundInData
<1>3. ASSUME NEW a \in DataAddr, mem[a] # Bad
      PROVE  mem[a].next \in DataAddr /\ a <= mem[a].next
  BY <1>3 DEF LinksToData, DataLinks, IInv, ChainsForward
<1>4. CASE pc' # "l_copy"
  <2>1. pc' \in {"d_block", "done"}
    BY <1>4 DEF LoadNext, LoadStart, LoadCopy, LoadDeleted, Return, Goto, Delete, control
  <2> QED
    BY <1>2, <2>1, OtherPoint DEF AheadPoint, HeaderPoint
<1>5. CASE pc' = "l_copy"
  <2>1. PICK a \in DataAddr : mem[a] # Bad /\ l'.at = a /\ l'.page = mem[a]
    <3>1. CASE LoadStart
      <4>1. /\ ~IsMacroblockAddress(call.addr) /\ LoadsAsStart(mem, call.addr)
            /\ l' = [NoLoad EXCEPT !.at = call.addr, !.page = mem[call.addr]]
        BY <1>5, <3>1 DEF LoadStart, Return
      <4> QED
        BY <4>1 DEF NoLoad, LoadsAsStart, Readable, DataAddr
    <3>2. CASE LoadCopy
      <4>1. /\ NextLoads /\ l'.at = l.page.next /\ l'.page = mem[l.page.next]
        BY <1>5, <3>2 DEF LoadCopy, Return, Delete
      <4>2. l.page.next \in DataAddr
        BY <3>2 DEF LoadCopy, LinksToData, LoadAhead
      <4> QED
        BY <4>1, <4>2 DEF NextLoads, Readable
    <3>3. CASE LoadDeleted
      BY <1>5, <3>3 DEF LoadDeleted, Return
    <3> QED
      BY <3>1, <3>2, <3>3 DEF LoadNext
  <2>2. LoadAhead'
    BY <1>3, <2>1 DEF LoadAhead
  <2>3. WriteAhead'
    BY <1>5 DEF WriteAhead, At, HeaderPoint
  <2> QED
    BY <1>2, <2>2, <2>3 DEF LinksToData
<1> QED
  BY <1>4, <1>5

\* The steps of save, clearAddress and format are at other points.
LEMMA PlainKeepsLinks ==
  ASSUME IInv, LinksToData, SaveNext \/ ClearNext \/ FormatNext
  PROVE  LinksToData'
<1>1. DataLinks'
  <2>1. CASE FormatErase
    BY <2>1, EraseKeepsLinks DEF FormatErase, IInv, TypeOK, LinksToData
  <2>2. CASE UNCHANGED device
    BY <2>2, SameKeepsLinks DEF LinksToData
  <2> QED
    BY <2>1, <2>2 DEF SaveNext, SaveStart, SaveCheck, SaveRewritten, SaveUndone, ClearNext,
      ClearStart, ClearLoad, FormatNext, FormatBlock, FormatHeader, FormatSaved
<1>2. s' = s
  BY DEF SaveNext, SaveStart, SaveCheck, SaveRewritten, SaveUndone, ClearNext,
    ClearStart, ClearLoad, FormatNext, FormatBlock, FormatHeader, FormatSaved, FormatErase
<1>3. FoundInData'
  BY <1>2 DEF LinksToData, FoundInData
<1>4. \/ pc' \in {"done", "w_start", "d_block", "c_load"} \cup FormatPoint
      \/ pc' \in HeaderPoint /\ h'.back \in {"v_check", "m_header", "m_saved"}
  <2>1. CASE SaveNext
    BY <2>1 DEF SaveNext, SaveStart, SaveCheck, SaveRewritten, SaveUndone, Return, Goto,
      Delete, LoadHeader, NoHeader, HeaderPoint
  <2>2. CASE ClearNext
    BY <2>2 DEF ClearNext, ClearStart, ClearLoad, Return, Goto, Delete
  <2>3. CASE FormatNext
    BY <2>3 DEF FormatNext, FormatBlock, FormatHeader, FormatSaved, FormatErase, Return,
      Goto, LoadHeader, SaveHeader, NoHeader, HeaderPoint, FormatPoint
  <2> QED
    BY <2>1, <2>2, <2>3
<1> QED
  BY <1>1, <1>3, <1>4, OtherPoint DEF AheadPoint, FormatPoint, HeaderPoint

\* So do the requests of the client, and the end of a call.
LEMMA RequestKeepsLinks ==
  ASSUME LinksToData, Request
  PROVE  LinksToData'
<1> DEFINE Enters ==
      /\ UNCHANGED device
      /\ s'.found = s.found \/ s'.found = None
      /\ pc' \in {"s_block", "d_block", "done", "l_start", "v_start", "w_start", "c_start",
                  "m_block"}
<1>1. ASSUME NEW mode, NEW key, Find(mode, key) PROVE Enters
  BY <1>1, SearchFromScratch DEF Find
<1>2. ASSUME NEW addr, NEW len, Load(addr, len) PROVE Enters
  BY <1>2 DEF Load, Enter, Refuse, Return
<1>3. ASSUME NEW op, NEW addr, NEW key, NEW val, NEW len,
             NEW point \in {"v_start", "w_start"},
             Write(op, addr, key, val, len, point)
      PROVE  Enters
  BY <1>3 DEF Write, Enter, Refuse, Return
<1>4. ASSUME NEW key, DeleteData(key) PROVE Enters
  BY <1>4 DEF DeleteData, Delete
<1>5. ASSUME NEW addr, ClearAddress(addr) PROVE Enters
  BY <1>5 DEF ClearAddress, Enter
<1>6. ASSUME Format PROVE Enters
  BY <1>6 DEF Format, Enter
<1> HIDE DEF Enters
<1>7. Enters
  BY <1>1, <1>2, <1>3, <1>4, <1>5, <1>6 DEF Request, Save, Rewrite
<1>8. DataLinks' /\ FoundInData'
  BY <1>7, SameKeepsLinks DEF LinksToData, FoundInData, Enters
<1> QED
  BY <1>7, <1>8, OtherPoint DEF AheadPoint, HeaderPoint, Enters

LEMMA ForgetKeepsLinks ==
  ASSUME DataLinks', Forget
  PROVE  LinksToData'
BY NoSearchForward, OtherPoint DEF Forget, FoundInData, AheadPoint, HeaderPoint

\* What the drive does by itself takes pages, and no links.
LEMMA DriveKeepsLinks ==
  ASSUME IInv, LinksToData, Drive
  PROVE  LinksToData'
<1>1. UNCHANGED <<pc, h, s, call, w, l>> /\ DeviceNext
  BY DEF Drive, control, frames
<1>2. DataLinks'
  <2>1. CASE mem' = mem
    BY <2>1 DEF LinksToData, DataLinks
  <2>2. CASE \E a \in Addr : mem' = [mem EXCEPT ![a] = Bad]
    BY <2>2 DEF LinksToData, DataLinks, DataAddr, IInv, TypeOK, DeviceType, Image
  <2> QED
    BY <1>1, <2>1, <2>2 DEF DeviceNext, TurnBusy, TurnReady, Wear, Decay
<1> QED
  BY <1>1, <1>2 DEF LinksToData, FoundInData, WriteAhead, LoadAhead, At, IsLastPage

\* Every step keeps the links.
LEMMA NextKeepsLinks ==
  ASSUME IInv, LinksToData, [Next]_vars
  PROVE  LinksToData'
<1>1. CASE Library
  <2>1. CASE DataNext /\ UNCHANGED fmt
    BY <2>1, HeaderKeepsLinks, SearchKeepsLinks, DeleteKeepsLinks, RewriteEraseKeepsLinks,
      RewriteWriteKeepsLinks, PlainKeepsLinks, LoadKeepsLinks DEF DataNext
  <2>2. CASE FormatNext
    BY <2>2, PlainKeepsLinks
  <2>3. CASE Answer
    BY <2>3, SameKeepsLinks, ForgetKeepsLinks DEF Answer, LinksToData
  <2> QED
    BY <1>1, <2>1, <2>2, <2>3 DEF Library
<1>2. CASE Crash
  BY <1>2, ErasedKeepsLinks, ForgetKeepsLinks DEF Crash, PowerLoss, LinksToData, IInv,
    TypeOK
<1>3. CASE UNCHANGED vars
  BY <1>3, SameKeepsLinks DEF vars, frames, control, LinksToData, FoundInData, WriteAhead,
    LoadAhead, At, IsLastPage
<1> QED
  BY <1>1, <1>2, <1>3, RequestKeepsLinks, DriveKeepsLinks DEF Next

\* In every reachable state, pages of data link ahead to pages of data.
LEMMA LinksStayInData == Spec => []LinksToData
<1>1. Init => IInv /\ LinksToData
  <2> SUFFICES ASSUME Init PROVE LinksToData
    BY InitIInv
  <2>1. \A a \in DataAddr : mem[a] = Bad
    BY DEF Init, DeviceInit, DataAddr
  <2>2. s.found = None /\ pc = "idle"
    BY NoSearchForward DEF Init, HeaderInit
  <2> QED
    BY <2>1, <2>2 DEF LinksToData, DataLinks, FoundInData, WriteAhead, LoadAhead, At,
      HeaderPoint
<1>2. IInv /\ LinksToData /\ [Next]_vars => IInv' /\ LinksToData'
  BY NextIInv, NextKeepsLinks
<1> QED
  BY <1>1, <1>2, PTL DEF Spec

-----------------------------------------------------------------------------
(* Every step brings a call nearer to its end.                             *)

\* The first number that changes falls.
LEMMA FirstFalls ==
  ASSUME \/ Stage' < Stage
         \/ UNCHANGED <<Stage>> /\ Rounds' < Rounds
         \/ UNCHANGED <<Stage, Rounds>> /\ RoundPlace' < RoundPlace
         \/ UNCHANGED <<Stage, Rounds, RoundPlace>> /\ Blocks' < Blocks
         \/ UNCHANGED <<Stage, Rounds, RoundPlace, Blocks>> /\ BlockPlace' < BlockPlace
         \/ /\ UNCHANGED <<Stage, Rounds, RoundPlace, Blocks, BlockPlace>>
            /\ Units' < Units
         \/ /\ UNCHANGED <<Stage, Rounds, RoundPlace, Blocks, BlockPlace, Units>>
            /\ Copies' < Copies
  PROVE  Nearer(Left', Left)
<1>1. /\ DOMAIN Left' = 1 .. 7
      /\ Left'[1] = Stage' /\ Left'[2] = Rounds' /\ Left'[3] = RoundPlace'
      /\ Left'[4] = Blocks' /\ Left'[5] = BlockPlace' /\ Left'[6] = Units'
      /\ Left'[7] = Copies'
  BY DEF Left
<1>2. /\ Left[1] = Stage /\ Left[2] = Rounds /\ Left[3] = RoundPlace /\ Left[4] = Blocks
      /\ Left[5] = BlockPlace /\ Left[6] = Units /\ Left[7] = Copies
  BY DEF Left
<1>3. ASSUME NEW j \in 1 .. 7, Left'[j] < Left[j],
             \A i \in 1 .. 7 : i < j => Left'[i] = Left[i]
      PROVE  Nearer(Left', Left)
  BY <1>1, <1>3 DEF Nearer
<1> QED
  BY <1>1, <1>2, <1>3

\* The point of a call that makes no other inside the library.
LEMMA OwnPoint ==
  pc \notin HeaderPoint \cup SearchPoint \cup DeletePoint
    => Waiting = pc /\ Caller = pc
BY DEF Waiting, Caller

LEMMA OwnPointNext ==
  pc' \notin HeaderPoint \cup SearchPoint \cup DeletePoint
    => Waiting' = pc' /\ Caller' = pc'
BY DEF Waiting, Caller

\* The caller of what is about to start.
LEMMA HeaderCaller ==
  ASSUME NEW back, back \notin SearchPoint \cup DeletePoint,
         pc' \in HeaderPoint, h'.back = back
  PROVE  Caller' = back /\ pc' # "idle"
BY DEF Waiting, Caller, HeaderPoint

LEMMA SearchCaller ==
  ASSUME NEW mode, NEW key, NEW from, NEW back, Search(mode, key, from, back)
  PROVE  Caller' = back /\ pc' # "idle"
BY SearchFromScratch DEF Waiting, Caller, HeaderPoint, SearchPoint

LEMMA DeleteCaller ==
  ASSUME NEW key, NEW back, Delete(key, back)
  PROVE  Caller' = back /\ pc' # "idle"
BY DEF Delete, NoDelete, Waiting, Caller, HeaderPoint, SearchPoint, DeletePoint

\* A call that ends has no stage left.
LEMMA CallEnds ==
  ASSUME pc # "idle", pc' = "idle"
  PROVE  Nearer(Left', Left)
<1>1. Stage' = 0
  <2>1. Caller' = "idle"
    BY OwnPointNext DEF HeaderPoint, SearchPoint, DeletePoint
  <2> QED
    BY <2>1 DEF Stage, WriteLoop, FormatPoint
<1>2. Stage \in 1 .. 14
  BY DEF Stage
<1> QED
  BY <1>1, <1>2, FirstFalls

\* The stage is that of the caller.
LEMMA SameCaller ==
  ASSUME pc # "idle", pc' # "idle", Caller' = Caller, UNCHANGED <<call, w, l, fmt>>
  PROVE  UNCHANGED <<Stage, Rounds, RoundPlace>>
BY DEF Stage, Rounds, RoundPlace

\* A search or a delete that returns leaves its macroblocks behind.
LEMMA NestedReturn ==
  ASSUME pc # "idle", 0 < Blocks, pc' = Caller, UNCHANGED <<call, w, l, fmt>>,
         Caller \notin HeaderPoint \cup SearchPoint \cup DeletePoint
  PROVE  Nearer(Left', Left)
<1>1. CASE pc' = "idle"
  BY <1>1, CallEnds
<1>2. CASE pc' # "idle"
  <2>1. Caller' = Caller /\ Waiting' = pc'
    BY OwnPointNext
  <2>2. UNCHANGED <<Stage, Rounds, RoundPlace>>
    BY <1>2, <2>1, SameCaller
  <2>3. Blocks' = 0
    BY <2>1 DEF Blocks
  <2> QED
    BY <2>2, <2>3, FirstFalls
<1> QED
  BY <1>1, <1>2

\* A header that is loaded or saved has fewer copies to try.
LEMMA HeaderAdvances ==
  ASSUME IInv, HeaderNext, UNCHANGED <<s, call, d, w, l, fmt>>
  PROVE  Nearer(Left', Left)
<1>1. /\ h \in HeaderFrame /\ h.back \in HeaderReturn /\ h.copy \in Copy
  BY DEF IInv, TypeOK, HeaderType, HeaderFrame
<1>2. /\ pc \in HeaderPoint /\ h'.back = h.back
      /\ \/ pc' = h.back
         \/ pc = "h_load" /\ pc' = "h_save" /\ h'.copy = h.copy
         \/ pc = "h_save" /\ pc' = "h_save" /\ h'.copy = h.copy + 1
  BY <1>1 DEF HeaderNext, HeaderLoad, HeaderSave, Return, Goto, control, HeaderPoint,
    HeaderFrame
<1>3. CASE pc' = "idle"
  BY <1>2, <1>3, CallEnds DEF HeaderPoint
<1>4. CASE pc' # "idle"
  <2>1. Waiting' = Waiting
    BY <1>1, <1>2 DEF Waiting, HeaderPoint, HeaderReturn
  <2>2. Caller' = Caller
    BY <2>1 DEF Caller
  <2>3. UNCHANGED <<Stage, Rounds, RoundPlace>>
    BY <1>2, <1>4, <2>2, SameCaller DEF HeaderPoint
  <2>4. UNCHANGED <<Blocks, BlockPlace>>
    BY <2>1 DEF Blocks, BlockPlace
  <2>5. UNCHANGED <<Units>>
    BY <1>1, <1>2 DEF Units, HeaderPoint, HeaderReturn
  <2>6. Copies' < Copies
    <3>1. h.copy \in Nat /\ h.copy < Reserved /\ Reserved \in Nat
      BY <1>1, Geometry DEF Copy
    <3> QED
      BY <1>1, <1>2, <3>1 DEF Copies, HeaderPoint, HeaderReturn
  <2> QED
    BY <2>3, <2>4, <2>5, <2>6, FirstFalls
<1> QED
  BY <1>3, <1>4

\* A search has fewer pages or macroblocks to look at, or returns.
LEMMA SearchAdvances ==
  ASSUME IInv, SearchNext, UNCHANGED <<call, d, w, l, fmt>>
  PROVE  Nearer(Left', Left)
<1>1. /\ s \in SearchFrame /\ s.mb \in 0 .. PagesCount /\ s.back \in SearchReturn
      /\ PagesCount \in Nat /\ s.i \in Nat /\ DataPages \in Nat
  BY Geometry DEF IInv, TypeOK, SearchType, SearchFrame
<1>2. pc \in SearchPoint
  BY DEF SearchNext, SearchBlock, SearchHeader, SearchUnit, SearchPoint
<1>3. Waiting = pc /\ Caller = s.back /\ 0 < Blocks
  BY <1>1, <1>2 DEF Waiting, Caller, HeaderPoint, SearchPoint, DeletePoint, Blocks
<1>4. CASE pc' = s.back
  BY <1>1, <1>2, <1>3, <1>4, NestedReturn DEF SearchReturn, HeaderPoint, SearchPoint,
    DeletePoint
<1>5. ASSUME pc' \in SearchPoint \/ (pc' = "h_load" /\ h'.back \in SearchPoint),
             s'.back = s.back
      PROVE  Caller' = Caller /\ UNCHANGED <<Stage, Rounds, RoundPlace>>
  <2>1. Caller' = Caller /\ pc # "idle" /\ pc' # "idle"
    BY <1>2, <1>3, <1>5 DEF Waiting, Caller, HeaderPoint, SearchPoint
  <2> QED
    BY <2>1, SameCaller
<1>6. CASE pc = "s_block" /\ pc' = "h_load" /\ h'.back = "s_header" /\ s' = s
  <2>1. UNCHANGED <<Stage, Rounds, RoundPlace>>
    BY <1>5, <1>6 DEF SearchPoint
  <2>2. Waiting' = "s_header"
    BY <1>6 DEF Waiting, HeaderPoint
  <2>3. UNCHANGED <<Blocks>> /\ BlockPlace' < BlockPlace
    BY <1>3, <1>6, <2>2 DEF Blocks, BlockPlace, SearchPoint, DeletePoint
  <2> QED
    BY <2>1, <2>3, FirstFalls
<1>7. CASE pc' = "s_block" /\ s' = [s EXCEPT !.mb = @ + 1]
  <2>1. s'.back = s.back /\ s'.mb = s.mb + 1
    BY <1>1, <1>7 DEF SearchFrame
  <2>2. UNCHANGED <<Stage, Rounds, RoundPlace>>
    BY <1>5, <1>7, <2>1 DEF SearchPoint
  <2>3. Waiting' = "s_block"
    BY <1>7 DEF Waiting, HeaderPoint
  <2>4. Blocks' < Blocks
    BY <1>1, <1>2, <1>3, <2>1, <2>3 DEF Blocks, SearchPoint, DeletePoint
  <2> QED
    BY <2>2, <2>4, FirstFalls
<1>8. CASE pc = "s_header" /\ pc' = "s_unit" /\ s' = [s EXCEPT !.i = ScanFrom]
  <2>1. s'.back = s.back /\ s'.mb = s.mb
    BY <1>1, <1>8 DEF SearchFrame
  <2>2. UNCHANGED <<Stage, Rounds, RoundPlace>>
    BY <1>5, <1>8, <2>1 DEF SearchPoint
  <2>3. Waiting' = "s_unit"
    BY <1>8 DEF Waiting, HeaderPoint
  <2>4. UNCHANGED <<Blocks>> /\ BlockPlace' < BlockPlace
    BY <1>3, <1>8, <2>1, <2>3 DEF Blocks, BlockPlace, SearchPoint, DeletePoint
  <2> QED
    BY <2>2, <2>4, FirstFalls
<1>9. CASE /\ pc = "s_unit" /\ pc' = "s_unit"
           /\ s'.back = s.back /\ s'.mb = s.mb
           /\ s'.i \in Nat /\ s.i < s'.i
  <2>1. UNCHANGED <<Stage, Rounds, RoundPlace>>
    BY <1>5, <1>9 DEF SearchPoint
  <2>2. Waiting' = "s_unit"
    BY <1>9 DEF Waiting, HeaderPoint
  <2>3. UNCHANGED <<Blocks, BlockPlace>> /\ Units' < Units
    BY <1>1, <1>3, <1>9, <2>2 DEF Blocks, BlockPlace, SearchPoint, Units
  <2> QED
    BY <2>1, <2>3, FirstFalls
<1>10. CASE SearchBlock
  BY <1>4, <1>6, <1>10 DEF SearchBlock, LoadHeader, NoHeader, Return
<1>11. CASE SearchHeader
  BY <1>4, <1>7, <1>8, <1>11 DEF SearchHeader, Return, Goto
<1>12. CASE SearchUnit
  <2>1. CASE Goto("s_block") /\ s' = [s EXCEPT !.mb = @ + 1]
    BY <1>7, <2>1 DEF Goto
  <2>2. CASE \E i \in Least(Candidates) :
               /\ \/ s' = [s EXCEPT !.i = i + 1]
                  \/ s' = [s EXCEPT !.found = PageAddress(s.mb, i), !.i = i + 1,
                                    !.prevId = h.page.toc[i].key.id]
               /\ Return("OK", s.back) \/ UNCHANGED control
    <3>1. PICK i \in Least(Candidates) :
            /\ \/ s' = [s EXCEPT !.i = i + 1]
               \/ s' = [s EXCEPT !.found = PageAddress(s.mb, i), !.i = i + 1,
                                 !.prevId = h.page.toc[i].key.id]
            /\ Return("OK", s.back) \/ UNCHANGED control
      BY <2>2
    <3>2. i \in Nat /\ s.i <= i
      BY <3>1, Geometry DEF Candidates, Least, Index
    <3>3. s'.back = s.back /\ s'.mb = s.mb /\ s'.i = i + 1
      BY <1>1, <3>1 DEF SearchFrame
    <3>4. s'.i \in Nat /\ s.i < s'.i
      BY <1>1, <3>2, <3>3
    <3> QED
      BY <1>4, <1>9, <1>12, <3>1, <3>3, <3>4 DEF SearchUnit, Return, control
  <2> QED
    BY <1>12, <2>1, <2>2 DEF SearchUnit
<1> QED
  BY <1>10, <1>11, <1>12 DEF SearchNext

\* A delete has fewer macroblocks to clear, or returns.
LEMMA DeleteAdvances ==
  ASSUME IInv, DeleteNext, UNCHANGED fmt
  PROVE  Nearer(Left', Left)
<1>1. /\ d \in DeleteFrame /\ d.mb \in 0 .. PagesCount /\ d.back \in DeleteReturn
      /\ PagesCount \in Nat
  BY Geometry DEF IInv, TypeOK, DataType, DeleteFrame
<1>2. pc \in DeletePoint /\ UNCHANGED <<call, w, l, fmt>>
  BY DEF DeleteNext, DeleteBlock, DeleteHeader, DeleteSaved, DeleteErase, DeletePoint
<1>3. Waiting = pc /\ Caller = d.back /\ 0 < Blocks
  BY <1>1, <1>2 DEF Waiting, Caller, HeaderPoint, SearchPoint, DeletePoint, Blocks
<1>4. CASE pc' = d.back
  BY <1>1, <1>2, <1>3, <1>4, NestedReturn DEF DeleteReturn, HeaderPoint, SearchPoint,
    DeletePoint
<1>5. ASSUME pc' \in DeletePoint \/ (pc' \in HeaderPoint /\ h'.back \in DeletePoint),
             d'.back = d.back
      PROVE  Caller' = Caller /\ UNCHANGED <<Stage, Rounds, RoundPlace>>
  <2>1. Caller' = Caller /\ pc # "idle" /\ pc' # "idle"
    BY <1>2, <1>3, <1>5 DEF Waiting, Caller, HeaderPoint, SearchPoint, DeletePoint
  <2> QED
    BY <1>2, <2>1, SameCaller
<1>6. CASE /\ d'.back = d.back /\ d'.mb = d.mb
           /\ \/ pc = "d_block" /\ pc' = "h_load" /\ h'.back = "d_header"
              \/ pc = "d_header" /\ pc' = "h_save" /\ h'.back = "d_saved"
              \/ pc = "d_saved" /\ pc' = "d_erase"
  <2>1. UNCHANGED <<Stage, Rounds, RoundPlace>>
    BY <1>5, <1>6 DEF DeletePoint, HeaderPoint
  <2>2. Waiting' \in DeletePoint /\ BlockPlace' < BlockPlace
    BY <1>3, <1>6 DEF Waiting, HeaderPoint, DeletePoint, BlockPlace
  <2>3. UNCHANGED <<Blocks>>
    BY <1>2, <1>3, <1>6, <2>2 DEF Blocks, SearchPoint, DeletePoint
  <2> QED
    BY <2>1, <2>2, <2>3, FirstFalls
<1>7. CASE pc' = "d_block" /\ d'.back = d.back /\ d'.mb = d.mb + 1
  <2>1. UNCHANGED <<Stage, Rounds, RoundPlace>>
    BY <1>5, <1>7 DEF DeletePoint
  <2>2. Waiting' = "d_block"
    BY <1>7 DEF Waiting, HeaderPoint
  <2>3. Blocks' < Blocks
    BY <1>1, <1>2, <1>3, <1>7, <2>2 DEF Blocks, SearchPoint, DeletePoint
  <2> QED
    BY <2>1, <2>3, FirstFalls
<1>8. CASE DeleteBlock
  BY <1>4, <1>6, <1>8 DEF DeleteBlock, LoadHeader, NoHeader, Return
<1>9. CASE DeleteHeader
  BY <1>4, <1>6, <1>9 DEF DeleteHeader, SaveHeader, NoHeader, Return
<1>10. CASE DeleteSaved
  <2>1. \/ d' = [d EXCEPT !.mb = @ + 1] /\ pc' = "d_block"
        \/ (\E v : d' = [d EXCEPT !.victims = v]) /\ pc' = "d_erase"
    BY <1>10 DEF DeleteSaved, Goto
  <2>2. \/ d'.mb = d.mb + 1 /\ d'.back = d.back /\ pc' = "d_block"
        \/ d'.mb = d.mb /\ d'.back = d.back /\ pc' = "d_erase"
    BY <1>1, <2>1 DEF DeleteFrame
  <2> QED
    BY <1>6, <1>7, <1>10, <2>2 DEF DeleteSaved
<1>11. CASE DeleteErase
  <2>1. pc' = "d_block" /\ d'.back = d.back /\ d'.mb = d.mb + 1
    BY <1>1, <1>11 DEF DeleteErase, Goto, DeleteFrame
  <2> QED
    BY <1>7, <2>1
<1> QED
  BY <1>8, <1>9, <1>10, <1>11 DEF DeleteNext

-----------------------------------------------------------------------------

\* A rewrite that returns is past its stages.
LEMMA RewriteReturns ==
  ASSUME pc \in RewritePoint, pc' = RewriteBack
  PROVE  Nearer(Left', Left)
<1>1. Caller = pc
  BY OwnPoint DEF RewritePoint, HeaderPoint, SearchPoint, DeletePoint
<1>2. Caller' \in {"v_saved", "done"} /\ pc' # "idle"
  BY OwnPointNext DEF RewriteBack, HeaderPoint, SearchPoint, DeletePoint
<1>3. Stage \in 6 .. 14
  BY <1>1 DEF Stage, RewritePoint, WriteLoop, FormatPoint
<1>4. Stage' \in {1, 5}
  BY <1>2 DEF Stage, WriteLoop, FormatPoint
<1> QED
  BY <1>3, <1>4, FirstFalls

\* The loop over the pages to erase searches for another one, or is over.
LEMMA EraseMoreCaller ==
  ASSUME NEW f, EraseMore(f)
  PROVE  /\ pc' # "idle"
         /\ \/ Caller' = "w_target" /\ f.erased < call.len
            \/ Caller' = "w_rest"
<1>1. CASE f.erased < call.len
  BY <1>1, SearchCaller DEF EraseMore
<1>2. CASE ~(f.erased < call.len)
  BY <1>2, OwnPointNext DEF EraseMore, Goto, HeaderPoint, SearchPoint, DeletePoint
<1> QED
  BY <1>1, <1>2

\* A rewrite has fewer pages to look for and erase, or goes on to write.
LEMMA RewriteEraseAdvances ==
  ASSUME IInv, RewriteEraseNext, UNCHANGED fmt
  PROVE  Nearer(Left', Left)
<1>1. pc \in RewritePoint /\ call' = call
  BY DEF RewriteEraseNext, RewriteStart, RewriteDeleted, RewriteHeader, RewriteTarget,
    RewriteErase, RewriteRest, RewritePoint
<1>2. Caller = pc
  BY <1>1, OwnPoint DEF RewritePoint, HeaderPoint, SearchPoint, DeletePoint
<1>3. /\ w \in RewriteFrame /\ w.erased \in Nat /\ call.len \in Nat
  BY DataAssumption DEF IInv, TypeOK, DataType, RewriteFrame, Call
<1>4. CASE pc' = RewriteBack
  BY <1>1, <1>4, RewriteReturns
<1>5. CASE RewriteStart
  <2>1. CASE Delete(call.key, "w_deleted")
    <3>1. Caller' = "w_deleted" /\ pc' # "idle" /\ Caller = "w_start" /\ pc # "idle"
      BY <1>2, <1>5, <2>1, DeleteCaller DEF RewriteStart
    <3>2. Stage' = 11 /\ Stage = 12
      BY <3>1 DEF Stage, WriteLoop, FormatPoint
    <3> QED
      BY <3>2, FirstFalls
  <2> QED
    BY <1>4, <1>5, <2>1 DEF RewriteStart, Return
<1>6. CASE RewriteDeleted
  <2>1. CASE LoadHeader(MacroblockIndex(call.addr), "w_header")
    <3>1. Caller' = "w_header" /\ pc' # "idle" /\ Caller = "w_deleted" /\ pc # "idle"
      BY <1>2, <1>6, <2>1, HeaderCaller DEF RewriteDeleted, LoadHeader, NoHeader,
        HeaderPoint, SearchPoint, DeletePoint
    <3>2. Stage' = 10 /\ Stage = 11
      BY <3>1 DEF Stage, WriteLoop, FormatPoint
    <3> QED
      BY <3>2, FirstFalls
  <2> QED
    BY <1>4, <1>6, <2>1 DEF RewriteDeleted, Return
<1>7. CASE RewriteHeader
  <2>1. CASE EraseMore(w')
    <3>1. Caller' \in {"w_target", "w_rest"} /\ pc' # "idle"
      BY <2>1, EraseMoreCaller
    <3>2. Caller = "w_header" /\ pc # "idle"
      BY <1>2, <1>7 DEF RewriteHeader
    <3>3. Stage' \in {8, 9} /\ Stage = 10
      BY <3>1, <3>2 DEF Stage, WriteLoop, FormatPoint
    <3> QED
      BY <3>3, FirstFalls
  <2> QED
    BY <1>4, <1>7, <2>1 DEF RewriteHeader, Return
<1>8. ASSUME pc \in {"w_target", "w_erase"}, EraseMore(w'), w'.erased = w.erased + 1
      PROVE  Nearer(Left', Left)
  <2>1. pc # "idle" /\ pc' # "idle"
    BY <1>8, EraseMoreCaller
  <2>2. CASE Caller' = "w_target" /\ w'.erased < call.len
    <3>1. Stage' = 9 /\ Stage = 9
      BY <1>2, <1>8, <2>1, <2>2 DEF Stage, WriteLoop, FormatPoint
    <3>2. Rounds' = call.len - w'.erased /\ Rounds = call.len - w.erased
      BY <1>1, <1>2, <1>8, <2>2 DEF Rounds, WriteLoop, FormatPoint
    <3>3. Rounds' < Rounds
      BY <1>3, <1>8, <3>2
    <3> QED
      BY <3>1, <3>3, FirstFalls
  <2>3. CASE Caller' = "w_rest"
    <3>1. Stage' = 8 /\ Stage = 9
      BY <1>2, <1>8, <2>1, <2>3 DEF Stage, WriteLoop, FormatPoint
    <3> QED
      BY <3>1, FirstFalls
  <2> QED
    BY <1>8, <2>2, <2>3, EraseMoreCaller
<1>9. CASE RewriteTarget
  <2>1. pc = "w_target"
    BY <1>9 DEF RewriteTarget
  <2> DEFINE f == [w EXCEPT !.target = IF st = "OK" THEN s.found ELSE 0]
  <2>2. f.erased = w.erased
    BY <1>3 DEF RewriteFrame
  <2>3. CASE w' = f /\ Goto("w_erase")
    <3>1. Caller' = "w_erase" /\ pc' # "idle" /\ Caller = "w_target" /\ pc # "idle"
      BY <1>2, <2>1, <2>3, OwnPointNext DEF Goto, HeaderPoint, SearchPoint, DeletePoint
    <3>2. Stage' = Stage /\ RoundPlace' < RoundPlace
      BY <3>1 DEF Stage, RoundPlace, WriteLoop, FormatPoint
    <3>3. Rounds' = Rounds
      BY <1>1, <2>2, <2>3, <3>1 DEF Rounds, WriteLoop, FormatPoint
    <3> QED
      BY <3>2, <3>3, FirstFalls
  <2>4. CASE w' = Targeted(f) /\ EraseMore(w')
    <3>1. w'.erased = w.erased + 1
      BY <1>3, <2>2, <2>4 DEF Targeted, RewriteFrame
    <3> QED
      BY <1>8, <2>1, <2>4, <3>1
  <2> QED
    BY <1>4, <1>9, <2>3, <2>4 DEF RewriteTarget, Return
<1>10. CASE RewriteErase
  <2>1. pc = "w_erase"
    BY <1>10 DEF RewriteErase
  <2>2. CASE pc' = "w_rest"
    <3>1. Caller' = "w_rest" /\ Caller = "w_erase"
      BY <1>2, <2>1, <2>2, OwnPointNext DEF HeaderPoint, SearchPoint, DeletePoint
    <3>2. Stage' = 8 /\ Stage = 9
      BY <2>1, <2>2, <3>1 DEF Stage, WriteLoop, FormatPoint
    <3> QED
      BY <3>2, FirstFalls
  <2>3. CASE w' = Targeted([w EXCEPT !.batch = << >>]) /\ EraseMore(w')
    <3>1. w'.erased = w.erased + 1
      BY <1>3, <2>3 DEF Targeted, RewriteFrame
    <3> QED
      BY <1>8, <2>1, <2>3, <3>1
  <2> QED
    BY <1>4, <1>10, <2>2, <2>3 DEF RewriteErase, Return
<1>11. CASE RewriteRest
  <2>1. CASE pc' = "w_next"
    <3>1. Caller' = "w_next" /\ Caller = "w_rest" /\ pc # "idle"
      BY <1>2, <1>11, <2>1, OwnPointNext DEF RewriteRest, HeaderPoint, SearchPoint,
        DeletePoint
    <3>2. Stage' = 7 /\ Stage = 8
      BY <2>1, <3>1 DEF Stage, WriteLoop, FormatPoint
    <3> QED
      BY <3>2, FirstFalls
  <2> QED
    BY <1>4, <1>11, <2>1 DEF RewriteRest, Return, Goto
<1> QED
  BY <1>5, <1>6, <1>7, <1>9, <1>10, <1>11 DEF RewriteEraseNext

\* A rewrite comes nearer to the page it writes, or goes on to a later one.
LEMMA RewriteWriteAdvances ==
  ASSUME IInv, LinksToData, RewriteWriteNext, UNCHANGED fmt
  PROVE  Nearer(Left', Left)
<1>1. pc \in WriteLoop \cup {"w_end"} /\ call' = call
  BY DEF RewriteWriteNext, RewriteNext, RewriteFound, RewriteSwitch, RewriteReload,
    RewritePage, RewriteEnd, WriteLoop
<1>2. Caller = pc
  BY <1>1, OwnPoint DEF WriteLoop, HeaderPoint, SearchPoint, DeletePoint
<1>3. CASE pc' = RewriteBack
  BY <1>1, <1>3, RewriteReturns DEF RewritePoint, WriteLoop
<1>4. w \in RewriteFrame /\ w.cur \in Nat /\ w.next \in Nat /\ PagesCount \in Nat
  BY Geometry DEF IInv, TypeOK, DataType, RewriteFrame
<1>5. ASSUME pc' # "idle", w'.cur = w.cur, <<Caller, Caller'>> \in
               {<<"w_next", "w_found">>, <<"w_found", "w_switch">>,
                <<"w_switch", "w_reload">>, <<"w_switch", "w_page">>,
                <<"w_reload", "w_page">>}
      PROVE  Nearer(Left', Left)
  <2>1. Stage' = 7 /\ Stage = 7
    BY <1>1, <1>5 DEF Stage, WriteLoop, FormatPoint
  <2>2. Rounds' = Rounds
    BY <1>5 DEF Rounds, WriteLoop, FormatPoint
  <2>3. RoundPlace' < RoundPlace
    BY <1>5 DEF RoundPlace
  <2> QED
    BY <2>1, <2>2, <2>3, FirstFalls
<1>6. CASE RewriteNext
  <2>1. w' = w /\ pc = "w_next"
    BY <1>6 DEF RewriteNext
  <2>2. CASE Search("EMPTY", call.key, w.cur + 1, "w_found")
    BY <1>2, <1>5, <2>1, <2>2, SearchCaller
  <2>3. CASE SaveHeader(w.header.mb, w.header.page, "w_end")
    <3>1. Caller' = "w_end" /\ pc' # "idle"
      BY <2>3, HeaderCaller DEF SaveHeader, NoHeader, HeaderPoint, SearchPoint, DeletePoint
    <3>2. Stage' = 6 /\ Stage = 7
      BY <1>2, <2>1, <3>1 DEF Stage, WriteLoop, FormatPoint
    <3> QED
      BY <3>2, FirstFalls
  <2> QED
    BY <1>3, <1>6, <2>2, <2>3 DEF RewriteNext, Return
<1>7. CASE RewriteFound
  <2>1. pc = "w_found"
    BY <1>7 DEF RewriteFound
  <2>2. CASE \/ SaveHeader(w.header.mb, w.header.page, "w_switch")
             \/ Return("OK", "w_switch")
    <3>1. w'.cur = w.cur
      BY <1>4, <1>7, <2>2 DEF RewriteFound, RewriteFrame
    <3>2. Caller' = "w_switch" /\ pc' # "idle"
      BY <2>2, HeaderCaller, OwnPointNext DEF SaveHeader, NoHeader, Return, HeaderPoint,
        SearchPoint, DeletePoint
    <3> QED
      BY <1>2, <1>5, <2>1, <3>1, <3>2
  <2> QED
    BY <1>3, <1>7, <2>2 DEF RewriteFound, Return
<1>8. CASE RewriteSwitch
  <2>1. w' = w /\ pc = "w_switch"
    BY <1>8 DEF RewriteSwitch
  <2>2. CASE LoadHeader(MacroblockIndex(w.cur), "w_reload")
    <3>1. Caller' = "w_reload" /\ pc' # "idle"
      BY <2>2, HeaderCaller DEF LoadHeader, NoHeader, HeaderPoint, SearchPoint, DeletePoint
    <3> QED
      BY <1>2, <1>5, <2>1, <3>1
  <2>3. CASE Goto("w_page")
    <3>1. Caller' = "w_page" /\ pc' # "idle"
      BY <2>3, OwnPointNext DEF Goto, HeaderPoint, SearchPoint, DeletePoint
    <3> QED
      BY <1>2, <1>5, <2>1, <3>1
  <2> QED
    BY <1>3, <1>8, <2>2, <2>3 DEF RewriteSwitch, Return
<1>9. CASE RewriteReload
  <2>1. pc = "w_reload"
    BY <1>9 DEF RewriteReload
  <2>2. CASE Goto("w_page") /\ w'.cur = w.cur
    <3>1. Caller' = "w_page" /\ pc' # "idle"
      BY <2>2, OwnPointNext DEF Goto, HeaderPoint, SearchPoint, DeletePoint
    <3> QED
      BY <1>2, <1>5, <2>1, <2>2, <3>1
  <2>3. pc' = RewriteBack \/ (Goto("w_page") /\ w'.cur = w.cur)
    BY <1>4, <1>9 DEF RewriteReload, Return, RewriteFrame
  <2> QED
    BY <1>3, <2>2, <2>3
<1>10. CASE RewritePage
  <2>1. pc = "w_page"
    BY <1>10 DEF RewritePage
  <2>2. CASE pc' = "w_next" /\ w'.cur = w.next
    <3>1. w.cur < PagesCount /\ w.cur < w.next
      BY <2>1 DEF IInv, LoopsBounded, Within, LinksToData, WriteAhead, At
    <3>2. Caller' = "w_next"
      BY <2>2, OwnPointNext DEF HeaderPoint, SearchPoint, DeletePoint
    <3>3. Stage' = 7 /\ Stage = 7
      BY <1>2, <2>1, <2>2, <3>2 DEF Stage, WriteLoop, FormatPoint
    <3>4. /\ Rounds' = IF w.next < PagesCount THEN PagesCount - w.next ELSE 0
          /\ Rounds = PagesCount - w.cur
      BY <1>2, <2>1, <2>2, <3>1, <3>2 DEF Rounds, WriteLoop, FormatPoint
    <3>5. Rounds' < Rounds
      BY <1>4, <3>1, <3>4
    <3> QED
      BY <3>3, <3>5, FirstFalls
  <2>3. pc' = RewriteBack \/ (pc' = "w_next" /\ w'.cur = w.next)
    BY <1>4, <1>10 DEF RewritePage, Return, PageWritten, PageBlocked, RewriteFrame
  <2> QED
    BY <1>3, <2>2, <2>3
<1>11. CASE RewriteEnd
  BY <1>3, <1>11 DEF RewriteEnd, Return
<1> QED
  BY <1>6, <1>7, <1>8, <1>9, <1>10, <1>11 DEF RewriteWriteNext

-----------------------------------------------------------------------------
(* save, load, clearAddress and format.                                    *)

\* A call that answers leaves all its stages but the last behind.
LEMMA CallAnswers ==
  ASSUME pc # "idle", Stage > 1, pc' = "done"
  PROVE  Nearer(Left', Left)
<1>1. Caller' = "done"
  BY OwnPointNext DEF HeaderPoint, SearchPoint, DeletePoint
<1>2. Stage' = 1
  BY <1>1 DEF Stage, WriteLoop, FormatPoint
<1> QED
  BY <1>2, FirstFalls

\* A save goes on to rewrite, undoes what it wrote or answers.
LEMMA SaveAdvances ==
  ASSUME SaveNext
  PROVE  Nearer(Left', Left)
<1>1. pc \in {"v_start", "v_check", "v_saved", "v_undone"}
  BY DEF SaveNext, SaveStart, SaveCheck, SaveRewritten, SaveUndone
<1>2. Caller = pc
  BY <1>1, OwnPoint DEF HeaderPoint, SearchPoint, DeletePoint
<1>3. CASE pc' = "done"
  <2>1. Stage > 1
    BY <1>1, <1>2 DEF Stage, WriteLoop, FormatPoint
  <2> QED
    BY <1>1, <1>3, <2>1, CallAnswers
<1>4. CASE SaveStart
  <2>1. CASE LoadHeader(MacroblockIndex(call.addr), "v_check")
    <3>1. Caller' = "v_check" /\ pc' # "idle" /\ Caller = "v_start" /\ pc # "idle"
      BY <1>2, <1>4, <2>1, HeaderCaller DEF SaveStart, LoadHeader, NoHeader,
        HeaderPoint, SearchPoint, DeletePoint
    <3>2. Stage' = 13 /\ Stage = 14
      BY <3>1 DEF Stage, WriteLoop, FormatPoint
    <3> QED
      BY <3>2, FirstFalls
  <2> QED
    BY <1>3, <1>4, <2>1 DEF SaveStart, Return
<1>5. CASE SaveCheck
  <2>1. CASE pc' = "w_start"
    <3>1. Caller' = "w_start" /\ Caller = "v_check" /\ pc # "idle"
      BY <1>2, <1>5, <2>1, OwnPointNext DEF SaveCheck, HeaderPoint, SearchPoint, DeletePoint
    <3>2. Stage' = 12 /\ Stage = 13
      BY <2>1, <3>1 DEF Stage, WriteLoop, FormatPoint
    <3> QED
      BY <3>2, FirstFalls
  <2> QED
    BY <1>3, <1>5, <2>1 DEF SaveCheck, Return, Goto
<1>6. CASE SaveRewritten
  <2>1. CASE Delete(call.key, "v_undone")
    <3>1. Caller' = "v_undone" /\ pc' # "idle" /\ Caller = "v_saved" /\ pc # "idle"
      BY <1>2, <1>6, <2>1, DeleteCaller DEF SaveRewritten
    <3>2. Stage' = 4 /\ Stage = 5
      BY <3>1 DEF Stage, WriteLoop, FormatPoint
    <3> QED
      BY <3>2, FirstFalls
  <2> QED
    BY <1>3, <1>6, <2>1 DEF SaveRewritten, Goto
<1>7. CASE SaveUndone
  BY <1>3, <1>7 DEF SaveUndone, Return
<1> QED
  BY <1>4, <1>5, <1>6, <1>7 DEF SaveNext

\* A load goes on to a later page, deletes what is left of the record, or answers.
LEMMA LoadAdvances ==
  ASSUME IInv, LinksToData, LoadNext
  PROVE  Nearer(Left', Left)
<1>1. pc \in {"l_start", "l_copy", "l_deleted"}
  BY DEF LoadNext, LoadStart, LoadCopy, LoadDeleted
<1>2. Caller = pc
  BY <1>1, OwnPoint DEF HeaderPoint, SearchPoint, DeletePoint
<1>3. CASE pc' = "done"
  <2>1. Stage > 1
    BY <1>1, <1>2 DEF Stage, WriteLoop, FormatPoint
  <2> QED
    BY <1>1, <1>3, <2>1, CallAnswers
<1>4. CASE LoadStart
  <2>1. CASE pc' = "l_copy"
    <3>1. Caller' = "l_copy" /\ Caller = "l_start" /\ pc # "idle"
      BY <1>2, <1>4, <2>1, OwnPointNext DEF LoadStart, HeaderPoint, SearchPoint, DeletePoint
    <3>2. Stage' = 3 /\ Stage = 4
      BY <2>1, <3>1 DEF Stage, WriteLoop, FormatPoint
    <3> QED
      BY <3>2, FirstFalls
  <2> QED
    BY <1>3, <1>4, <2>1 DEF LoadStart, Return, Goto
<1>5. CASE LoadCopy
  <2>1. pc = "l_copy"
    BY <1>5 DEF LoadCopy
  <2>2. CASE NextLoads /\ l'.at = l.page.next /\ pc' = pc
    <3>1. Caller' = "l_copy" /\ Caller = "l_copy"
      BY <1>2, <2>1, <2>2, OwnPointNext DEF HeaderPoint, SearchPoint, DeletePoint
    <3>2. Stage' = 3 /\ Stage = 3
      BY <2>1, <2>2, <3>1 DEF Stage, WriteLoop, FormatPoint
    <3>3. /\ l.at \in Nat /\ l.page.next \in Nat /\ PagesCount \in Nat
          /\ l.at < l.page.next
      <4>1. l.at \in Addr /\ l.page.next \in Addr /\ l.at <= l.page.next
        BY <2>1 DEF LinksToData, LoadAhead, DataAddr
      <4> QED
        BY <2>2, <4>1, Geometry DEF NextLoads, Addr
    <3>4. Rounds' = PagesCount - l.page.next /\ Rounds = PagesCount - l.at
      BY <2>2, <3>1 DEF Rounds, WriteLoop, FormatPoint
    <3>5. Rounds' < Rounds
      BY <3>3, <3>4
    <3> QED
      BY <3>2, <3>5, FirstFalls
  <2>3. CASE Delete(l.page.key, "l_deleted")
    <3>1. Caller' = "l_deleted" /\ pc' # "idle" /\ Caller = "l_copy" /\ pc # "idle"
      BY <1>2, <2>1, <2>3, DeleteCaller
    <3>2. Stage' = 2 /\ Stage = 3
      BY <3>1 DEF Stage, WriteLoop, FormatPoint
    <3> QED
      BY <3>2, FirstFalls
  <2> QED
    BY <1>3, <1>5, <2>2, <2>3 DEF LoadCopy, Return, control
<1>6. CASE LoadDeleted
  BY <1>3, <1>6 DEF LoadDeleted, Return
<1> QED
  BY <1>4, <1>5, <1>6 DEF LoadNext

\* clearAddress goes on to the start of the record, deletes it or answers.
LEMMA ClearAdvances ==
  ASSUME ClearNext
  PROVE  Nearer(Left', Left)
<1>1. pc \in {"c_start", "c_load"}
  BY DEF ClearNext, ClearStart, ClearLoad
<1>2. Caller = pc
  BY <1>1, OwnPoint DEF HeaderPoint, SearchPoint, DeletePoint
<1>3. CASE pc' = "done"
  <2>1. Stage > 1
    BY <1>1, <1>2 DEF Stage, WriteLoop, FormatPoint
  <2> QED
    BY <1>1, <1>3, <2>1, CallAnswers
<1>4. CASE ClearStart
  <2>1. CASE pc' = "c_load"
    <3>1. Caller' = "c_load" /\ Caller = "c_start" /\ pc # "idle"
      BY <1>2, <1>4, <2>1, OwnPointNext DEF ClearStart, HeaderPoint, SearchPoint,
        DeletePoint
    <3>2. Stage' = 2 /\ Stage = 3
      BY <2>1, <3>1 DEF Stage, WriteLoop, FormatPoint
    <3> QED
      BY <3>2, FirstFalls
  <2> QED
    BY <1>3, <1>4, <2>1 DEF ClearStart, Return, Goto
<1>5. CASE ClearLoad
  <2>1. CASE Delete(mem[l.at].key, "done")
    <3>1. Caller' = "done" /\ pc' # "idle" /\ Caller = "c_load" /\ pc # "idle"
      BY <1>2, <1>5, <2>1, DeleteCaller DEF ClearLoad
    <3>2. Stage' = 1 /\ Stage = 2
      BY <3>1 DEF Stage, WriteLoop, FormatPoint
    <3> QED
      BY <3>2, FirstFalls
  <2> QED
    BY <1>3, <1>5, <2>1 DEF ClearLoad, Return
<1> QED
  BY <1>4, <1>5 DEF ClearNext

\* A format comes nearer to the end of its macroblock, or goes on to the next one.
LEMMA FormatAdvances ==
  ASSUME IInv, FormatNext
  PROVE  Nearer(Left', Left)
<1>1. pc \in FormatPoint
  BY DEF FormatNext, FormatBlock, FormatHeader, FormatSaved, FormatErase, FormatPoint
<1>2. Caller = pc /\ pc # "idle"
  BY <1>1, OwnPoint DEF FormatPoint, HeaderPoint, SearchPoint, DeletePoint
<1>3. Stage = 2
  BY <1>1, <1>2 DEF Stage, FormatPoint, WriteLoop
<1>4. CASE pc' = "done"
  BY <1>2, <1>3, <1>4, CallAnswers
<1>5. ASSUME pc' # "idle", Caller' \in FormatPoint
      PROVE  Stage' = 2 /\ Rounds' = PagesCount - fmt' /\ Rounds = PagesCount - fmt
  <2>1. Stage' = 2
    BY <1>5 DEF Stage, FormatPoint, WriteLoop
  <2>2. Rounds' = PagesCount - fmt'
    BY <1>5 DEF Rounds, FormatPoint, WriteLoop
  <2>3. Rounds = PagesCount - fmt
    BY <1>1, <1>2 DEF Rounds, FormatPoint, WriteLoop
  <2> QED
    BY <2>1, <2>2, <2>3
<1>6. ASSUME pc' # "idle", fmt' = fmt, <<pc, Caller'>> \in
               {<<"m_block", "m_header">>, <<"m_header", "m_saved">>,
                <<"m_saved", "m_erase">>}
      PROVE  Nearer(Left', Left)
  <2>1. Stage' = Stage /\ Rounds' = Rounds
    BY <1>3, <1>5, <1>6 DEF FormatPoint
  <2>2. RoundPlace' < RoundPlace
    BY <1>2, <1>6 DEF RoundPlace
  <2> QED
    BY <2>1, <2>2, FirstFalls
<1>7. CASE pc' = "m_block" /\ fmt' = fmt + 1
  <2>1. Caller' = "m_block"
    BY <1>7, OwnPointNext DEF HeaderPoint, SearchPoint, DeletePoint
  <2>2. Stage' = Stage /\ Rounds' = PagesCount - fmt' /\ Rounds = PagesCount - fmt
    BY <1>3, <1>5, <1>7, <2>1 DEF FormatPoint
  <2>3. fmt \in Nat /\ PagesCount \in Nat
    BY Geometry DEF IInv, TypeOK
  <2>4. Rounds' < Rounds
    BY <1>7, <2>2, <2>3
  <2> QED
    BY <2>2, <2>4, FirstFalls
<1>8. CASE FormatBlock
  <2>1. CASE LoadHeader(fmt, "m_header")
    <3>1. Caller' = "m_header" /\ pc' # "idle"
      BY <2>1, HeaderCaller DEF LoadHeader, NoHeader, HeaderPoint, SearchPoint, DeletePoint
    <3> QED
      BY <1>6, <1>8, <3>1 DEF FormatBlock
  <2> QED
    BY <1>4, <1>8, <2>1 DEF FormatBlock, Return
<1>9. CASE FormatHeader
  <2>1. CASE SaveHeader(fmt, [h.page EXCEPT !.toc = Formatted(@)], "m_saved")
    <3>1. Caller' = "m_saved" /\ pc' # "idle"
      BY <2>1, HeaderCaller DEF SaveHeader, NoHeader, HeaderPoint, SearchPoint, DeletePoint
    <3> QED
      BY <1>6, <1>9, <3>1 DEF FormatHeader
  <2> QED
    BY <1>4, <1>9, <2>1 DEF FormatHeader, Return
<1>10. CASE FormatSaved
  <2>1. CASE Goto("m_erase") /\ UNCHANGED fmt
    <3>1. Caller' = "m_erase" /\ pc' # "idle"
      BY <2>1, OwnPointNext DEF Goto, HeaderPoint, SearchPoint, DeletePoint
    <3> QED
      BY <1>6, <1>10, <2>1, <3>1 DEF FormatSaved
  <2> QED
    BY <1>4, <1>7, <1>10, <2>1 DEF FormatSaved, Return, Goto
<1>11. CASE FormatErase
  BY <1>4, <1>7, <1>11 DEF FormatErase, Return, Goto
<1> QED
  BY <1>8, <1>9, <1>10, <1>11 DEF FormatNext

-----------------------------------------------------------------------------
(* So no call goes on without an end.                                      *)

\* What the drive does by itself takes a call no further from its end.
LEMMA DriveStays ==
  ASSUME Drive
  PROVE  Left' = Left
<1>1. UNCHANGED <<pc, h, s, call, d, w, l, fmt>>
  BY DEF Drive, control, frames
<1>2. UNCHANGED Waiting
  BY <1>1 DEF Waiting
<1>3. UNCHANGED Caller
  BY <1>1, <1>2 DEF Caller
<1>4. UNCHANGED <<Stage, Rounds, RoundPlace>>
  BY <1>1, <1>3 DEF Stage, Rounds, RoundPlace
<1>5. UNCHANGED <<Blocks, BlockPlace>>
  BY <1>1, <1>2 DEF Blocks, BlockPlace
<1>6. UNCHANGED <<Units, Copies>>
  BY <1>1 DEF Units, Copies
<1> QED
  BY <1>4, <1>5, <1>6 DEF Left

LEMMA NextAdvances ==
  ASSUME IInv, LinksToData, [Next]_vars
  PROVE  [pc # "idle" =>
            \E before \in {Left}, after \in {Left'} :
              Nearer(after, before) \/ (Drive /\ after = before)]_vars
<1> SUFFICES ASSUME Next, pc # "idle"
             PROVE  Nearer(Left', Left) \/ (Drive /\ Left' = Left)
  OBVIOUS
<1>1. CASE Request
  BY <1>1 DEF Request, Find, Load, Save, Rewrite, Write, DeleteData, ClearAddress, Format
<1>2. CASE DataNext /\ UNCHANGED fmt
  BY <1>2, HeaderAdvances, SearchAdvances, DeleteAdvances, RewriteEraseAdvances,
    RewriteWriteAdvances, SaveAdvances, LoadAdvances, ClearAdvances DEF DataNext
<1>3. CASE FormatNext
  BY <1>3, FormatAdvances
<1>4. CASE Answer \/ Crash
  BY <1>4, CallEnds DEF Answer, Crash, Forget
<1>5. CASE Drive
  BY <1>5, DriveStays
<1> QED
  BY <1>1, <1>2, <1>3, <1>4, <1>5 DEF Next, Library

\* Every step of a call, whatever it reads and whatever the drive answers, brings the
\* call nearer to its end: rewrite, load, the searches, deleteData and format.
THEOREM CallsGoForward == Spec => CallsAdvance
<1>1. IInv /\ LinksToData /\ [Next]_vars
        => [pc # "idle" =>
              \E before \in {Left}, after \in {Left'} :
                Nearer(after, before) \/ (Drive /\ after = before)]_vars
  BY NextAdvances
<1> QED
  BY <1>1, Inductive, LinksStayInData, PTL DEF Spec, CallsAdvance

\* The seven numbers are natural numbers in every reachable state.
Measure == [1 .. 7 -> Nat]

LEMMA LeftIsMeasure ==
  ASSUME IInv
  PROVE  Left \in Measure
<1>1. /\ PagesCount \in Nat /\ DataPages \in Nat /\ Reserved \in Nat /\ MaxLen \in Nat
      /\ s \in SearchFrame /\ d \in DeleteFrame /\ w \in RewriteFrame /\ l \in LoadFrame
      /\ call \in Call /\ h \in HeaderFrame /\ fmt \in 0 .. PagesCount
  BY Geometry, DataAssumption DEF IInv, TypeOK, HeaderType, SearchType, DataType
<1>2. Stage \in Nat
  BY DEF Stage
<1>3. Rounds \in Nat
  <2>1. CASE Caller \in {"w_target", "w_erase"}
    <3>1. Within({"w_target", "w_erase"})
      BY <1>1, <2>1 DEF Caller, Waiting, Within, At, DeleteFrame, DeleteReturn, SearchPoint,
        HeaderPoint
    <3>2. w.erased < call.len /\ w.erased \in Nat /\ call.len \in Nat
      BY <1>1, <3>1 DEF IInv, LoopsBounded, RewriteFrame, Call
    <3>3. Rounds = call.len - w.erased
      BY <2>1 DEF Rounds, WriteLoop, FormatPoint
    <3> QED
      BY <3>2, <3>3
  <2>2. CASE Caller \notin {"w_target", "w_erase"}
    <3>1. w.cur \in Nat /\ l.at \in Nat /\ l.at < PagesCount /\ fmt \in Nat
          /\ fmt <= PagesCount
      BY <1>1 DEF RewriteFrame, LoadFrame, Addr
    <3> QED
      BY <1>1, <2>2, <3>1 DEF Rounds
  <2> QED
    BY <2>1, <2>2
<1>4. RoundPlace \in Nat /\ BlockPlace \in Nat
  BY DEF RoundPlace, BlockPlace
<1>5. Blocks \in Nat
  BY <1>1 DEF Blocks, SearchFrame, DeleteFrame
<1>6. Units \in Nat
  BY <1>1 DEF Units, SearchFrame
<1>7. Copies \in Nat
  BY <1>1 DEF Copies, HeaderFrame, Copy
<1> QED
  BY <1>2, <1>3, <1>4, <1>5, <1>6, <1>7 DEF Left, Measure

\* No sequence of them goes down for ever.
LEMMA MeasureWellFounded ==
  ~ \E f \in [Nat -> Measure] : \A n \in Nat : Nearer(f[n + 1], f[n])
<1> DEFINE Less == OpToRel(<, Nat)
           Order == LexProductOrdering(Less, Nat, 7)
<1>1. IsWellFoundedOn(Order, Measure)
  BY NatLessThanWellFounded, WFLexProductOrdering DEF Measure
<1>2. ASSUME NEW x \in Measure, NEW y \in Measure, Nearer(x, y)
      PROVE  <<x, y>> \in Order
  <2>1. DOMAIN x = 1 .. 7 /\ \A i \in 1 .. 7 : x[i] \in Nat /\ y[i] \in Nat
    BY DEF Measure
  <2>2. PICK j \in 1 .. 7 : x[j] < y[j] /\ \A i \in 1 .. j - 1 : x[i] = y[i]
    BY <1>2, <2>1 DEF Nearer
  <2>3. <<x[j], y[j]>> \in Less
    BY <2>1, <2>2 DEF OpToRel
  <2> QED
    BY <2>2, <2>3 DEF LexProductOrdering, Measure
<1> HIDE DEF Order, Less
<1> SUFFICES ASSUME NEW f \in [Nat -> Measure], \A n \in Nat : Nearer(f[n + 1], f[n])
             PROVE  FALSE
  OBVIOUS
<1>3. ASSUME NEW n \in Nat PROVE <<f[n + 1], f[n]>> \in Order
  <2>1. f[n + 1] \in Measure /\ f[n] \in Measure
    OBVIOUS
  <2> QED
    BY <1>2, <2>1
<1> QED
  BY <1>1, <1>3 DEF IsWellFoundedOn

\* What a call has left is counted by seven natural numbers, in an order in which no
\* sequence goes down for ever: no call takes infinitely many steps.
THEOREM CallsAreFinite ==
  /\ Spec => [](Left \in Measure)
  /\ ~ \E f \in [Nat -> Measure] : \A n \in Nat : Nearer(f[n + 1], f[n])
<1>1. IInv => Left \in Measure
  BY LeftIsMeasure
<1>2. Spec => [](Left \in Measure)
  BY <1>1, Inductive, PTL
<1> QED
  BY <1>2, MeasureWellFounded
=============================================================================
