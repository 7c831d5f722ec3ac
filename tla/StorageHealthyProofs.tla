------------------------ MODULE StorageHealthyProofs ------------------------
(***************************************************************************)
(* What the library does on a drive that has had no fault but losses of    *)
(* power, for every geometry and every client: a delete that succeeds      *)
(* leaves nothing to be found under its key.                               *)
(*                                                                         *)
(* The theorems are about the states of a healthy drive of every instance: *)
(* the bounds on the faults are arbitrary, and a theorem says nothing more *)
(* once the first fault has happened.                                      *)
(***************************************************************************)
EXTENDS StorageATProofs, WellFoundedInduction

-----------------------------------------------------------------------------
(* What holds as long as the drive has had no fault.                       *)

\* The drive has never answered BUSY, refused a write or lost a page by itself.
\* Power may have been lost, in the middle of a write as well.
Healthy == spent.busy = 0 /\ spent.decay = 0 /\ worn = {}

\* A busy drive has been counted.
BusyCounted == busy => spent.busy # 0

\* A macroblock has a header, and its table lists no page of a key.
NoRecord(m, b, key) == ValidCopies(m, b) # {} /\ Unlisted(Table(m, b), key)

\* deleteData has cleared the tables of the macroblocks it has passed, each by
\* a header saved as the first copy, and it has passed all of them when it
\* returns to its caller.
DeleteClears ==
  /\ pc \in HeaderPoint => h.copy = 0
  /\ pc = "h_load" => h.back # "d_saved"
  /\ At({"d_header", "d_saved"}) => h.mb = d.mb
  /\ pc \in {"d_header", "d_saved"} => st = "OK"
  /\ pc = "h_save" /\ h.back = "d_saved" => Unlisted(h.page.toc, d.key)
  /\ pc = "d_saved" => NoRecord(mem, d.mb, d.key)
  /\ pc # "d_erase"
  /\ At(DeletePoint) => \A b \in Searched : b < d.mb => NoRecord(mem, b, d.key)
  /\ call.op = "delete" =>
       pc = "done" \/ (At(DeletePoint) /\ d.back = "done" /\ d.key = call.key)
  /\ At(DeletePoint) /\ d.back = "w_deleted" => d.key = call.key
  /\ pc = "w_deleted" \/ (pc = "done" /\ call.op = "delete") =>
       \A b \in Searched : NoRecord(mem, b, call.key)

\* All pages a table lists are those of records of clients.
UserTable(toc) == \A i \in Index : toc[i].st = "OK" => toc[i].key \in UserKey

\* A page holds a table of contents.
IsTable(pg) == pg.key = NoKey /\ UserTable(pg.toc)

\* On the drive, pages of headers hold tables and pages of data hold data of
\* clients.
MemLayout ==
  \A a \in Addr :
    mem[a] # Bad => IF IsMacroblockAddress(a) THEN IsTable(mem[a])
                                              ELSE mem[a].key \in UserKey

\* The points of a call that writes a record.
Writing ==
  \/ Within(RewritePoint)
  \/ At({"v_start", "v_check", "v_saved"})
  \/ At(DeletePoint) /\ d.back = "w_deleted"

\* The points of rewrite, once the address has been looked at.
Rewriting ==
  \/ Within(RewritePoint \ {"w_start"})
  \/ At(DeletePoint) /\ d.back = "w_deleted"

\* rewrite is at a page of data, and so is the page after it unless it is the
\* last one: it never writes a page of data over a header.
WriteLayout ==
  /\ Writing => call.op \in {"save", "rewrite"} /\ call.key \in UserKey
  /\ Rewriting => ~IsMacroblockAddress(call.addr)
  /\ Within({"w_target", "w_erase", "w_found", "w_switch", "w_reload", "w_page"})
       \/ pc = "w_rest" \/ (pc = "w_next" /\ w.n < call.len) =>
       w.cur \in DataAddr
  /\ At({"w_switch", "w_reload", "w_page"}) /\ ~IsLastPage => w.next \in DataAddr

\* The layout of the drive, and of the headers in the memory of the library.
Layout ==
  /\ MemLayout /\ WriteLayout
  /\ IsTable(h.page) /\ IsTable(w.header.page)
  /\ s.found # None => s.found \in DataAddr

-----------------------------------------------------------------------------
(* The least element.                                                      *)

\* A set of naturals has a least element, unless it is empty.
LEMMA LeastExists ==
  ASSUME NEW S \in SUBSET Nat, S # {}
  PROVE  Least(S) # {}
<1> DEFINE R == OpToRel(<, Nat)
<1>1. IsWellFoundedOn(R, Nat)
  BY NatLessThanWellFounded
<1>2. \A i, j \in Nat : i < j => <<i, j>> \in R
  BY DEF OpToRel
<1>3. PICK i \in S : \A j \in S : ~(<<j, i>> \in R)
  <2> HIDE DEF R
  <2> QED
    BY <1>1, WFMin
<1>4. ASSUME NEW j \in S
      PROVE  i <= j
  <2>1. ~(j < i)
    <3> HIDE DEF R
    <3> QED
      BY <1>2, <1>3
  <2> QED
    BY <2>1
<1> QED
  BY <1>4 DEF Least

-----------------------------------------------------------------------------
(* Where headers are.                                                      *)

\* Two copies of headers share no page.
LEMMA HeaderAddressUnique ==
  ASSUME NEW b \in Nat, NEW c \in Nat, NEW i \in Copy, NEW j \in Copy,
         HeaderAddress(b, i) = HeaderAddress(c, j)
  PROVE  b = c /\ i = j
<1>1. /\ i \in Nat /\ j \in Nat /\ i < PerBlock /\ j < PerBlock
      /\ PerBlock \in Nat
  BY Geometry DEF Copy
<1>2. (b * PerBlock + i) \div PerBlock = b /\ (b * PerBlock + i) % PerBlock = i
  BY <1>1, DivUnique
<1>3. (c * PerBlock + j) \div PerBlock = c /\ (c * PerBlock + j) % PerBlock = j
  BY <1>1, DivUnique
<1> QED
  BY <1>2, <1>3 DEF HeaderAddress, MacroblockAddress

\* The headers of macroblocks lie in the storage, that of the pages after the
\* last whole one included.
LEMMA HeaderInStorage ==
  ASSUME NEW b \in Macroblock, NEW i \in Copy
  PROVE  HeaderAddress(b, i) \in Addr /\ IsMacroblockAddress(HeaderAddress(b, i))
<1> DEFINE last == PagesCount - 1
<1>1. /\ i \in Nat /\ Reserved \in Nat /\ PerBlock \in Nat /\ PagesCount \in Nat
      /\ i < Reserved /\ i < PerBlock /\ last \in Nat /\ 0 < PerBlock
  BY Geometry DEF Copy
<1>2. /\ last = PerBlock * (last \div PerBlock) + (last % PerBlock)
      /\ last \div PerBlock \in Nat /\ last % PerBlock \in Nat
  BY <1>1, DivMod
<1>3. b \in Nat /\ b <= last \div PerBlock /\ b * PerBlock \in Nat
  BY <1>1, <1>2 DEF Macroblock, MacroblockIndex
<1>4. HeaderAddress(b, i) <= last
  <2>1. CASE b < last \div PerBlock
    <3>1. (b + 1) * PerBlock <= (last \div PerBlock) * PerBlock
      BY <1>1, <1>2, <1>3, <2>1, ProductMonotone
    <3> QED
      BY <1>1, <1>2, <1>3, <3>1 DEF HeaderAddress, MacroblockAddress
  <2>2. CASE b = last \div PerBlock
    <3>1. Reserved <= last % PerBlock
      <4>1. CASE last % PerBlock = PerBlock - 1
        BY <1>1, <4>1, Geometry
      <4>2. CASE last % PerBlock # PerBlock - 1
        <5>1. (last % PerBlock) + 1 < PerBlock /\ (last % PerBlock) + 1 \in Nat
          BY <1>1, <1>2, <4>2, DivMod
        <5>2. PagesCount = (last \div PerBlock) * PerBlock + ((last % PerBlock) + 1)
          BY <1>1, <1>2
        <5>3. ((last \div PerBlock) * PerBlock + ((last % PerBlock) + 1)) % PerBlock
                = (last % PerBlock) + 1
          <6>1. \A q \in Nat, r \in Nat :
                  r < PerBlock => (q * PerBlock + r) % PerBlock = r
            BY <1>1, DivUnique
          <6> QED
            BY <1>2, <5>1, <6>1
        <5>4. PagesCount % PerBlock = (last % PerBlock) + 1
          BY <5>2, <5>3
        <5> QED
          BY <1>1, <1>2, <5>4, TailAssumption
      <4> QED
        BY <4>1, <4>2
    <3> QED
      BY <1>1, <1>2, <1>3, <2>2, <3>1 DEF HeaderAddress, MacroblockAddress
  <2> QED
    BY <1>2, <1>3, <2>1, <2>2
<1>5. HeaderAddress(b, i) \in Addr
  BY <1>1, <1>3, <1>4 DEF HeaderAddress, MacroblockAddress, Addr
<1>6. (b * PerBlock + i) % PerBlock = i
  BY <1>1, <1>3, DivUnique
<1> QED
  BY <1>1, <1>5, <1>6 DEF HeaderAddress, MacroblockAddress, IsMacroblockAddress

\* A macroblock that is searched is one of the storage.
LEMMA SearchedIsMacroblock ==
  Searched \subseteq Macroblock /\ Macroblock \subseteq Nat
BY MacroblockInRange DEF Searched, Macroblock

\* The pages of data of the macroblocks that are searched, by their place.
LEMMA SearchedPage ==
  ASSUME NEW a \in DataAddr, MacroblockIndex(a) \in Searched
  PROVE  /\ PageIndex(a) \in Index
         /\ MacroblockIndex(a) \in Nat /\ MacroblockIndex(a) < MacroblocksCount
<1>1. a \in Nat
  BY Geometry DEF DataAddr, Addr
<1> QED
  BY <1>1, PageIndexInRange, MacroblockInRange DEF Searched

-----------------------------------------------------------------------------
(* The table of a macroblock.                                              *)

\* The first copy is one.
LEMMA FirstCopyUnique ==
  ASSUME NEW m, NEW b, NEW i \in FirstCopy(m, b)
  PROVE  /\ i \in ValidCopies(m, b)
         /\ Table(m, b) = m[HeaderAddress(b, i)].toc
<1>1. i \in ValidCopies(m, b) /\ \A j \in FirstCopy(m, b) : j = i
  BY Geometry DEF FirstCopy, Least, ValidCopies, Copy
<1>2. (CHOOSE j \in FirstCopy(m, b) : TRUE) = i
  BY <1>1
<1> QED
  BY <1>1, <1>2 DEF Table

\* A header that is written as the first copy is the table of its macroblock.
LEMMA TableSaved ==
  ASSUME NEW b \in Macroblock, NEW pg \in Page,
         NEW n, n[HeaderAddress(b, 0)] = pg
  PROVE  ValidCopies(n, b) # {} /\ Table(n, b) = pg.toc
<1>1. 0 \in Copy /\ HeaderAddress(b, 0) \in Addr
  BY Geometry, HeaderInStorage
<1>2. n[HeaderAddress(b, 0)] = pg /\ pg # Bad
  BY BadAssumption
<1>3. 0 \in FirstCopy(n, b)
  BY <1>1, <1>2 DEF FirstCopy, Least, ValidCopies, Readable, Copy
<1> QED
  BY <1>2, <1>3, FirstCopyUnique

\* The table of a macroblock that has a header is a matter of its copies.
LEMMA TableKept ==
  ASSUME NEW m, NEW n, NEW b, ValidCopies(m, b) # {},
         \A i \in Copy : n[HeaderAddress(b, i)] = m[HeaderAddress(b, i)]
  PROVE  ValidCopies(n, b) # {} /\ Table(n, b) = Table(m, b)
<1>1. ValidCopies(n, b) = ValidCopies(m, b)
  BY DEF ValidCopies, Readable
<1>2. FirstCopy(n, b) = FirstCopy(m, b)
  BY <1>1 DEF FirstCopy
<1>3. FirstCopy(m, b) # {}
  <2>1. ValidCopies(m, b) \in SUBSET Nat
    BY Geometry DEF ValidCopies, Copy
  <2> QED
    BY <2>1, LeastExists DEF FirstCopy
<1>4. PICK i \in FirstCopy(m, b) : TRUE
  BY <1>3
<1>5. i \in Copy
  BY <1>4, FirstCopyUnique DEF ValidCopies
<1> QED
  BY <1>1, <1>2, <1>4, <1>5, FirstCopyUnique

-----------------------------------------------------------------------------
(* A drive that has had no fault.                                          *)

\* What a step does to the drive.
LEMMA DeviceStep ==
  ASSUME [Next]_vars
  PROVE  \/ UNCHANGED device
         \/ \E a, pg, status : SavePage(a, pg, status)
         \/ \E S, status : ErasePages(S, status)
         \/ DeviceNext
         \/ PowerLoss(InMutation)
<1>1. CASE Request
  <2>1. /\ \A mode, key : Find(mode, key) => UNCHANGED device
        /\ \A addr, len : Load(addr, len) => UNCHANGED device
        /\ \A key : DeleteData(key) => UNCHANGED device
        /\ \A addr : ClearAddress(addr) => UNCHANGED device
        /\ Format => UNCHANGED device
    BY DEF Find, Load, DeleteData, ClearAddress, Format, Enter, Refuse
  <2>2. \A addr, key, val, len :
          Save(addr, key, val, len) \/ Rewrite(addr, key, val, len)
            => UNCHANGED device
    BY DEF Save, Rewrite, Write, Enter, Refuse
  <2> QED
    BY <1>1, <2>1, <2>2 DEF Request
<1>2. CASE HeaderNext
  BY <1>2 DEF HeaderNext, HeaderLoad, HeaderSave
<1>3. CASE SearchNext \/ DeleteNext
  BY <1>3 DEF SearchNext, SearchBlock, SearchHeader, SearchUnit,
    DeleteNext, DeleteBlock, DeleteHeader, DeleteSaved, DeleteErase
<1>4. CASE RewriteEraseNext \/ RewriteWriteNext
  BY <1>4 DEF RewriteEraseNext, RewriteStart, RewriteDeleted, RewriteHeader,
    RewriteTarget, RewriteErase, RewriteRest, RewriteWriteNext, RewriteNext,
    RewriteFound, RewriteSwitch, RewriteReload, RewritePage, RewriteEnd
<1>5. CASE SaveNext \/ LoadNext \/ ClearNext
  BY <1>5 DEF SaveNext, SaveStart, SaveCheck, SaveRewritten, SaveUndone,
    LoadNext, LoadStart, LoadCopy, LoadDeleted, ClearNext, ClearStart, ClearLoad
<1>6. CASE FormatNext \/ Answer
  BY <1>6 DEF FormatNext, FormatBlock, FormatHeader, FormatSaved, FormatErase,
    Answer
<1>7. CASE Drive \/ Crash
  BY <1>7 DEF Drive, Crash
<1>8. CASE UNCHANGED vars
  BY <1>8 DEF vars
<1> QED
  BY <1>1, <1>2, <1>3, <1>4, <1>5, <1>6, <1>7, <1>8 DEF Next, Library, DataNext

\* A drive was healthy before if it is now, and what was busy has been counted.
LEMMA HealthyBefore ==
  ASSUME DeviceType, BusyCounted, [Next]_vars
  PROVE  BusyCounted' /\ (Healthy' => Healthy)
<1> USE DEF DeviceType, Healthy, BusyCounted
<1>1. CASE UNCHANGED device
  BY <1>1 DEF device
<1>2. ASSUME NEW a, NEW pg, NEW status, SavePage(a, pg, status)
      PROVE  BusyCounted' /\ (Healthy' => Healthy)
  BY <1>2 DEF SavePage, device
<1>3. ASSUME NEW S, NEW status, ErasePages(S, status)
      PROVE  BusyCounted' /\ (Healthy' => Healthy)
  BY <1>3 DEF ErasePages, device
<1>4. CASE DeviceNext
  BY <1>4 DEF DeviceNext, TurnBusy, TurnReady, Wear, Decay
<1>5. CASE PowerLoss(InMutation)
  BY <1>5 DEF PowerLoss
<1> QED
  BY <1>1, <1>2, <1>3, <1>4, <1>5, DeviceStep

\* A healthy drive takes every write,
LEMMA HealthySave ==
  ASSUME DeviceType, BusyCounted, Healthy, Healthy',
         NEW a, NEW pg, NEW status, SavePage(a, pg, status)
  PROVE  status = "OK" /\ mem' = [mem EXCEPT ![a] = pg]
BY DEF DeviceType, BusyCounted, Healthy, SavePage

\* and every erase.
LEMMA HealthyErase ==
  ASSUME BusyCounted, Healthy, NEW S, NEW status, ErasePages(S, status)
  PROVE  status = "OK" /\ mem' = Erased(mem, S)
BY DEF BusyCounted, Healthy, ErasePages

\* It does nothing by itself.
LEMMA HealthyDrive ==
  ASSUME DeviceType, BusyCounted, Healthy, Healthy', DeviceNext
  PROVE  FALSE
BY DEF DeviceType, BusyCounted, Healthy, DeviceNext, TurnBusy, TurnReady, Wear,
  Decay

\* A header is loaded from its first copy, or created and saved.
LEMMA HealthyHeaderLoad ==
  ASSUME BusyCounted, Healthy, h \in HeaderFrame, HeaderLoad
  PROVE  /\ mem' = mem
         /\ h'.mb = h.mb /\ h'.back = h.back /\ h'.copy = h.copy
         /\ h'.page.toc = Table(mem, h.mb)
         /\ \/ pc' = h.back /\ st' = "OK" /\ ValidCopies(mem, h.mb) # {}
               /\ \E i \in ValidCopies(mem, h.mb) :
                    h'.page = mem[HeaderAddress(h.mb, i)]
            \/ pc' = "h_save" /\ st' = st /\ ValidCopies(mem, h.mb) = {}
               /\ h'.page = HeaderPage(CreatedToc(mem, h.mb))
<1>1. ~busy /\ mem' = mem
  BY DEF BusyCounted, Healthy, HeaderLoad, device
<1>2. ASSUME NEW i \in FirstCopy(mem, h.mb),
             h' = [h EXCEPT !.page = mem[HeaderAddress(h.mb, i)]],
             Return("OK", h.back)
      PROVE  /\ h'.mb = h.mb /\ h'.back = h.back /\ h'.copy = h.copy
             /\ h'.page.toc = Table(mem, h.mb)
             /\ pc' = h.back /\ st' = "OK" /\ ValidCopies(mem, h.mb) # {}
             /\ \E j \in ValidCopies(mem, h.mb) :
                    h'.page = mem[HeaderAddress(h.mb, j)]
  <2>1. /\ i \in ValidCopies(mem, h.mb)
        /\ Table(mem, h.mb) = mem[HeaderAddress(h.mb, i)].toc
    BY FirstCopyUnique
  <2>2. h'.page = mem[HeaderAddress(h.mb, i)]
    BY <1>2 DEF HeaderFrame
  <2> QED
    BY <1>2, <2>1, <2>2 DEF HeaderFrame, Return
<1>3. ASSUME ValidCopies(mem, h.mb) = {},
             h' = [h EXCEPT !.page = HeaderPage(CreatedToc(mem, h.mb)),
                            !.created = TRUE],
             Goto("h_save")
      PROVE  /\ h'.mb = h.mb /\ h'.back = h.back /\ h'.copy = h.copy
             /\ h'.page.toc = Table(mem, h.mb)
             /\ pc' = "h_save" /\ st' = st
             /\ h'.page = HeaderPage(CreatedToc(mem, h.mb))
  BY <1>3 DEF HeaderFrame, Table, HeaderPage, Goto
<1> QED
  BY <1>1, <1>2, <1>3 DEF HeaderLoad

\* A header is saved as the copy it is at.
LEMMA HealthyHeaderSave ==
  ASSUME DeviceType, BusyCounted, Healthy, Healthy', HeaderSave
  PROVE  /\ mem' = [mem EXCEPT ![HeaderAddress(h.mb, h.copy)] = h.page]
         /\ pc' = h.back /\ st' = "OK" /\ h' = h
<1>1. PICK status \in {"OK", "BUSY", "ERROR"} :
        /\ SavePage(HeaderAddress(h.mb, h.copy), h.page, status)
        /\ status # "ERROR" => Return(status, h.back) /\ UNCHANGED h
  BY DEF HeaderSave
<1>2. /\ status = "OK"
      /\ mem' = [mem EXCEPT ![HeaderAddress(h.mb, h.copy)] = h.page]
  BY <1>1, HealthySave
<1> QED
  BY <1>1, <1>2 DEF Return

-----------------------------------------------------------------------------
(* Deletes.                                                                *)

\* A step that leaves the library outside deletes preserves the invariant.
LEMMA NotDeleting ==
  ASSUME ~At(DeletePoint)', pc' # "w_deleted", call'.op # "delete",
         pc' \in HeaderPoint => h'.copy = 0
  PROVE  DeleteClears'
BY DEF DeleteClears, At, DeletePoint, HeaderPoint

\* Outside deletes the call is no delete, unless it has ended.
LEMMA OutsideDelete ==
  ASSUME DeleteClears, ~At(DeletePoint), pc # "done"
  PROVE  call.op # "delete"
BY DEF DeleteClears

\* A delete that starts does, too.
LEMMA DeleteStarts ==
  ASSUME NEW key \in Key, NEW back \in DeleteReturn, Delete(key, back),
         call'.op = "delete" => back = "done" /\ key = call'.key,
         back = "w_deleted" => key = call'.key
  PROVE  DeleteClears'
<1>1. /\ pc' = "d_block"
      /\ d'.mb = 0 /\ d'.key = key /\ d'.back = back
  BY DEF Delete, NoDelete
<1>2. \A b \in Searched : ~(b < 0)
  BY MacroblockInRange DEF Searched
<1> QED
  BY <1>1, <1>2 DEF DeleteClears, At, DeletePoint, HeaderPoint

\* A header that is saved as the first copy leaves the tables of the other
\* macroblocks that have one.
LEMMA OtherTablesKept ==
  ASSUME NEW m, NEW n, NEW c \in Nat,
         \A a \in Addr : a # HeaderAddress(c, 0) => n[a] = m[a],
         NEW b \in Macroblock, b # c, ValidCopies(m, b) # {}
  PROVE  ValidCopies(n, b) # {} /\ Table(n, b) = Table(m, b)
<1>1. b \in Nat /\ 0 \in Copy
  BY Geometry, SearchedIsMacroblock
<1>2. ASSUME NEW i \in Copy
      PROVE  n[HeaderAddress(b, i)] = m[HeaderAddress(b, i)]
  <2>1. HeaderAddress(b, i) # HeaderAddress(c, 0)
    BY <1>1, HeaderAddressUnique
  <2>2. HeaderAddress(b, i) \in Addr
    BY <1>1, HeaderInStorage
  <2> QED
    BY <2>1, <2>2
<1> QED
  BY <1>2, TableKept

\* The context of a step of a healthy drive.
HealthyStep == IInv /\ BusyCounted /\ Healthy /\ Healthy'

\* Loading a header, or creating it, preserves the invariant.
LEMMA HeaderLoadClears ==
  ASSUME HealthyStep, DeleteClears, HeaderLoad, UNCHANGED <<s, call, d, w, l>>
  PROVE  DeleteClears'
<1>1. /\ h \in HeaderFrame /\ pc = "h_load" /\ UNCHANGED d
      /\ h.back \in HeaderReturn
  BY DEF HealthyStep, IInv, TypeOK, HeaderType, HeaderFrame, HeaderLoad
<1>2. /\ mem' = mem
      /\ h'.mb = h.mb /\ h'.back = h.back /\ h'.copy = h.copy
      /\ \/ pc' = h.back /\ st' = "OK"
         \/ pc' = "h_save"
  BY <1>1, HealthyHeaderLoad DEF HealthyStep
<1> QED
  BY <1>1, <1>2 DEF DeleteClears, At, DeletePoint, HeaderPoint, HeaderReturn,
    NoRecord, Table, CreatedToc, ValidCopies, FirstCopy

\* Saving a header does: that of the macroblock a delete is at lists no page
\* of the key, and those it has passed are others.
LEMMA HeaderSaveClears ==
  ASSUME HealthyStep, DeleteClears, HeaderSave, UNCHANGED <<s, call, d, w, l>>
  PROVE  DeleteClears'
<1>1. /\ h \in HeaderFrame /\ pc = "h_save" /\ UNCHANGED <<call, d>>
      /\ h.back \in HeaderReturn /\ h.page \in Page /\ h.mb \in Nat
      /\ mem \in Image /\ DeviceType
  BY MacroblockInRange DEF HealthyStep, IInv, TypeOK, HeaderType, HeaderFrame,
    HeaderSave, DeviceType, Macroblock
<1>2. /\ mem' = [mem EXCEPT ![HeaderAddress(h.mb, 0)] = h.page]
      /\ pc' = h.back /\ st' = "OK" /\ h' = h
  BY <1>1, HealthyHeaderSave DEF HealthyStep, DeleteClears, HeaderPoint
<1>3. CASE h.back \in DeletePoint
  <2>1. h.back \in {"d_header", "d_saved"} /\ h.mb = d.mb
    BY <1>1, <1>3 DEF DeleteClears, At, HeaderPoint, DeletePoint, HeaderReturn
  <2>2. d.mb \in Macroblock
    BY <1>1, <2>1, MacroblockInRange DEF HealthyStep, IInv, LoopsBounded, At,
      HeaderPoint
  <2>3. /\ d.mb \in Nat
        /\ mem'[HeaderAddress(d.mb, 0)] = h.page
        /\ \A a \in Addr : a # HeaderAddress(d.mb, 0) => mem'[a] = mem[a]
    <3>1. HeaderAddress(d.mb, 0) \in Addr
      BY <1>1, <2>1, <2>2, Geometry, HeaderInStorage
    <3> QED
      BY <1>1, <1>2, <2>1, <3>1 DEF Image
  <2>4. ValidCopies(mem', d.mb) # {} /\ Table(mem', d.mb) = h.page.toc
    BY <1>1, <2>2, <2>3, TableSaved
  <2>5. pc' = "d_saved" => NoRecord(mem', d.mb, d.key)
    BY <1>1, <1>2, <2>4 DEF DeleteClears, NoRecord
  <2>6. ASSUME NEW b \in Searched, b < d.mb
        PROVE  NoRecord(mem', b, d.key)
    <3>1. NoRecord(mem, b, d.key)
      BY <1>1, <1>3, <2>6 DEF DeleteClears, At, HeaderPoint
    <3>2. b # d.mb
      BY <1>1, <2>1, <2>6, MacroblockInRange DEF Searched
    <3>3. ValidCopies(mem', b) # {} /\ Table(mem', b) = Table(mem, b)
      BY <2>3, <3>1, <3>2, OtherTablesKept, SearchedIsMacroblock DEF NoRecord
    <3> QED
      BY <3>1, <3>3 DEF NoRecord
  <2> QED
    BY <1>1, <1>2, <1>3, <2>1, <2>5, <2>6 DEF DeleteClears, At, DeletePoint,
      HeaderPoint, NoRecord
<1>4. CASE h.back \notin DeletePoint
  <2>1. call.op # "delete"
    BY <1>1, <1>4, OutsideDelete DEF At, HeaderPoint, DeletePoint
  <2>2. ~At(DeletePoint)' /\ pc' # "w_deleted" /\ pc' \notin HeaderPoint
    BY <1>1, <1>2, <1>4 DEF At, HeaderPoint, DeletePoint, HeaderReturn
  <2> QED
    BY <1>1, <2>1, <2>2, NotDeleting
<1> QED
  BY <1>3, <1>4

\* The steps of a search do: they are outside deletes.
LEMMA SearchClears ==
  ASSUME HealthyStep, DeleteClears, SearchNext, UNCHANGED <<call, d, w, l>>
  PROVE  DeleteClears'
<1>1. /\ s.back \in SearchReturn /\ pc \in SearchPoint /\ call' = call
  BY DEF HealthyStep, IInv, TypeOK, SearchType, SearchFrame, SearchNext,
    SearchBlock, SearchHeader, SearchUnit, SearchPoint
<1>2. call'.op # "delete"
  BY <1>1, OutsideDelete DEF At, HeaderPoint, DeletePoint, SearchPoint
<1>3. /\ pc' \in SearchPoint \cup SearchReturn
         \/ (pc' = "h_load" /\ h'.back = "s_header" /\ h'.copy = 0)
  BY <1>1 DEF SearchNext, SearchBlock, SearchHeader, SearchUnit, LoadHeader,
    NoHeader, Return, Goto, control, SearchPoint
<1> QED
  BY <1>2, <1>3, NotDeleting DEF At, HeaderPoint, DeletePoint, SearchPoint,
    SearchReturn

\* So does the loop of a delete: a macroblock is passed when its table has
\* been cleared.
LEMMA DeleteNextClears ==
  ASSUME HealthyStep, DeleteClears, DeleteNext
  PROVE  DeleteClears'
<1>1. /\ d \in DeleteFrame /\ d.back \in DeleteReturn /\ d.mb \in Nat
      /\ call' = call /\ mem' = mem
  <2>1. pc # "d_erase"
    BY DEF DeleteClears
  <2> QED
    BY <2>1 DEF HealthyStep, IInv, TypeOK, DataType, DeleteFrame, DeleteNext,
      DeleteBlock, DeleteHeader, DeleteSaved, DeleteErase, device
<1>2. \A b : NoRecord(mem', b, d.key) <=> NoRecord(mem, b, d.key)
  BY <1>1
<1>3. CASE DeleteBlock /\ d.mb < MacroblocksCount
  <2>1. /\ pc = "d_block" /\ d' = d
        /\ pc' = "h_load" /\ h'.back = "d_header" /\ h'.mb = d.mb /\ h'.copy = 0
    <3>1. pc = "d_block" /\ d' = d /\ LoadHeader(d.mb, "d_header")
      BY <1>1, <1>3, MacroblockInRange DEF DeleteBlock
    <3> QED
      BY <3>1 DEF LoadHeader, NoHeader
  <2> QED
    BY <1>1, <1>2, <2>1 DEF DeleteClears, At, DeletePoint, HeaderPoint
<1>4. CASE DeleteBlock /\ d.mb >= MacroblocksCount
  <2>1. /\ pc = "d_block" /\ d' = d /\ pc' = d.back
    BY <1>1, <1>4, MacroblockInRange DEF DeleteBlock, LoadHeader, Return
  <2>2. \A b \in Searched : b < d.mb
    BY <1>1, <1>4, MacroblockInRange DEF Searched
  <2>3. \A b \in Searched : NoRecord(mem, b, d.key)
    BY <2>1, <2>2 DEF DeleteClears, At, DeletePoint
  <2>4. /\ call.op = "delete" => d.back = "done" /\ d.key = call.key
        /\ d.back = "w_deleted" => d.key = call.key
    BY <2>1 DEF DeleteClears, At, DeletePoint
  <2> QED
    BY <1>1, <2>1, <2>3, <2>4 DEF DeleteClears, At, DeletePoint, HeaderPoint,
      DeleteReturn
<1>5. CASE DeleteHeader
  <2>1. /\ pc = "d_header" /\ st = "OK" /\ d' = d
        /\ SaveHeader(d.mb, [h.page EXCEPT !.toc = Cleared(@, d.key)], "d_saved")
    BY <1>5 DEF DeleteHeader, DeleteClears
  <2>2. /\ pc' = "h_save" /\ h'.back = "d_saved" /\ h'.mb = d.mb /\ h'.copy = 0
        /\ h'.page = [h.page EXCEPT !.toc = Cleared(@, d.key)]
    BY <2>1 DEF SaveHeader, NoHeader
  <2>3. h.page \in Page
    BY DEF HealthyStep, IInv, TypeOK, HeaderType, HeaderFrame
  <2>4. h'.page.toc = Cleared(h.page.toc, d.key)
    BY <2>2, <2>3 DEF Page
  <2>5. Unlisted(h'.page.toc, d.key)
    BY <2>4 DEF Unlisted, Cleared, ClearedUnit, EmptyUnit
  <2> QED
    BY <1>1, <2>1, <2>2, <2>5 DEF DeleteClears, At, DeletePoint, HeaderPoint
<1>6. CASE DeleteSaved
  <2>1. /\ pc = "d_saved" /\ st = "OK" /\ pc' = "d_block"
        /\ d' = [d EXCEPT !.mb = @ + 1]
    BY <1>6 DEF DeleteSaved, DeleteClears, Goto
  <2>2. d'.mb = d.mb + 1 /\ d'.key = d.key /\ d'.back = d.back
    BY <1>1, <2>1 DEF DeleteFrame
  <2>3. NoRecord(mem, d.mb, d.key)
    BY <2>1 DEF DeleteClears
  <2>4. \A b \in Searched : b < d.mb => NoRecord(mem, b, d.key)
    BY <2>1 DEF DeleteClears, At, DeletePoint
  <2>5. \A b \in Searched : b < d'.mb => b < d.mb \/ b = d.mb
    BY <1>1, <2>2, MacroblockInRange DEF Searched
  <2>6. \A b \in Searched : b < d'.mb => NoRecord(mem, b, d.key)
    BY <2>3, <2>4, <2>5
  <2> QED
    BY <1>1, <2>1, <2>2, <2>6 DEF DeleteClears, At, DeletePoint, HeaderPoint
<1>7. CASE DeleteErase
  BY <1>7 DEF DeleteErase, DeleteClears
<1> QED
  BY <1>1, <1>3, <1>4, <1>5, <1>6, <1>7, MacroblockInRange DEF DeleteNext,
    DeleteBlock

\* rewrite is outside deletes, but for the one it starts.
LEMMA RewriteClears ==
  ASSUME HealthyStep, DeleteClears, RewriteEraseNext \/ RewriteWriteNext
  PROVE  DeleteClears'
<1>1. /\ pc \in RewritePoint /\ call' = call /\ call.key \in Key
  BY DEF HealthyStep, IInv, TypeOK, DataType, Call, RewritePoint,
    RewriteEraseNext, RewriteStart, RewriteDeleted, RewriteHeader,
    RewriteTarget, RewriteErase, RewriteRest, RewriteWriteNext, RewriteNext,
    RewriteFound, RewriteSwitch, RewriteReload, RewritePage, RewriteEnd
<1>2. call'.op # "delete"
  BY <1>1, OutsideDelete DEF At, HeaderPoint, DeletePoint, RewritePoint
<1>3. CASE Delete(call.key, "w_deleted")
  <2>1. "w_deleted" \in DeleteReturn
    BY DEF DeleteReturn
  <2> QED
    BY <1>1, <1>2, <1>3, <2>1, DeleteStarts
<1> DEFINE Elsewhere == (RewritePoint \ {"w_deleted"}) \cup {"s_block", "done", "v_saved"}
<1>4. ASSUME \/ pc' \in Elsewhere
             \/ pc' \in HeaderPoint /\ h'.copy = 0 /\ h'.back \notin DeletePoint
      PROVE  DeleteClears'
  BY <1>2, <1>4, NotDeleting DEF At, HeaderPoint, DeletePoint, RewritePoint
<1>5. CASE RewriteEraseNext /\ ~Delete(call.key, "w_deleted")
  <2>1. \A f : EraseMore(f) => pc' \in Elsewhere
    BY DEF EraseMore, Search, Goto, RewritePoint
  <2>2. /\ RewriteBack \in Elsewhere
        /\ {"w_next", "w_erase", "w_rest"} \subseteq Elsewhere
    BY DEF RewriteBack, RewritePoint
  <2>3. \/ pc' \in Elsewhere
        \/ pc' \in HeaderPoint /\ h'.copy = 0 /\ h'.back \notin DeletePoint
    <3> HIDE DEF Elsewhere
    <3> QED
      BY <1>5, <2>1, <2>2 DEF RewriteEraseNext, RewriteStart, RewriteDeleted,
        RewriteHeader, RewriteTarget, RewriteErase, RewriteRest, LoadHeader,
        NoHeader, Return, Goto, HeaderPoint, DeletePoint
  <2> QED
    BY <1>4, <2>3
<1>6. CASE RewriteWriteNext
  <2>1. RewriteBack \in Elsewhere
    BY DEF RewriteBack
  <2>2. \/ pc' \in Elsewhere
        \/ pc' \in HeaderPoint /\ h'.copy = 0 /\ h'.back \notin DeletePoint
    BY <1>6, <2>1 DEF RewriteWriteNext, RewriteNext, RewriteFound,
      RewriteSwitch, RewriteReload, RewritePage, RewriteEnd, LoadHeader,
      SaveHeader, Search, NoHeader, Return, Goto, HeaderPoint, DeletePoint,
      RewritePoint
  <2> QED
    BY <1>4, <2>2
<1> QED
  BY <1>3, <1>5, <1>6

\* So are save, load and clearAddress.
LEMMA DataClears ==
  ASSUME HealthyStep, DeleteClears, SaveNext \/ LoadNext \/ ClearNext
  PROVE  DeleteClears'
<1>1. /\ pc \in DataPoint /\ call' = call /\ call.key \in Key
      /\ mem \in Image /\ l.page.key \in Key
  BY DEF HealthyStep, IInv, TypeOK, DeviceType, DataType, LoadFrame, Page,
    Call, DataPoint, SaveNext, SaveStart, SaveCheck, SaveRewritten, SaveUndone,
    LoadNext, LoadStart, LoadCopy, LoadDeleted, ClearNext, ClearStart, ClearLoad
<1>2. call'.op # "delete"
  BY <1>1, OutsideDelete DEF At, HeaderPoint, DeletePoint, DataPoint
<1>3. ASSUME NEW key \in Key, NEW back \in {"v_undone", "l_deleted", "done"},
             Delete(key, back)
      PROVE  DeleteClears'
  BY <1>2, <1>3, DeleteStarts DEF DeleteReturn
<1>4. ASSUME \/ pc' \in DataPoint \cup {"done", "w_start"}
             \/ pc' \in HeaderPoint /\ h'.copy = 0 /\ h'.back \notin DeletePoint
      PROVE  DeleteClears'
  BY <1>2, <1>4, NotDeleting DEF At, HeaderPoint, DeletePoint, DataPoint
<1>5. CASE SaveNext
  <2>1. \/ Delete(call.key, "v_undone")
        \/ pc' \in {"done", "w_start"}
        \/ pc' = "h_load" /\ h'.copy = 0 /\ h'.back = "v_check"
    BY <1>5 DEF SaveNext, SaveStart, SaveCheck, SaveRewritten, SaveUndone,
      LoadHeader, NoHeader, Return, Goto
  <2> QED
    BY <1>1, <1>3, <1>4, <2>1 DEF HeaderPoint, DeletePoint
<1>6. CASE LoadNext
  <2>1. \/ Delete(l.page.key, "l_deleted")
        \/ pc' \in DataPoint \cup {"done"}
    BY <1>1, <1>6 DEF LoadNext, LoadStart, LoadCopy, LoadDeleted, Return, Goto,
      control, DataPoint
  <2> QED
    BY <1>1, <1>3, <1>4, <2>1
<1>7. CASE ClearNext
  <2>1. \/ Readable(mem, l.at) /\ Delete(mem[l.at].key, "done")
        \/ pc' \in {"done", "c_load"}
    BY <1>7 DEF ClearNext, ClearStart, ClearLoad, Return, Goto
  <2>2. Readable(mem, l.at) => mem[l.at].key \in Key
    BY <1>1 DEF Readable, Image, Page
  <2> QED
    BY <1>3, <1>4, <2>1, <2>2 DEF DataPoint
<1> QED
  BY <1>5, <1>6, <1>7

\* So is format.
LEMMA FormatClears ==
  ASSUME HealthyStep, DeleteClears, FormatNext
  PROVE  DeleteClears'
<1>1. pc \in FormatPoint /\ call' = call
  BY DEF FormatNext, FormatBlock, FormatHeader, FormatSaved, FormatErase,
    FormatPoint
<1>2. call'.op # "delete"
  BY <1>1, OutsideDelete DEF At, HeaderPoint, DeletePoint, FormatPoint
<1>3. \/ pc' \in FormatPoint \cup {"done"}
      \/ /\ pc' \in HeaderPoint /\ h'.copy = 0
         /\ h'.back \in {"m_header", "m_saved"}
  BY DEF FormatNext, FormatBlock, FormatHeader, FormatSaved, FormatErase,
    LoadHeader, SaveHeader, NoHeader, Return, Goto, FormatPoint, HeaderPoint
<1> QED
  BY <1>2, <1>3, NotDeleting DEF At, HeaderPoint, DeletePoint, FormatPoint

\* A library that has forgotten its call is at no delete.
LEMMA ForgetClears ==
  ASSUME Forget
  PROVE  DeleteClears'
BY NotDeleting DEF Forget, NoCall, At, HeaderPoint, DeletePoint

\* Of the calls of the client only that of a delete is one.
LEMMA RequestClears ==
  ASSUME HealthyStep, DeleteClears, Request
  PROVE  DeleteClears'
<1>1. ClientKeys \subseteq Key
  BY ClientAssumption, ConstantTypes
<1>2. ASSUME pc' \in {"done", "l_start", "v_start", "w_start", "c_start",
                       "m_block", "s_block"},
             call'.op # "delete"
      PROVE  DeleteClears'
  BY <1>2, NotDeleting DEF At, HeaderPoint, DeletePoint
<1>3. ASSUME NEW mode, NEW key, Find(mode, key)
      PROVE  DeleteClears'
  BY <1>2, <1>3 DEF Find, Search, NoCall
<1>4. ASSUME NEW addr, NEW len, Load(addr, len)
      PROVE  DeleteClears'
  BY <1>2, <1>4 DEF Load, Enter, Refuse, Return, NoCall
<1>5. ASSUME NEW op \in {"save", "rewrite"}, NEW addr, NEW key, NEW val,
             NEW len, NEW point \in {"v_start", "w_start"},
             Write(op, addr, key, val, len, point)
      PROVE  DeleteClears'
  BY <1>2, <1>5 DEF Write, Enter, Refuse, Return, NoCall
<1>6. ASSUME NEW key \in ClientKeys, DeleteData(key)
      PROVE  DeleteClears'
  <2>1. call'.key = key /\ Delete(key, "done") /\ "done" \in DeleteReturn
    BY <1>6 DEF DeleteData, NoCall, DeleteReturn
  <2> QED
    BY <1>1, <2>1, DeleteStarts
<1>7. ASSUME NEW addr, ClearAddress(addr)
      PROVE  DeleteClears'
  BY <1>2, <1>7 DEF ClearAddress, Enter, NoCall
<1>8. ASSUME Format
      PROVE  DeleteClears'
  BY <1>2, <1>8 DEF Format, Enter, NoCall
<1> QED
  BY <1>3, <1>4, <1>5, <1>6, <1>7, <1>8 DEF Request, Save, Rewrite

\* Every step of a healthy drive preserves the invariant.
LEMMA NextClears ==
  ASSUME HealthyStep, DeleteClears, [Next]_vars
  PROVE  DeleteClears'
<1>1. CASE Request
  BY <1>1, RequestClears
<1>2. CASE DataNext
  BY <1>2, HeaderLoadClears, HeaderSaveClears, SearchClears, DeleteNextClears,
    RewriteClears, DataClears DEF DataNext, HeaderNext
<1>3. CASE FormatNext
  BY <1>3, FormatClears
<1>4. CASE Answer \/ Crash
  BY <1>4, ForgetClears DEF Answer, Crash
<1>5. CASE Drive
  BY <1>5, HealthyDrive DEF Drive, HealthyStep, IInv, TypeOK
<1>6. CASE UNCHANGED vars
  BY <1>6 DEF vars, device, control, frames, DeleteClears, At
<1> QED
  BY <1>1, <1>2, <1>3, <1>4, <1>5, <1>6 DEF Next, Library

-----------------------------------------------------------------------------
(* The layout of the drive.                                                *)

\* A page of a table is a page of data.
LEMMA PageIsData ==
  ASSUME NEW mb \in Nat, NEW i \in Index
  PROVE  ~IsMacroblockAddress(PageAddress(mb, i))
<1>1. i \in Nat /\ Reserved + i \in Nat /\ Reserved + i < PerBlock
  BY Geometry DEF Index, DataPages
<1>2. PageAddress(mb, i) = mb * PerBlock + (Reserved + i)
  BY <1>1, Geometry DEF PageAddress, MacroblockAddress
<1>3. (mb * PerBlock + (Reserved + i)) % PerBlock = Reserved + i
  BY <1>1, Geometry, DivUnique
<1> QED
  BY <1>1, <1>2, <1>3, Geometry DEF IsMacroblockAddress

\* A header whose page is in the storage is on a page of headers.
LEMMA HeaderIsHeader ==
  ASSUME NEW mb \in Nat, NEW i \in Copy
  PROVE  IsMacroblockAddress(HeaderAddress(mb, i))
<1>1. i \in Nat /\ i < Reserved /\ i < PerBlock /\ PerBlock \in Nat
  BY Geometry DEF Copy
<1>2. (mb * PerBlock + i) % PerBlock = i
  BY <1>1, DivUnique
<1> QED
  BY <1>1, <1>2 DEF HeaderAddress, MacroblockAddress, IsMacroblockAddress

\* The tables the library makes are tables of clients.
LEMMA UserTables ==
  ASSUME NEW toc \in Toc, UserTable(toc)
  PROVE  /\ UserTable(EmptyToc)
         /\ \A key : UserTable(Cleared(toc, key))
         /\ UserTable(Formatted(toc))
         /\ \A i \in Index : UserTable(Blocked(toc, i))
         /\ \A i \in Index, key \in UserKey : UserTable(Registered(toc, i, key))
<1>1. UserTable(EmptyToc)
  BY DEF UserTable, EmptyToc, EmptyUnit
<1>2. \A key : UserTable(Cleared(toc, key))
  BY DEF UserTable, Cleared, ClearedUnit, EmptyUnit
<1>3. UserTable(Formatted(toc))
  BY DEF UserTable, Formatted, FormattedUnit, EmptyUnit, BlockedUnit
<1>4. \A i \in Index : UserTable(Blocked(toc, i))
  BY DEF UserTable, Blocked, Toc, Unit
<1>5. \A i \in Index, key \in UserKey : UserTable(Registered(toc, i, key))
  BY DEF UserTable, Registered, Toc, Unit
<1> QED
  BY <1>1, <1>2, <1>3, <1>4, <1>5

\* So is one created from pages of data that hold data of clients.
LEMMA CreatedIsTable ==
  ASSUME MemLayout, NEW mb \in Nat
  PROVE  IsTable(HeaderPage(CreatedToc(mem, mb)))
<1>1. ASSUME NEW i \in Index, CreatedUnit(mem, PageAddress(mb, i)).st = "OK"
      PROVE  CreatedUnit(mem, PageAddress(mb, i)).key \in UserKey
  <2> DEFINE a == PageAddress(mb, i)
  <2>1. /\ a \in Addr /\ Readable(mem, a)
        /\ CreatedUnit(mem, a) = [key |-> mem[a].key, st |-> "OK"]
    BY <1>1 DEF CreatedUnit, BlockedUnit, EmptyUnit
  <2>2. ~IsMacroblockAddress(a)
    BY PageIsData
  <2> QED
    BY <2>1, <2>2 DEF MemLayout, Readable
<1> QED
  BY <1>1 DEF IsTable, HeaderPage, UserTable, CreatedToc

\* An empty header is a table.
LEMMA NoHeaderIsTable ==
  IsTable(NoHeader.page) /\ IsTable(NoRewrite.header.page)
BY DEF NoHeader, NoRewrite, IsTable, HeaderPage, UserTable, EmptyToc, EmptyUnit

\* Writing a page where it belongs keeps the layout of the drive.
LEMMA MemLayoutSave ==
  ASSUME MemLayout, mem \in Image, NEW a, NEW pg, mem' = [mem EXCEPT ![a] = pg],
         IF IsMacroblockAddress(a) THEN IsTable(pg) ELSE pg.key \in UserKey
  PROVE  MemLayout'
BY DEF MemLayout, Image, IsTable

\* Erasing pages does, too.
LEMMA MemLayoutErase ==
  ASSUME MemLayout, mem \in Image, NEW S, mem' = Erased(mem, S)
  PROVE  MemLayout'
BY DEF MemLayout, Image, Erased

\* Loading and saving headers keeps the library within its points.
LEMMA HeaderKeepsPoint ==
  ASSUME HealthyStep, HeaderNext, UNCHANGED <<s, call, d, w, l>>,
         NEW P, P \cap HeaderPoint = {}
  PROVE  (At(P)' <=> At(P)) /\ (Within(P)' <=> Within(P))
<1>1. /\ h \in HeaderFrame /\ h.back \in HeaderReturn /\ DeviceType
      /\ HeaderPoint = {"h_load", "h_save"} /\ pc \in HeaderPoint
  BY DEF HealthyStep, IInv, TypeOK, HeaderType, HeaderFrame, HeaderPoint,
    HeaderNext, HeaderLoad, HeaderSave
<1>2. h.back \notin HeaderPoint
  BY <1>1 DEF HeaderReturn
<1>3. h'.back = h.back /\ pc' \in {"h_save", h.back}
  BY <1>1, HealthyHeaderLoad, HealthyHeaderSave DEF HealthyStep, HeaderNext
<1>4. \A Q : Q \cap HeaderPoint = {} => (At(Q)' <=> At(Q))
  BY <1>1, <1>2, <1>3 DEF At
<1>5. SearchPoint \cap HeaderPoint = {}
  BY DEF SearchPoint, HeaderPoint
<1> QED
  BY <1>4, <1>5 DEF Within

\* So do the steps of a search, seen from outside of it.
LEMMA SearchKeepsPoint ==
  ASSUME HealthyStep, SearchNext, UNCHANGED <<call, d, w, l>>,
         NEW P, P \cap (HeaderPoint \cup SearchPoint) = {}
  PROVE  Within(P)' <=> Within(P)
<1>1. s \in SearchFrame /\ s.back \in SearchReturn
  BY DEF HealthyStep, IInv, TypeOK, SearchType, SearchFrame
<1>2. s'.back = s.back /\ pc \in SearchPoint
  BY <1>1 DEF SearchFrame, SearchNext, SearchBlock, SearchHeader, SearchUnit,
    SearchPoint
<1>3. \/ pc' \in SearchPoint
      \/ pc' = s.back
      \/ pc' = "h_load" /\ h'.back = "s_header"
  BY <1>2 DEF SearchNext, SearchBlock, SearchHeader, SearchUnit, LoadHeader,
    NoHeader, Return, Goto, control, SearchPoint
<1> QED
  BY <1>1, <1>2, <1>3 DEF Within, At, HeaderPoint, SearchPoint, SearchReturn

\* What the steps of headers and searches leave of the points of rewrite.
LEMMA WriteLayoutKept ==
  ASSUME WriteLayout, UNCHANGED <<call, d, w>>,
         Within(RewritePoint)' <=> Within(RewritePoint),
         Within(RewritePoint \ {"w_start"})' <=> Within(RewritePoint \ {"w_start"}),
         At({"v_start", "v_check", "v_saved"})' <=> At({"v_start", "v_check", "v_saved"}),
         At(DeletePoint)' <=> At(DeletePoint),
         Within({"w_target", "w_erase", "w_found", "w_switch", "w_reload", "w_page"})' <=>
           Within({"w_target", "w_erase", "w_found", "w_switch", "w_reload", "w_page"}),
         At({"w_switch", "w_reload", "w_page"})' => At({"w_switch", "w_reload", "w_page"}),
         pc' \notin {"w_rest", "w_next"}
  PROVE  WriteLayout'
BY DEF WriteLayout, Writing, Rewriting, IsLastPage

\* Loading a header, or creating it, preserves the layout.
LEMMA HeaderLayout ==
  ASSUME HealthyStep, DeleteClears, Layout, HeaderNext,
         UNCHANGED <<s, call, d, w, l>>
  PROVE  Layout'
<1>1. /\ h \in HeaderFrame /\ h.back \in HeaderReturn /\ h.mb \in Nat
      /\ h.copy \in Copy /\ mem \in Image /\ DeviceType
  BY DEF HealthyStep, IInv, TypeOK, HeaderType, HeaderFrame, DeviceType,
    Macroblock
<1>2. pc' \notin {"w_rest", "w_next"}
  BY <1>1, HealthyHeaderLoad, HealthyHeaderSave DEF HealthyStep, HeaderNext,
    HeaderReturn
<1>3. WriteLayout'
  <2>1. /\ RewritePoint \cap HeaderPoint = {}
        /\ (RewritePoint \ {"w_start"}) \cap HeaderPoint = {}
        /\ {"v_start", "v_check", "v_saved"} \cap HeaderPoint = {}
        /\ DeletePoint \cap HeaderPoint = {}
        /\ {"w_target", "w_erase", "w_found", "w_switch", "w_reload", "w_page"}
              \cap HeaderPoint = {}
        /\ {"w_switch", "w_reload", "w_page"} \cap HeaderPoint = {}
    BY DEF RewritePoint, HeaderPoint, DeletePoint
  <2> QED
    BY <1>2, <2>1, HeaderKeepsPoint, WriteLayoutKept DEF Layout
<1>4. CASE HeaderLoad
  <2>1. /\ mem' = mem
        /\ \/ \E i \in ValidCopies(mem, h.mb) :
                 h'.page = mem[HeaderAddress(h.mb, i)]
           \/ h'.page = HeaderPage(CreatedToc(mem, h.mb))
    BY <1>1, <1>4, HealthyHeaderLoad DEF HealthyStep
  <2>2. ASSUME NEW i \in ValidCopies(mem, h.mb)
        PROVE  IsTable(mem[HeaderAddress(h.mb, i)])
    BY <1>1, HeaderIsHeader DEF ValidCopies, Readable, Layout, MemLayout
  <2>3. IsTable(HeaderPage(CreatedToc(mem, h.mb)))
    BY <1>1, CreatedIsTable DEF Layout
  <2>4. IsTable(h.page)'
    BY <2>1, <2>2, <2>3 DEF IsTable
  <2>5. MemLayout'
    BY <2>1 DEF Layout, MemLayout, IsTable
  <2> QED
    BY <1>3, <2>4, <2>5 DEF Layout, IsTable
<1>5. CASE HeaderSave
  <2>1. /\ mem' = [mem EXCEPT ![HeaderAddress(h.mb, h.copy)] = h.page]
        /\ h' = h
    BY <1>1, <1>5, HealthyHeaderSave DEF HealthyStep
  <2>2. IsMacroblockAddress(HeaderAddress(h.mb, h.copy))
    BY <1>1, HeaderIsHeader
  <2>3. MemLayout'
    BY <1>1, <2>1, <2>2, MemLayoutSave DEF Layout
  <2> QED
    BY <1>3, <2>1, <2>3 DEF Layout, IsTable
<1> QED
  BY <1>4, <1>5 DEF HeaderNext

\* A search finds pages of data.
LEMMA SearchLayout ==
  ASSUME HealthyStep, Layout, SearchNext, UNCHANGED <<call, d, w, l>>
  PROVE  Layout'
<1>1. /\ s \in SearchFrame /\ s.back \in SearchReturn /\ s.mb \in Nat
      /\ mem' = mem
  <2>1. s \in SearchFrame
    BY DEF HealthyStep, IInv, TypeOK, SearchType
  <2>2. s.back \in SearchReturn /\ s.mb \in Nat
    BY <2>1, Geometry DEF SearchFrame
  <2>3. mem' = mem
    BY DEF SearchNext, SearchBlock, SearchHeader, SearchUnit, device
  <2> QED
    BY <2>1, <2>2, <2>3
<1>2. pc \in SearchPoint /\ pc' \notin {"w_rest", "w_next"}
  BY <1>1 DEF SearchNext, SearchBlock, SearchHeader, SearchUnit, LoadHeader,
    Return, Goto, control, SearchPoint, SearchReturn
<1>3. WriteLayout'
  <2>1. /\ RewritePoint \cap (HeaderPoint \cup SearchPoint) = {}
        /\ (RewritePoint \ {"w_start"}) \cap (HeaderPoint \cup SearchPoint) = {}
        /\ {"w_target", "w_erase", "w_found", "w_switch", "w_reload", "w_page"}
              \cap (HeaderPoint \cup SearchPoint) = {}
    BY DEF RewritePoint, HeaderPoint, SearchPoint
  <2>2. pc' \in SearchPoint \cup SearchReturn \/ (pc' = "h_load" /\ h'.back = "s_header")
    BY <1>1, <1>2 DEF SearchNext, SearchBlock, SearchHeader, SearchUnit,
      LoadHeader, NoHeader, Return, Goto, control, SearchPoint
  <2>3. /\ ~At(DeletePoint) /\ ~At(DeletePoint)'
        /\ ~At({"v_start", "v_check", "v_saved"})
        /\ ~At({"v_start", "v_check", "v_saved"})'
        /\ ~At({"w_switch", "w_reload", "w_page"})'
    BY <1>2, <2>2 DEF At, SearchPoint, SearchReturn, HeaderPoint, DeletePoint
  <2> QED
    BY <1>2, <2>1, <2>3, SearchKeepsPoint, WriteLayoutKept DEF Layout
<1>4. s'.found # None => s'.found \in DataAddr
  <2>1. CASE s'.found = s.found
    BY <2>1 DEF Layout
  <2>2. CASE \E i \in Index : s'.found = PageAddress(s.mb, i) /\ pc \in {"s_header", "s_unit"}
    <3>1. s.mb < MacroblocksCount
      BY <2>2 DEF HealthyStep, IInv, LoopsBounded, At
    <3> QED
      BY <1>1, <2>2, <3>1, AddressRoundTrip
  <2>3. CASE SearchBlock
    BY <2>1, <2>3 DEF SearchBlock
  <2>4. CASE SearchHeader
    <3>1. /\ pc = "s_header"
          /\ \/ s'.found = s.found
             \/ \E i \in Index : s'.found = PageAddress(s.mb, i)
      BY <1>1, <2>4 DEF SearchHeader, SearchFrame, EmptyFrom, Least
    <3> QED
      BY <2>1, <2>2, <3>1
  <2>5. CASE SearchUnit
    <3>1. /\ pc = "s_unit"
          /\ \/ s'.found = s.found
             \/ \E i \in Index : s'.found = PageAddress(s.mb, i)
      BY <1>1, <2>5 DEF SearchUnit, SearchFrame, Candidates, Least
    <3> QED
      BY <2>1, <2>2, <3>1
  <2> QED
    BY <2>3, <2>4, <2>5 DEF SearchNext
<1>5. IsTable(h'.page)
  BY NoHeaderIsTable DEF Layout, SearchNext, SearchBlock, SearchHeader,
    SearchUnit, LoadHeader, NoHeader
<1>6. MemLayout'
  BY <1>1 DEF Layout, MemLayout, IsTable
<1> QED
  BY <1>3, <1>4, <1>5, <1>6 DEF Layout, IsTable

\* A step to a point that writes no record preserves the part on writes.
LEMMA NotWriting ==
  ASSUME ~Writing'
  PROVE  WriteLayout'
<1>1. ~Within(RewritePoint)'
  BY DEF Writing
<1>2. /\ ~Within(RewritePoint \ {"w_start"})'
      /\ ~Within({"w_target", "w_erase", "w_found", "w_switch", "w_reload", "w_page"})'
      /\ ~At({"w_switch", "w_reload", "w_page"})'
      /\ pc' \notin {"w_rest", "w_next"}
  BY <1>1 DEF Within, At, RewritePoint
<1> QED
  BY <1>2 DEF WriteLayout, Writing, Rewriting

\* A delete keeps the layout.
LEMMA DeleteLayout ==
  ASSUME HealthyStep, DeleteClears, Layout, DeleteNext
  PROVE  Layout'
<1>1. /\ d \in DeleteFrame /\ d.back \in DeleteReturn /\ mem' = mem
      /\ UNCHANGED <<s, call, w>> /\ d'.back = d.back
      /\ h.page \in Page /\ st \in Status
  <2>1. pc # "d_erase"
    BY DEF DeleteClears
  <2> QED
    BY <2>1 DEF HealthyStep, IInv, TypeOK, HeaderType, HeaderFrame, DataType,
      DeleteFrame, DeleteNext, DeleteBlock, DeleteHeader, DeleteSaved,
      DeleteErase, device
<1>2. /\ pc \in DeletePoint
      /\ \/ pc' \in DeletePoint
         \/ pc' \in HeaderPoint /\ h'.back \in DeletePoint
         \/ pc' = d.back
         \/ st # "OK" /\ pc' = d.back
  BY DEF DeleteNext, DeleteBlock, DeleteHeader, DeleteSaved, DeleteErase,
    LoadHeader, SaveHeader, NoHeader, Return, Goto, DeletePoint, HeaderPoint
<1>3. WriteLayout'
  BY <1>1, <1>2 DEF Layout, WriteLayout, Writing, Rewriting, Within, At,
    DeletePoint, HeaderPoint, SearchPoint, RewritePoint, DeleteReturn
<1>4. IsTable(h'.page)
  <2>1. CASE DeleteHeader /\ st = "OK"
    <3>1. h'.page = [h.page EXCEPT !.toc = Cleared(@, d.key)]
      BY <2>1 DEF DeleteHeader, SaveHeader, NoHeader
    <3>2. h'.page.key = h.page.key /\ h'.page.toc = Cleared(h.page.toc, d.key)
      BY <1>1, <3>1 DEF Page
    <3>3. h.page.toc \in Toc /\ UserTable(h.page.toc) /\ h.page.key = NoKey
      BY <1>1 DEF Page, Layout, IsTable
    <3> QED
      BY <3>2, <3>3, UserTables DEF IsTable
  <2>2. CASE ~(DeleteHeader /\ st = "OK")
    BY <2>2, NoHeaderIsTable DEF Layout, DeleteNext, DeleteBlock, DeleteHeader,
      DeleteSaved, DeleteErase, LoadHeader, NoHeader
  <2> QED
    BY <2>1, <2>2
<1>5. MemLayout'
  BY <1>1 DEF Layout, MemLayout, IsTable
<1> QED
  BY <1>1, <1>3, <1>4, <1>5 DEF Layout, IsTable

\* save, load and clearAddress keep it.
LEMMA DataLayout ==
  ASSUME HealthyStep, Layout, SaveNext \/ LoadNext \/ ClearNext
  PROVE  Layout'
<1>1. /\ mem' = mem /\ UNCHANGED <<s, call>> /\ w'.header = w.header
  BY DEF HealthyStep, IInv, TypeOK, DataType, RewriteFrame, SaveNext, SaveStart,
    SaveCheck, SaveRewritten, SaveUndone, LoadNext, LoadStart, LoadCopy,
    LoadDeleted, ClearNext, ClearStart, ClearLoad, device
<1>2. IsTable(h'.page)
  BY NoHeaderIsTable DEF Layout, SaveNext, SaveStart, SaveCheck, SaveRewritten,
    SaveUndone, LoadNext, LoadStart, LoadCopy, LoadDeleted, ClearNext,
    ClearStart, ClearLoad, LoadHeader, NoHeader
<1>3. MemLayout'
  BY <1>1 DEF Layout, MemLayout, IsTable
<1>4. WriteLayout'
  <2>1. CASE SaveStart \/ SaveCheck
    <3>1. /\ pc \in {"v_start", "v_check"} /\ UNCHANGED d
          /\ \/ pc' \in {"done", "w_start"}
             \/ pc' = "h_load" /\ h'.back = "v_check"
      BY <2>1 DEF SaveStart, SaveCheck, LoadHeader, NoHeader, Return, Goto
    <3> QED
      BY <1>1, <3>1 DEF Layout, WriteLayout, Writing, Rewriting, Within, At,
        DeletePoint, HeaderPoint, SearchPoint, RewritePoint
  <2>2. CASE SaveRewritten \/ SaveUndone \/ LoadNext \/ ClearNext
    <3>1. \/ pc' \in {"done", "l_copy", "c_load"}
          \/ pc' = "d_block" /\ d'.back # "w_deleted"
      BY <2>2 DEF SaveRewritten, SaveUndone, LoadNext, LoadStart, LoadCopy,
        LoadDeleted, ClearNext, ClearStart, ClearLoad, Delete, NoDelete,
        Return, Goto, control
    <3> QED
      BY <3>1, NotWriting DEF Writing, Within, At, DeletePoint, HeaderPoint,
        SearchPoint, RewritePoint
  <2> QED
    BY <2>1, <2>2 DEF SaveNext
<1> QED
  BY <1>1, <1>2, <1>3, <1>4 DEF Layout, IsTable

\* format keeps it.
LEMMA FormatLayout ==
  ASSUME HealthyStep, Layout, FormatNext
  PROVE  Layout'
<1>1. /\ UNCHANGED <<s, call, d, w>> /\ h.page \in Page /\ mem \in Image
  BY DEF HealthyStep, IInv, TypeOK, DeviceType, HeaderType, HeaderFrame,
    FormatNext, FormatBlock, FormatHeader, FormatSaved, FormatErase
<1>2. /\ pc \in FormatPoint
      /\ \/ pc' \in FormatPoint \cup {"done"}
         \/ pc' \in HeaderPoint /\ h'.back \in FormatPoint
  BY DEF FormatNext, FormatBlock, FormatHeader, FormatSaved, FormatErase,
    LoadHeader, SaveHeader, NoHeader, Return, Goto, FormatPoint, HeaderPoint
<1>3. WriteLayout'
  BY <1>2, NotWriting DEF Writing, Within, At, DeletePoint, HeaderPoint,
    SearchPoint, RewritePoint, FormatPoint
<1>4. IsTable(h'.page)
  <2>1. CASE FormatHeader /\ st = "OK"
    <3>1. h'.page = [h.page EXCEPT !.toc = Formatted(@)]
      BY <2>1 DEF FormatHeader, SaveHeader, NoHeader
    <3>2. h'.page.key = h.page.key /\ h'.page.toc = Formatted(h.page.toc)
      BY <1>1, <3>1 DEF Page
    <3>3. h.page.toc \in Toc /\ UserTable(h.page.toc) /\ h.page.key = NoKey
      BY <1>1 DEF Page, Layout, IsTable
    <3> QED
      BY <3>2, <3>3, UserTables DEF IsTable
  <2>2. CASE ~(FormatHeader /\ st = "OK")
    BY <2>2, NoHeaderIsTable DEF Layout, FormatNext, FormatBlock, FormatHeader,
      FormatSaved, FormatErase, LoadHeader, NoHeader
  <2> QED
    BY <2>1, <2>2
<1>5. MemLayout'
  <2>1. mem' = mem \/ \E S : mem' = Erased(mem, S)
    BY HealthyErase DEF HealthyStep, FormatNext, FormatBlock, FormatHeader,
      FormatSaved, FormatErase, device
  <2>2. CASE mem' = mem
    BY <2>2 DEF Layout, MemLayout, IsTable
  <2>3. CASE \E S : mem' = Erased(mem, S)
    BY <1>1, <2>3, MemLayoutErase DEF Layout
  <2> QED
    BY <2>1, <2>2, <2>3
<1> QED
  BY <1>1, <1>3, <1>4, <1>5 DEF Layout, IsTable

\* A loss of power keeps it.
LEMMA ForgetLayout ==
  ASSUME HealthyStep, Layout, Forget, mem' = mem \/ \E S : mem' = Erased(mem, S)
  PROVE  Layout'
<1>1. MemLayout'
  <2>1. CASE mem' = mem
    BY <2>1 DEF Layout, MemLayout, IsTable
  <2>2. CASE \E S : mem' = Erased(mem, S)
    BY <2>2, MemLayoutErase DEF Layout, HealthyStep, IInv, TypeOK, DeviceType
  <2> QED
    BY <2>1, <2>2
<1>2. /\ h' = NoHeader /\ w' = NoRewrite /\ s'.found = None /\ pc' = "idle"
  BY DEF Forget, NoSearch
<1>3. WriteLayout'
  BY <1>2, NotWriting DEF Writing, Within, At, DeletePoint, HeaderPoint,
    SearchPoint, RewritePoint
<1> QED
  BY <1>1, <1>2, <1>3, NoHeaderIsTable DEF Layout, IsTable

\* The records clients ask to write have keys of clients.
LEMMA RequestLayout ==
  ASSUME HealthyStep, Layout, Request
  PROVE  Layout'
<1>1. UNCHANGED <<mem, h, w>> /\ (s' = s \/ s'.found = None)
  <2>1. \A mode, key : Find(mode, key) =>
          UNCHANGED <<mem, h, w>> /\ s'.found = None
    BY DEF Find, Search, NoSearch, device
  <2>2. \A addr, len : Load(addr, len) => UNCHANGED <<mem, h, w, s>>
    BY DEF Load, Enter, Refuse, device
  <2>3. \A addr, key, val, len :
          Save(addr, key, val, len) \/ Rewrite(addr, key, val, len)
            => UNCHANGED <<mem, h, w, s>>
    BY DEF Save, Rewrite, Write, Enter, Refuse, device
  <2>4. \A key : DeleteData(key) => UNCHANGED <<mem, h, w, s>>
    BY DEF DeleteData, device
  <2>5. \A addr : ClearAddress(addr) => UNCHANGED <<mem, h, w, s>>
    BY DEF ClearAddress, Enter, device
  <2>6. Format => UNCHANGED <<mem, h, w, s>>
    BY DEF Format, Enter, device
  <2> QED
    BY <2>1, <2>2, <2>3, <2>4, <2>5, <2>6 DEF Request
<1>2. WriteLayout'
  <2>1. ASSUME NEW op \in {"save", "rewrite"}, NEW addr, NEW key \in ClientKeys,
               NEW val, NEW len, NEW point \in {"v_start", "w_start"},
               Write(op, addr, key, val, len, point)
        PROVE  WriteLayout'
    <3>1. call'.op = op /\ call'.key = key
      BY <2>1 DEF Write, Enter, Refuse, NoCall
    <3>2. pc' \in {"done", "v_start", "w_start"} /\ UNCHANGED <<h, s, d, w>>
      BY <2>1 DEF Write, Enter, Refuse, Return
    <3>3. key \in UserKey
      BY ClientAssumption
    <3> QED
      BY <3>1, <3>2, <3>3 DEF WriteLayout, Writing, Rewriting, Within, At,
        DeletePoint, HeaderPoint, SearchPoint, RewritePoint
  <2>2. ASSUME \/ pc' \in {"done", "l_start", "c_start", "m_block"}
               \/ pc' = "s_block" /\ s'.back = "done"
               \/ pc' = "d_block" /\ d'.back = "done"
        PROVE  WriteLayout'
    BY <2>2, NotWriting DEF Writing, Within, At, DeletePoint, HeaderPoint,
      SearchPoint, RewritePoint
  <2>3. ASSUME NEW mode, NEW key, Find(mode, key)
        PROVE  WriteLayout'
    BY <2>2, <2>3 DEF Find, Search, NoSearch
  <2>4. ASSUME NEW addr, NEW len, Load(addr, len)
        PROVE  WriteLayout'
    BY <2>2, <2>4 DEF Load, Enter, Refuse, Return
  <2>5. ASSUME NEW key, DeleteData(key)
        PROVE  WriteLayout'
    BY <2>2, <2>5 DEF DeleteData, Delete, NoDelete
  <2>6. ASSUME NEW addr, ClearAddress(addr)
        PROVE  WriteLayout'
    BY <2>2, <2>6 DEF ClearAddress, Enter
  <2>7. ASSUME Format
        PROVE  WriteLayout'
    BY <2>2, <2>7 DEF Format, Enter
  <2> QED
    BY <2>1, <2>3, <2>4, <2>5, <2>6, <2>7 DEF Request, Save, Rewrite
<1>3. MemLayout'
  BY <1>1 DEF Layout, MemLayout, IsTable
<1> QED
  BY <1>1, <1>2, <1>3 DEF Layout, IsTable
\* rewrite up to the pages to write: it deletes, loads a header, and erases.
LEMMA RewriteEraseLayout ==
  ASSUME HealthyStep, Layout, RewriteEraseNext
  PROVE  Layout'
<1>1. /\ call' = call /\ w \in RewriteFrame /\ call \in Call /\ mem \in Image
      /\ h \in HeaderFrame /\ DeviceType
  BY DEF HealthyStep, IInv, TypeOK, DeviceType, HeaderType, DataType,
    RewriteEraseNext, RewriteStart, RewriteDeleted, RewriteHeader,
    RewriteTarget, RewriteErase, RewriteRest
<1>2. /\ pc \in {"w_start", "w_deleted", "w_header", "w_target", "w_erase", "w_rest"}
      /\ call.op \in {"save", "rewrite"} /\ call.key \in UserKey
  BY DEF Layout, WriteLayout, Writing, Within, At, RewritePoint,
    RewriteEraseNext, RewriteStart, RewriteDeleted, RewriteHeader,
    RewriteTarget, RewriteErase, RewriteRest
<1>3. pc # "w_start" => ~IsMacroblockAddress(call.addr)
  BY <1>2 DEF Layout, WriteLayout, Rewriting, Within, At, RewritePoint
<1>4. pc \in {"w_target", "w_erase", "w_rest"} => w.cur \in DataAddr
  BY DEF Layout, WriteLayout, Within, At
<1>5. pc' = RewriteBack => WriteLayout'
  BY <1>1, <1>2 DEF RewriteBack, WriteLayout, Writing, Rewriting, Within, At,
    DeletePoint, HeaderPoint, SearchPoint, RewritePoint
<1>6. ASSUME NEW f, w' = f, EraseMore(f), f.cur \in DataAddr,
             ~IsMacroblockAddress(call.addr)
      PROVE  WriteLayout'
  <2>1. pc' = "w_rest" \/ (pc' = "s_block" /\ s'.back = "w_target")
    BY <1>6 DEF EraseMore, Search, NoSearch, Goto
  <2> QED
    BY <1>1, <1>2, <1>6, <2>1 DEF WriteLayout, Writing, Rewriting, Within, At,
      DeletePoint, HeaderPoint, SearchPoint, RewritePoint
<1>16. ASSUME NEW f, EraseMore(f)
       PROVE  s'.found = None
  <2>1. \/ Search("EMPTY", call.key, f.erase + 1, "w_target")
        \/ s' = NoSearch
    BY <1>16 DEF EraseMore
  <2>2. NoSearch.found = None
    BY DEF NoSearch
  <2>3. ASSUME Search("EMPTY", call.key, f.erase + 1, "w_target")
        PROVE  s'.found = None
    BY <2>3 DEF Search, NoSearch
  <2> QED
    BY <2>1, <2>2, <2>3
<1>7. call.addr \in Addr /\ (~IsMacroblockAddress(call.addr) => call.addr \in DataAddr)
  BY <1>1 DEF Call, DataAddr
<1>8. CASE RewriteStart
  <2>1. /\ UNCHANGED <<mem, h, s, w>>
        /\ \/ pc' = RewriteBack
           \/ /\ pc' = "d_block" /\ d'.back = "w_deleted"
              /\ ~IsMacroblockAddress(call.addr)
    BY <1>8 DEF RewriteStart, Delete, NoDelete, Return, device
  <2>2. WriteLayout'
    BY <1>1, <1>2, <1>5, <2>1 DEF WriteLayout, Writing, Rewriting, Within, At,
      DeletePoint, HeaderPoint, SearchPoint
  <2> QED
    BY <2>1, <2>2 DEF Layout, MemLayout, IsTable
<1>9. CASE RewriteDeleted
  <2>1. /\ UNCHANGED <<mem, s, w, d>>
        /\ \/ pc' = RewriteBack /\ h' = h
           \/ pc' = "h_load" /\ h'.back = "w_header" /\ h'.page = NoHeader.page
    BY <1>9 DEF RewriteDeleted, LoadHeader, NoHeader, Return, device
  <2>2. WriteLayout'
    BY <1>1, <1>2, <1>3, <1>5, <1>9, <2>1 DEF WriteLayout, Writing, Rewriting,
      Within, At, DeletePoint, HeaderPoint, SearchPoint, RewritePoint,
      RewriteDeleted
  <2> QED
    BY <2>1, <2>2, NoHeaderIsTable DEF Layout, MemLayout, IsTable
<1>10. CASE RewriteHeader
  <2>1. /\ UNCHANGED <<mem, h, d>>
        /\ \/ pc' = RewriteBack /\ w' = w /\ s' = s
           \/ /\ w'.cur = call.addr /\ w'.header.page = h.page
              /\ EraseMore(w')
    <3>1. UNCHANGED <<mem, h, d>>
      BY <1>10 DEF RewriteHeader, device
    <3>2. ASSUME w' = [NoRewrite EXCEPT !.erase = call.addr,
                         !.batch = <<call.addr>>,
                         !.header = [mb |-> h.mb, page |-> h.page],
                         !.cur = call.addr, !.prev = call.addr,
                         !.next = call.addr]
          PROVE  w'.cur = call.addr /\ w'.header.page = h.page
      BY <3>2 DEF NoRewrite
    <3> QED
      BY <1>10, <3>1, <3>2 DEF RewriteHeader, Return
  <2>2. WriteLayout'
    BY <1>3, <1>5, <1>6, <1>7, <1>10, <2>1 DEF RewriteHeader
  <2> QED
    BY <1>16, <2>1, <2>2 DEF Layout, MemLayout, IsTable
<1>11. ASSUME NEW f \in RewriteFrame, w' = Targeted(f), EraseMore(w'),
              f.cur = w.cur, f.header = w.header, pc \in {"w_target", "w_erase"}
       PROVE  WriteLayout' /\ w'.header = w.header /\ s'.found = None
  <2>1. w'.cur = w.cur /\ w'.header = w.header
    BY <1>11 DEF Targeted, RewriteFrame
  <2>2. s'.found = None
    BY <1>16, <1>11
  <2>3. w.cur \in DataAddr /\ ~IsMacroblockAddress(call.addr)
    BY <1>3, <1>4, <1>11
  <2> QED
    BY <1>6, <1>11, <2>1, <2>2, <2>3
<1>12. CASE RewriteTarget
  <2>1. UNCHANGED <<mem, h, d>>
    BY <1>12 DEF RewriteTarget, device
  <2>2. CASE pc' = RewriteBack /\ s' = NoSearch /\ UNCHANGED w
    BY <1>5, <2>1, <2>2 DEF Layout, MemLayout, IsTable, NoSearch
  <2>3. ASSUME NEW x \in Addr,
               \/ w' = [w EXCEPT !.target = x] /\ s' = NoSearch /\ pc' = "w_erase"
               \/ w' = Targeted([w EXCEPT !.target = x]) /\ EraseMore(w')
        PROVE  Layout'
    <3>1. /\ [w EXCEPT !.target = x] \in RewriteFrame
          /\ [w EXCEPT !.target = x].cur = w.cur
          /\ [w EXCEPT !.target = x].header = w.header
      BY <1>1 DEF RewriteFrame
    <3>2. CASE w' = [w EXCEPT !.target = x] /\ s' = NoSearch /\ pc' = "w_erase"
      <4>1. WriteLayout'
        BY <1>1, <1>2, <1>3, <1>4, <1>12, <3>1, <3>2 DEF WriteLayout, Writing,
          Rewriting, Within, At, DeletePoint, HeaderPoint, SearchPoint,
          RewritePoint, RewriteTarget
      <4> QED
        BY <2>1, <3>1, <3>2, <4>1 DEF Layout, MemLayout, IsTable, NoSearch
    <3>3. CASE w' = Targeted([w EXCEPT !.target = x]) /\ EraseMore(w')
      <4>1. pc = "w_target"
        BY <1>12 DEF RewriteTarget
      <4>2. WriteLayout' /\ w'.header = w.header /\ s'.found = None
        BY <1>11, <3>1, <3>3, <4>1
      <4> QED
        BY <2>1, <4>2 DEF Layout, MemLayout, IsTable
    <3> QED
      BY <2>3, <3>2, <3>3
  <2>4. \/ pc' = RewriteBack /\ s' = NoSearch /\ UNCHANGED w
        \/ \E x \in Addr :
             \/ w' = [w EXCEPT !.target = x] /\ s' = NoSearch /\ pc' = "w_erase"
             \/ w' = Targeted([w EXCEPT !.target = x]) /\ EraseMore(w')
    <3>1. 0 \in Addr /\ (st = "OK" => s.found \in Addr)
      BY <1>12, Geometry DEF RewriteTarget, HealthyStep, IInv, LoopsBounded,
        Layout, DataAddr, Addr
    <3>2. (IF st = "OK" THEN s.found ELSE 0) \in Addr
      BY <3>1
    <3> QED
      BY <1>12, <3>2 DEF RewriteTarget, Return, Goto
  <2> QED
    BY <2>2, <2>3, <2>4
<1>13. CASE RewriteErase
  <2>1. PICK status \in {"OK", "BUSY", "ERROR"} :
          /\ ErasePages(BatchPages, status)
          /\ status = "OK" => /\ w' = Targeted([w EXCEPT !.batch = << >>])
                              /\ EraseMore(w')
    BY <1>13 DEF RewriteErase
  <2>2. status = "OK" /\ mem' = Erased(mem, BatchPages)
    BY <2>1, HealthyErase DEF HealthyStep
  <2>3. /\ [w EXCEPT !.batch = << >>] \in RewriteFrame
        /\ [w EXCEPT !.batch = << >>].cur = w.cur
        /\ [w EXCEPT !.batch = << >>].header = w.header
    <3>1. << >> \in Seq(Addr)
      OBVIOUS
    <3> QED
      BY <1>1, <3>1 DEF RewriteFrame
  <2>4. pc = "w_erase" /\ h' = h
    BY <1>13 DEF RewriteErase
  <2>5. WriteLayout' /\ w'.header = w.header /\ s'.found = None
    BY <1>11, <2>1, <2>2, <2>3, <2>4
  <2>6. MemLayout'
    BY <1>1, <2>2, MemLayoutErase DEF Layout
  <2> QED
    BY <2>4, <2>5, <2>6 DEF Layout, IsTable
<1>14. CASE RewriteRest
  <2>1. /\ pc = "w_rest" /\ UNCHANGED <<h, s, d, w>>
        /\ pc' = "w_next" \/ pc' = RewriteBack
        /\ mem' = mem \/ mem' = Erased(mem, BatchPages)
    BY <1>14, HealthyErase DEF RewriteRest, Goto, Return, device, HealthyStep
  <2>2. WriteLayout'
    BY <1>1, <1>2, <1>3, <1>4, <1>5, <2>1 DEF WriteLayout, Writing, Rewriting,
      Within, At, DeletePoint, HeaderPoint, SearchPoint, RewritePoint
  <2>3. MemLayout'
    <3>1. CASE mem' = mem
      BY <3>1 DEF Layout, MemLayout, IsTable
    <3>2. CASE mem' = Erased(mem, BatchPages)
      BY <1>1, <3>2, MemLayoutErase DEF Layout
    <3> QED
      BY <2>1, <3>1, <3>2
  <2> QED
    BY <2>1, <2>2, <2>3 DEF Layout, IsTable
<1> QED
  BY <1>8, <1>9, <1>10, <1>12, <1>13, <1>14 DEF RewriteEraseNext
\* rewrite from the pages to write on: it writes pages of data only.
LEMMA RewriteWriteLayout ==
  ASSUME HealthyStep, Layout, RewriteWriteNext
  PROVE  Layout'
<1>1. /\ w \in RewriteFrame /\ call \in Call /\ mem \in Image
      /\ h \in HeaderFrame /\ h.page \in Page /\ DeviceType /\ LoopsBounded
      /\ w.cur \in Nat /\ w.n \in Nat /\ call.len \in Nat /\ SearchForward
  BY ConstantTypes DEF HealthyStep, IInv, TypeOK, DeviceType, HeaderType, DataType,
    HeaderFrame, RewriteFrame, Call
<1>2. call' = call /\ d' = d
  BY DEF RewriteWriteNext, RewriteNext, RewriteFound, RewriteSwitch,
    RewriteReload, RewritePage, RewriteEnd
<1>3. /\ call.op \in {"save", "rewrite"} /\ call.key \in UserKey
      /\ ~IsMacroblockAddress(call.addr)
  BY DEF Layout, WriteLayout, Writing, Rewriting, Within, At, RewritePoint,
    RewriteWriteNext, RewriteNext, RewriteFound, RewriteSwitch,
    RewriteReload, RewritePage, RewriteEnd
<1>4. pc' = RewriteBack => WriteLayout'
  BY <1>2, <1>3 DEF RewriteBack, WriteLayout, Writing, Rewriting, Within, At,
    DeletePoint, HeaderPoint, SearchPoint, RewritePoint
<1>5. pc \in {"w_found", "w_switch", "w_reload", "w_page"} => w.cur \in DataAddr
  BY DEF Layout, WriteLayout, Within, At
<1>6. pc \in {"w_switch", "w_reload", "w_page"} /\ ~IsLastPage => w.next \in DataAddr
  BY DEF Layout, WriteLayout, At
<1>7. CASE RewriteNext
  <2>1. /\ pc = "w_next" /\ UNCHANGED <<mem, w>>
        /\ \/ pc' = RewriteBack /\ UNCHANGED <<h, s>>
           \/ /\ pc' = "s_block" /\ s'.back = "w_found" /\ s'.found = None
              /\ w.n < call.len /\ UNCHANGED h
           \/ /\ pc' = "h_save" /\ h'.page = w.header.page /\ h'.back = "w_end"
              /\ UNCHANGED s
    BY <1>7 DEF RewriteNext, Search, NoSearch, SaveHeader, NoHeader, Return,
      device
  <2>2. WriteLayout'
    BY <1>2, <1>3, <1>4, <2>1 DEF Layout, WriteLayout, Writing, Rewriting,
      Within, At, DeletePoint, HeaderPoint, SearchPoint, RewritePoint
  <2> QED
    BY <2>1, <2>2 DEF Layout, MemLayout, IsTable
<1>8. CASE RewriteFound
  <2>1. /\ pc = "w_found" /\ UNCHANGED mem /\ s'.found = None
        /\ \/ pc' = RewriteBack /\ UNCHANGED <<h, w>>
           \/ /\ w' = [w EXCEPT !.next = IF st = "OK" THEN s.found ELSE w.cur + 1]
              /\ st = "OK" \/ IsLastPage
              /\ \/ pc' = "w_switch" /\ UNCHANGED h
                 \/ /\ pc' = "h_save" /\ h'.page = w.header.page
                    /\ h'.back = "w_switch"
    BY <1>8 DEF RewriteFound, NoSearch, SaveHeader, NoHeader, Return, device
  <2>2. st = "OK" => s.found \in DataAddr
    BY <1>1, <2>1 DEF LoopsBounded, Layout
  <2>3. CASE w' = [w EXCEPT !.next = IF st = "OK" THEN s.found ELSE w.cur + 1]
               /\ (st = "OK" \/ IsLastPage)
    <3>1. /\ w'.cur = w.cur /\ w'.n = w.n /\ w'.header = w.header
          /\ w'.next = IF st = "OK" THEN s.found ELSE w.cur + 1
      BY <1>1, <2>3 DEF RewriteFrame
    <3>2. ~IsLastPage' => w'.next \in DataAddr
      BY <1>2, <2>2, <2>3, <3>1 DEF IsLastPage
    <3>3. WriteLayout'
      BY <1>2, <1>3, <1>4, <1>5, <2>1, <3>1, <3>2 DEF WriteLayout, Writing,
        Rewriting, Within, At, DeletePoint, HeaderPoint, SearchPoint,
        RewritePoint
    <3> QED
      BY <2>1, <3>1, <3>3 DEF Layout, MemLayout, IsTable
  <2>4. CASE pc' = RewriteBack /\ UNCHANGED <<h, w>>
    BY <1>4, <2>1, <2>4 DEF Layout, MemLayout, IsTable
  <2> QED
    BY <2>1, <2>3, <2>4
<1>9. CASE RewriteSwitch
  <2>1. /\ pc = "w_switch" /\ UNCHANGED <<mem, s, w>>
        /\ \/ pc' \in {RewriteBack, "w_page"} /\ UNCHANGED h
           \/ /\ pc' = "h_load" /\ h'.page = NoHeader.page
              /\ h'.back = "w_reload"
    BY <1>9 DEF RewriteSwitch, LoadHeader, NoHeader, Return, Goto, device
  <2>2. (~IsLastPage)' => w'.next \in DataAddr
    BY <1>2, <1>6, <2>1 DEF IsLastPage
  <2>3. WriteLayout'
    BY <1>2, <1>3, <1>4, <1>5, <2>1, <2>2 DEF WriteLayout, Writing, Rewriting,
      Within, At, DeletePoint, HeaderPoint, SearchPoint, RewritePoint
  <2> QED
    BY <2>1, <2>3, NoHeaderIsTable DEF Layout, MemLayout, IsTable
<1>10. CASE RewriteReload
  <2>1. /\ pc = "w_reload" /\ UNCHANGED <<mem, h, s>>
        /\ \/ pc' = RewriteBack /\ UNCHANGED w
           \/ pc' = "w_page"
    BY <1>10 DEF RewriteReload, Return, Goto, device
  <2>2. /\ w'.cur = w.cur /\ w'.n = w.n /\ w'.next = w.next
        /\ w'.header.page \in {w.header.page, h.page}
    <3>1. ASSUME w' = [w EXCEPT !.header = [mb |-> h.mb, page |-> h.page],
                                !.block = MacroblockIndex(w.cur),
                                !.loaded = TRUE]
          PROVE  /\ w'.cur = w.cur /\ w'.n = w.n /\ w'.next = w.next
                 /\ w'.header.page = h.page
      BY <1>1, <3>1 DEF RewriteFrame
    <3> QED
      BY <1>10, <3>1 DEF RewriteReload
  <2>3. ~IsLastPage' => w'.next \in DataAddr
    BY <1>2, <1>6, <2>1, <2>2 DEF IsLastPage
  <2>4. WriteLayout'
    BY <1>2, <1>3, <1>4, <1>5, <2>1, <2>2, <2>3 DEF WriteLayout, Writing,
      Rewriting, Within, At, DeletePoint, HeaderPoint, SearchPoint, RewritePoint
  <2> QED
    BY <2>1, <2>2, <2>4 DEF Layout, MemLayout, IsTable
<1>11. CASE RewritePage
  <2>1. PICK status \in {"OK", "BUSY", "ERROR"} :
          /\ SavePage(w.cur, CurrentPage, status)
          /\ status = "OK" => pc' = "w_next" /\ w' = PageWritten
    BY <1>11 DEF RewritePage, Return
  <2>2. /\ pc' = "w_next" /\ w' = PageWritten
        /\ mem' = [mem EXCEPT ![w.cur] = CurrentPage]
    BY <1>1, <2>1, HealthySave DEF HealthyStep
  <2>3. pc = "w_page" /\ UNCHANGED <<h, s>>
    BY <1>11 DEF RewritePage
  <2>4. w.cur \in DataAddr /\ ~IsMacroblockAddress(w.cur)
    BY <1>5, <2>3 DEF DataAddr
  <2>5. CurrentPage.key = call.key
    BY DEF CurrentPage, DataPage
  <2>6. MemLayout'
    BY <1>1, <1>3, <2>2, <2>4, <2>5, MemLayoutSave DEF Layout
  <2>7. /\ w'.cur = w.next /\ w'.n = w.n + 1
        /\ w'.header.page.toc
             = Registered(w.header.page.toc, CurrentIndex, call.key)
        /\ w'.header.page.key = w.header.page.key
    BY <1>1, <2>2 DEF PageWritten, RewriteFrame, Page
  <2>8. IsTable(w'.header.page)
    <3>1. CurrentIndex \in Index /\ w.header.page.toc \in Toc
      <4>1. w.cur \in DataAddr
        BY <2>4
      <4> QED
        BY <1>1, <4>1, PageIndexInRange DEF CurrentIndex, RewriteFrame, Page
    <3>2. UserTable(w.header.page.toc) /\ w.header.page.key = NoKey
      BY DEF Layout, IsTable
    <3> QED
      BY <1>3, <2>7, <3>1, <3>2, UserTables DEF IsTable
  <2>9. w'.n < call'.len => w'.cur \in DataAddr
    BY <1>1, <1>2, <1>6, <2>3, <2>7 DEF IsLastPage
  <2>10. WriteLayout'
    BY <1>2, <1>3, <2>2, <2>9 DEF WriteLayout, Writing, Rewriting, Within, At,
      DeletePoint, HeaderPoint, SearchPoint, RewritePoint
  <2> QED
    BY <2>3, <2>6, <2>8, <2>10 DEF Layout, IsTable
<1>12. CASE RewriteEnd
  BY <1>4, <1>12 DEF RewriteEnd, Return, Layout, MemLayout, IsTable, device
<1> QED
  BY <1>7, <1>8, <1>9, <1>10, <1>11, <1>12 DEF RewriteWriteNext

\* Every step of a healthy drive preserves the layout.
LEMMA NextLayout ==
  ASSUME HealthyStep, DeleteClears, Layout, [Next]_vars
  PROVE  Layout'
<1>1. CASE Request
  BY <1>1, RequestLayout
<1>2. CASE DataNext
  BY <1>2, HeaderLayout, SearchLayout, DeleteLayout, RewriteEraseLayout,
    RewriteWriteLayout, DataLayout DEF DataNext
<1>3. CASE FormatNext
  BY <1>3, FormatLayout
<1>4. CASE Answer \/ Crash
  BY <1>4, ForgetLayout DEF Answer, Crash, PowerLoss, device
<1>5. CASE Drive
  BY <1>5, HealthyDrive DEF Drive, HealthyStep, IInv, TypeOK
<1>6. CASE UNCHANGED vars
  BY <1>6 DEF vars, device, control, frames, Layout, MemLayout, IsTable,
    WriteLayout, Writing, Rewriting, Within, At, IsLastPage
<1> QED
  BY <1>1, <1>2, <1>3, <1>4, <1>5, <1>6 DEF Next, Library

-----------------------------------------------------------------------------

\* The invariant of the library, with what more is true on a healthy drive.
HInv == IInv /\ BusyCounted /\ (Healthy => DeleteClears /\ Layout)

\* A library on a drive that is all erased satisfies it,
LEMMA InitHInv == Init => HInv
<1> SUFFICES ASSUME Init PROVE HInv
  OBVIOUS
<1>1. BusyCounted
  BY DEF Init, DeviceInit, BusyCounted
<1>2. DeleteClears
  BY DEF Init, HeaderInit, NoCall, DeleteClears, At, HeaderPoint, DeletePoint
<1>3. Layout
  <2>1. MemLayout
    BY DEF Init, DeviceInit, MemLayout
  <2>2. WriteLayout
    BY DEF Init, HeaderInit, WriteLayout, Writing, Rewriting, Within, At,
      HeaderPoint, SearchPoint, DeletePoint, RewritePoint
  <2> QED
    BY <2>1, <2>2, NoHeaderIsTable DEF Init, HeaderInit, NoSearch, Layout
<1> QED
  BY <1>1, <1>2, <1>3, InitIInv DEF HInv

\* and every step preserves it.
LEMMA NextHInv == HInv /\ [Next]_vars => HInv'
<1> SUFFICES ASSUME HInv, [Next]_vars PROVE HInv'
  OBVIOUS
<1>1. IInv' /\ BusyCounted' /\ (Healthy' => Healthy)
  BY NextIInv, HealthyBefore DEF HInv, IInv, TypeOK
<1>2. Healthy' => DeleteClears' /\ Layout'
  BY <1>1, NextClears, NextLayout DEF HInv, HealthyStep
<1> QED
  BY <1>1, <1>2 DEF HInv

\* So it holds in every behaviour.
LEMMA HealthyInductive == Spec => []HInv
BY InitHInv, NextHInv, PTL DEF Spec

\* deleteData that answers STORAGE_OK has left nothing to be found under the
\* key (StorageData.cpp deleteData): no table lists a page of it, in whatever
\* macroblock, whatever the tables and pages were when it started, also if
\* headers were torn by a loss of power before.
THEOREM DeletedIsGone == Spec => [](Healthy => DeleteRemoves)
<1>1. HInv => (Healthy => DeleteRemoves)
  <2> SUFFICES ASSUME HInv, Healthy, pc = "done", call.op = "delete",
                      NEW a \in FoundAt(mem, call.key)
               PROVE  FALSE
    BY DEF DeleteRemoves
  <2> DEFINE b == MacroblockIndex(a)
  <2>1. /\ a \in DataAddr /\ b \in Searched
        /\ Table(mem, b)[PageIndex(a)].st = "OK"
        /\ Table(mem, b)[PageIndex(a)].key = call.key
    BY DEF FoundAt, Listed, ListedKey
  <2>2. Unlisted(Table(mem, b), call.key)
    BY <2>1 DEF HInv, DeleteClears, NoRecord
  <2>3. PageIndex(a) \in Index
    BY <2>1, SearchedPage
  <2> QED
    BY <2>1, <2>2, <2>3 DEF Unlisted
<1> QED
  BY <1>1, HealthyInductive, PTL
=============================================================================
