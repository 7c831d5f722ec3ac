-------------------------- MODULE StorageWriteProofs --------------------------
(***************************************************************************)
(* What rewrite and save leave on a drive that has had no fault but losses *)
(* of power: a record goes to the pages that were erased for it, the       *)
(* tables list all of them under its key and no other page.                *)
(***************************************************************************)
EXTENDS StorageFindProofs

-----------------------------------------------------------------------------
(* What is true while a record is written, as long as the drive is healthy. *)

\* The points that have loaded a header.
LoadPoint == {"s_header", "d_header", "w_header", "w_reload", "v_check", "m_header"}

\* A header that was loaded is the table of its macroblock on the drive, and
\* one that is saved because none was there takes the place of none.
HeaderIsTable ==
  /\ pc = "h_load" => h.back \in LoadPoint
  /\ pc \in LoadPoint \cup {"s_unit"} =>
       st = "OK" /\ ValidCopies(mem, h.mb) # {} /\ h.page.toc = Table(mem, h.mb)
  /\ pc = "h_save" /\ h.back \in LoadPoint => ValidCopies(mem, h.mb) = {}
  /\ At({"s_header", "s_unit"}) => h.mb = s.mb
  /\ At({"v_check", "w_header"}) => h.mb = MacroblockIndex(call.addr)
  /\ At({"w_reload"}) => h.mb = MacroblockIndex(w.cur)
  /\ pc = "h_save" /\ h.back \in {"w_switch", "w_end"} =>
       h.mb = w.header.mb /\ h.page = w.header.page

\* A table has no empty page from an index on.
NoneEmpty(toc, i) == \A j \in Index : j >= i => toc[j].st # "EMPTY"

\* Page a is the one that a search for an empty page from an address on finds,
\* and the headers it goes through are all there.
NextEmpty(m, from, a) ==
  /\ a \in DataAddr /\ MacroblockIndex(a) \in Searched
  /\ MacroblockIndex(from) <= MacroblockIndex(a)
  /\ \A b \in Searched : MacroblockIndex(from) <= b /\ b <= MacroblockIndex(a) =>
       ValidCopies(m, b) # {}
  /\ \A b \in Searched : MacroblockIndex(from) <= b /\ b < MacroblockIndex(a) =>
       NoneEmpty(Table(m, b), PageIndex(from))
  /\ PageIndex(a) \in EmptyFrom(Table(m, MacroblockIndex(a)), PageIndex(from))

\* rewrite searches for empty pages, and finds the next one.
EmptySearch ==
  /\ At(SearchPoint) /\ s.back \in {"w_target", "w_found"} => s.mode = "EMPTY"
  /\ At(SearchPoint) /\ s.mode = "EMPTY" => s.found = None /\ pc # "s_unit"
  /\ At(SearchPoint) /\ s.mode = "EMPTY" =>
       \A b \in Searched : MacroblockIndex(s.from) <= b /\ b < s.mb =>
         ValidCopies(mem, b) # {} /\ NoneEmpty(Table(mem, b), PageIndex(s.from))
  /\ pc \in {"w_target", "w_found"} /\ st = "OK" => NextEmpty(mem, s.from, s.found)

\* Once a record has been deleted all headers are there, and list none of it.
HeadersThere ==
  /\ Within(RewritePoint \ {"w_start"}) => \A b \in Searched : ValidCopies(mem, b) # {}
  /\ At({"w_header"}) => \A b \in Searched : Unlisted(Table(mem, b), call.key)
  /\ Within(RewritePoint \ {"w_start", "w_deleted", "w_header"}) =>
       ValidCopies(mem, MacroblockIndex(call.addr)) # {}

\* The pages p[0], .., p[k] for a record go up from the address it was given.
Rising(p, k) ==
  /\ p[0] = call.addr
  /\ \A i, j \in 0 .. k : i < j => p[i] < p[j]

\* The first n pages hold their parts of the record, linked to each other.
Parts(p, n) ==
  \A j \in 0 .. n - 1 :
    mem[p[j]] = DataPage(call.key,
                         IF j = 0 THEN p[0] ELSE p[j - 1],
                         IF j + 1 >= call.len THEN p[j] ELSE p[j + 1],
                         call.val, j + 1)

\* A table of macroblock b lists no page under the key but the first n of p.
ListsOnly(toc, b, p, n) ==
  \A i \in Index : toc[i].st = "OK" /\ toc[i].key = call.key =>
    \E j \in 0 .. n - 1 : p[j] = PageAddress(b, i)

TablesListOnly(p, n) == \A b \in Searched : ListsOnly(Table(mem, b), b, p, n)

\* The points of the loop over the pages to erase.
ErasingAt == Within({"w_target", "w_erase"}) \/ pc = "w_rest"

\* The pages that have been looked for so far, each the next empty one after
\* the one before, are erased or in the array of addresses to erase.
Erases(p) ==
  LET k == IF w.erased < call.len THEN w.erased ELSE call.len - 1
  IN  /\ Rising(p, k)
      /\ \A j \in 0 .. k - 1 : NextEmpty(mem, p[j] + 1, p[j + 1])
      /\ \A j \in 0 .. k : mem[p[j]] = Bad \/ p[j] \in BatchPages
      /\ w.erased < call.len => w.erase = p[k]
      /\ TablesListOnly(p, 0)

ErasePlan ==
  ErasingAt =>
    /\ BatchPages \subseteq DataAddr
    /\ pc = "w_rest" => w.erased >= call.len
    /\ Within({"w_target"}) => s.from = w.erase + 1
    /\ pc = "w_erase" /\ w.erased + 1 < call.len => NextEmpty(mem, w.erase + 1, w.target)
    /\ w.n = 0 /\ w.cur = call.addr /\ w.block = None /\ ~w.loaded
    /\ w.header.mb = MacroblockIndex(call.addr)
    /\ w.header.page.toc = Table(mem, w.header.mb)
    /\ \E p \in [0 .. MaxLen -> DataAddr] : Erases(p)

\* The table that lists a page: that of the header in use, or of the drive.
TableInUse(b) ==
  IF w.loaded /\ b = w.header.mb THEN w.header.page.toc ELSE Table(mem, b)

\* The first n pages are registered.
ListsAll(p, n) ==
  \A j \in 0 .. n - 1 :
    TableInUse(MacroblockIndex(p[j]))[PageIndex(p[j])] = [key |-> call.key, st |-> "OK"]

\* The pages are written in the order they were erased in: the next one that
\* is searched for is the next one that was erased.
Writes(p) ==
  /\ Rising(p, call.len - 1)
  /\ \A j \in w.n .. call.len - 2 : NextEmpty(mem, p[j] + 1, p[j + 1])
  /\ \A j \in w.n .. call.len - 1 : mem[p[j]] = Bad
  /\ \A j \in 0 .. call.len - 1 : ValidCopies(mem, MacroblockIndex(p[j])) # {}
  /\ w.n < call.len => w.cur = p[w.n]
  /\ w.n > 0 => w.prev = p[w.n - 1]
  /\ At({"w_switch", "w_reload", "w_page"}) /\ ~IsLastPage => w.next = p[w.n + 1]
  /\ Parts(p, w.n) /\ TablesListOnly(p, w.n) /\ ListsAll(p, w.n)
  /\ \A i \in Index : w.header.page.toc[i] = Table(mem, w.header.mb)[i]
                        \/ \E j \in 0 .. w.n - 1 : p[j] = PageAddress(w.header.mb, i)

WritePlan ==
  WritingAt =>
    /\ IF w.loaded THEN w.header.mb = w.block ELSE w.block = None
    /\ w.n <= call.len /\ (w.n > 0 => w.loaded)
    /\ At({"w_end"}) => w.n = call.len
    /\ ValidCopies(mem, w.header.mb) # {}
    /\ pc = "w_end" \/ At({"w_reload"}) \/ (pc = "w_switch" /\ HeaderIsOfOther) =>
         w.header.page.toc = Table(mem, w.header.mb)
    /\ pc = "w_page" => w.loaded /\ ~HeaderIsOfOther
    /\ \E p \in [0 .. MaxLen -> DataAddr] : Writes(p)

\* A record that has been written: its pages, its tables, and nothing else.
Written(p) ==
  /\ Rising(p, call.len - 1) /\ Parts(p, call.len) /\ TablesListOnly(p, call.len)
  /\ \A j \in 0 .. call.len - 1 :
       Table(mem, MacroblockIndex(p[j]))[PageIndex(p[j])] = [key |-> call.key, st |-> "OK"]

\* A call that saves or rewrites a record is at one of its points.
WriteCall ==
  call.op \in {"save", "rewrite"} =>
    \/ Writing \/ pc \in {"v_undone", "done"}
    \/ At(DeletePoint) /\ d.back = "v_undone"

RecordWritten ==
  /\ pc = "v_undone" \/ (At(DeletePoint) /\ d.back = "v_undone") => w.res # "OK"
  /\ call.op \in {"save", "rewrite"} /\ pc \in {"v_saved", "done"} /\ st = "OK" =>
       \E p \in [0 .. MaxLen -> DataAddr] : Written(p)

-----------------------------------------------------------------------------
(* The place of a page, in any macroblock of the storage.                  *)

\* A page of a table is where the table says it is.
LEMMA PlaceOfPage ==
  ASSUME NEW mb \in Nat, NEW i \in Index
  PROVE  /\ MacroblockIndex(PageAddress(mb, i)) = mb
         /\ PageIndex(PageAddress(mb, i)) = i
<1> DEFINE r == Reserved + i
<1>1. i \in Nat /\ r \in Nat /\ Reserved <= r /\ r < PerBlock
  BY Geometry DEF Index, DataPages
<1>2. PageAddress(mb, i) = mb * PerBlock + r /\ mb * PerBlock \in Nat
  BY <1>1, Geometry DEF PageAddress, MacroblockAddress
<1>3. /\ (mb * PerBlock + r) \div PerBlock = mb
      /\ (mb * PerBlock + r) % PerBlock = r
  BY <1>1, Geometry, DivUnique
<1> QED
  BY <1>1, <1>2, <1>3, Geometry DEF MacroblockIndex, PageIndex, IsMacroblockAddress

-----------------------------------------------------------------------------
(* Tables that stay.                                                       *)

\* The macroblocks that have a header keep it, and their table.
SameTables(m, n) ==
  \A b \in Macroblock :
    ValidCopies(m, b) # {} => ValidCopies(n, b) # {} /\ Table(n, b) = Table(m, b)

\* They do when only pages of data change,
LEMMA DataKeepsTables ==
  ASSUME NEW m, NEW n, \A a \in Addr : a \notin DataAddr => n[a] = m[a]
  PROVE  SameTables(m, n)
<1> SUFFICES ASSUME NEW b \in Macroblock, ValidCopies(m, b) # {}
             PROVE  ValidCopies(n, b) # {} /\ Table(n, b) = Table(m, b)
  BY DEF SameTables
<1>1. ASSUME NEW i \in Copy
      PROVE  n[HeaderAddress(b, i)] = m[HeaderAddress(b, i)]
  BY HeaderInStorage, HeaderIsNotData, SearchedIsMacroblock
<1> QED
  BY <1>1, TableKept

\* and when a header is written where there was none.
LEMMA CreatedKeepsTables ==
  ASSUME NEW m, NEW n, NEW c \in Macroblock, ValidCopies(m, c) = {},
         \A a \in Addr : a # HeaderAddress(c, 0) => n[a] = m[a]
  PROVE  SameTables(m, n)
<1> SUFFICES ASSUME NEW b \in Macroblock, ValidCopies(m, b) # {}
             PROVE  ValidCopies(n, b) # {} /\ Table(n, b) = Table(m, b)
  BY DEF SameTables
<1>1. b # c /\ c \in Nat
  BY SearchedIsMacroblock
<1> QED
  BY <1>1, OtherTablesKept

-----------------------------------------------------------------------------
(* The next empty page.                                                    *)

\* It is at or after the address the search starts at.
LEMMA NextEmptyForward ==
  ASSUME NEW m, NEW from \in Nat, NEW a, NextEmpty(m, from, a)
  PROVE  from <= a
<1>1. /\ a \in DataAddr /\ a \in Nat
      /\ MacroblockIndex(from) <= MacroblockIndex(a)
      /\ PageIndex(a) \in Index /\ PageIndex(from) <= PageIndex(a)
  BY Geometry DEF NextEmpty, EmptyFrom, Least, DataAddr, Addr
<1>2. /\ a = PerBlock * (a \div PerBlock) + (a % PerBlock)
      /\ a \div PerBlock \in Nat /\ a % PerBlock \in Nat
      /\ from = PerBlock * (from \div PerBlock) + (from % PerBlock)
      /\ from \div PerBlock \in Nat /\ from % PerBlock \in Nat
      /\ from % PerBlock < PerBlock
  BY <1>1, Geometry, DivMod
<1>3. CASE from \div PerBlock < a \div PerBlock
  <2>1. \A q, r \in Nat : q < r => (q + 1) * PerBlock <= r * PerBlock
    BY Geometry, ProductMonotone
  <2>2. (from \div PerBlock + 1) * PerBlock <= (a \div PerBlock) * PerBlock
    BY <1>2, <1>3, <2>1
  <2> QED
    BY <1>1, <1>2, <2>2, Geometry
<1>4. CASE from \div PerBlock = a \div PerBlock
  <2>1. from % PerBlock <= a % PerBlock
    BY <1>1, <1>2, Geometry DEF PageIndex, IsMacroblockAddress, DataAddr
  <2> QED
    BY <1>1, <1>2, <1>4, <2>1, Geometry
<1> QED
  BY <1>1, <1>2, <1>3, <1>4 DEF MacroblockIndex

\* There is one at most.
LEMMA NextEmptyUnique ==
  ASSUME NEW m, NEW from, NEW a, NEW b, NextEmpty(m, from, a), NextEmpty(m, from, b)
  PROVE  a = b
<1> DEFINE mi(x) == MacroblockIndex(x)
<1>1. /\ a \in DataAddr /\ b \in DataAddr /\ mi(a) \in Searched /\ mi(b) \in Searched
      /\ mi(a) \in Nat /\ mi(b) \in Nat
      /\ PageIndex(a) \in Index /\ PageIndex(b) \in Index /\ Index \subseteq Nat
  BY SearchedPage, Geometry DEF NextEmpty, Index, DataPages
<1>2. ASSUME NEW x, NEW y, NextEmpty(m, from, x), NextEmpty(m, from, y)
      PROVE  ~(mi(x) < mi(y))
  BY <1>2 DEF NextEmpty, NoneEmpty, EmptyFrom, Least
<1>3. mi(a) = mi(b)
  BY <1>1, <1>2
<1>4. PageIndex(a) = PageIndex(b)
  <2>1. /\ PageIndex(a) \in EmptyFrom(Table(m, mi(a)), PageIndex(from))
        /\ PageIndex(b) \in EmptyFrom(Table(m, mi(a)), PageIndex(from))
    BY <1>3 DEF NextEmpty
  <2>2. \A i, j \in EmptyFrom(Table(m, mi(a)), PageIndex(from)) : i <= j
    BY DEF EmptyFrom, Least
  <2>3. /\ PageIndex(a) <= PageIndex(b) /\ PageIndex(b) <= PageIndex(a)
        /\ PageIndex(a) \in Nat /\ PageIndex(b) \in Nat
    BY <1>1, <2>1, <2>2
  <2> QED
    BY <2>3
<1> QED
  BY <1>1, <1>3, <1>4, AddressOfPlace

\* It stays the next one as long as it is empty and no other page becomes it.
LEMMA NextEmptyKept ==
  ASSUME NEW m, NEW n, NEW from, NEW a, NextEmpty(m, from, a),
         \A b \in Searched : ValidCopies(m, b) # {} =>
           /\ ValidCopies(n, b) # {}
           /\ \A i \in Index : Table(n, b)[i].st = "EMPTY" => Table(m, b)[i].st = "EMPTY",
         Table(n, MacroblockIndex(a))[PageIndex(a)].st = "EMPTY"
  PROVE  NextEmpty(n, from, a)
<1>1. MacroblockIndex(a) \in Searched /\ MacroblockIndex(a) \in Nat
      /\ \A b \in Searched : b \in Nat
  BY SearchedIsMacroblock DEF NextEmpty
<1>2. \A b \in Searched : MacroblockIndex(from) <= b /\ b <= MacroblockIndex(a) =>
        ValidCopies(n, b) # {}
  BY DEF NextEmpty
<1>3. \A b \in Searched : MacroblockIndex(from) <= b /\ b < MacroblockIndex(a) =>
        NoneEmpty(Table(n, b), PageIndex(from))
  BY <1>1 DEF NextEmpty, NoneEmpty
<1>4. PageIndex(a) \in EmptyFrom(Table(n, MacroblockIndex(a)), PageIndex(from))
  <2>1. MacroblockIndex(from) <= MacroblockIndex(a)
    BY DEF NextEmpty
  <2>2. ValidCopies(m, MacroblockIndex(a)) # {}
    BY <1>1, <2>1 DEF NextEmpty
  <2> QED
    BY <1>1, <2>2 DEF NextEmpty, EmptyFrom, Least
<1> QED
  BY <1>2, <1>3, <1>4 DEF NextEmpty

\* So it does when the tables stay.
LEMMA NextEmptySame ==
  ASSUME NEW m, NEW n, NEW from, NEW a, NextEmpty(m, from, a), SameTables(m, n)
  PROVE  NextEmpty(n, from, a)
<1>1. \A b \in Searched : ValidCopies(m, b) # {} =>
        ValidCopies(n, b) # {} /\ Table(n, b) = Table(m, b)
  BY SearchedIsMacroblock DEF SameTables
<1>2. Table(n, MacroblockIndex(a))[PageIndex(a)].st = "EMPTY"
  <2>1. /\ MacroblockIndex(a) \in Searched /\ MacroblockIndex(a) \in Nat
        /\ MacroblockIndex(from) <= MacroblockIndex(a)
    BY SearchedIsMacroblock DEF NextEmpty
  <2>2. ValidCopies(m, MacroblockIndex(a)) # {}
    BY <2>1 DEF NextEmpty
  <2> QED
    BY <1>1, <2>1, <2>2 DEF NextEmpty, EmptyFrom, Least
<1> QED
  BY <1>1, <1>2, NextEmptyKept

-----------------------------------------------------------------------------
(* Loaded headers.                                                         *)

\* Where no header is in use there is nothing to say,
LEMMA NoHeaderInUse ==
  ASSUME pc' \notin HeaderPoint \cup LoadPoint \cup {"s_unit"}
  PROVE  HeaderIsTable'
BY DEF HeaderIsTable, At, HeaderPoint, LoadPoint

\* where one is to be loaded it is that of the macroblock asked for,
LEMMA LoadsHeader ==
  ASSUME NEW mb, NEW back \in LoadPoint, LoadHeader(mb, back),
         back = "s_header" => mb = s'.mb,
         back \in {"v_check", "w_header"} => mb = MacroblockIndex(call'.addr),
         back = "w_reload" => mb = MacroblockIndex(w'.cur)
  PROVE  HeaderIsTable'
<1>1. pc' = "h_load" /\ h'.mb = mb /\ h'.back = back
  BY DEF LoadHeader, NoHeader
<1> QED
  BY <1>1 DEF HeaderIsTable, At, HeaderPoint, LoadPoint

\* and where one is saved it is the one in use.
LEMMA SavesHeader ==
  ASSUME NEW mb, NEW pg, NEW back \in {"d_saved", "w_switch", "w_end", "m_saved"},
         SaveHeader(mb, pg, back),
         back \in {"w_switch", "w_end"} => mb = w'.header.mb /\ pg = w'.header.page
  PROVE  HeaderIsTable'
<1>1. pc' = "h_save" /\ h'.mb = mb /\ h'.back = back /\ h'.page = pg
  BY DEF SaveHeader, NoHeader
<1> QED
  BY <1>1 DEF HeaderIsTable, At, HeaderPoint, LoadPoint

\* Loading a header: it is the table of its macroblock.
LEMMA HeaderLoadTable ==
  ASSUME HealthyStep, HeaderIsTable, HeaderLoad, UNCHANGED <<s, call, d, w, l>>
  PROVE  HeaderIsTable'
<1>1. h \in HeaderFrame /\ pc = "h_load" /\ h.back \in LoadPoint
  BY DEF HealthyStep, IInv, TypeOK, HeaderType, HeaderLoad, HeaderIsTable
<1>2. /\ mem' = mem /\ h'.mb = h.mb /\ h'.back = h.back
      /\ h'.page.toc = Table(mem, h.mb)
      /\ \/ pc' = h.back /\ st' = "OK" /\ ValidCopies(mem, h.mb) # {}
         \/ pc' = "h_save" /\ ValidCopies(mem, h.mb) = {}
  BY <1>1, HealthyHeaderLoad DEF HealthyStep
<1>3. UNCHANGED <<s.mb, call.addr, w.cur, w.header>>
  OBVIOUS
<1>4. At({"s_header", "s_unit"})' => h'.mb = s'.mb
  BY <1>1, <1>2 DEF HeaderIsTable, At, HeaderPoint, LoadPoint
<1>5. /\ At({"v_check", "w_header"})' => h'.mb = MacroblockIndex(call'.addr)
      /\ At({"w_reload"})' => h'.mb = MacroblockIndex(w'.cur)
  BY <1>1, <1>2 DEF HeaderIsTable, At, HeaderPoint, LoadPoint
<1>6. pc' \in LoadPoint \cup {"s_unit"} =>
        st' = "OK" /\ ValidCopies(mem', h'.mb) # {} /\ h'.page.toc = Table(mem', h'.mb)
  BY <1>1, <1>2 DEF LoadPoint
<1>7. pc' = "h_save" /\ h'.back \in LoadPoint => ValidCopies(mem', h'.mb) = {}
  BY <1>1, <1>2 DEF LoadPoint
<1> QED
  BY <1>1, <1>2, <1>4, <1>5, <1>6, <1>7 DEF HeaderIsTable, LoadPoint

\* Saving one: it becomes the table of its macroblock.
LEMMA HeaderSaveTable ==
  ASSUME HealthyStep, DeleteClears, HeaderIsTable, HeaderSave,
         UNCHANGED <<s, call, d, w, l>>
  PROVE  HeaderIsTable'
<1>1. /\ h \in HeaderFrame /\ pc = "h_save" /\ h.back \in HeaderReturn
      /\ h.copy = 0 /\ h.mb \in Macroblock /\ h.page \in Page /\ mem \in Image
  BY DEF HealthyStep, IInv, TypeOK, DeviceType, HeaderType, HeaderFrame,
    HeaderSave, DeleteClears, HeaderPoint
<1>2. /\ mem' = [mem EXCEPT ![HeaderAddress(h.mb, 0)] = h.page]
      /\ pc' = h.back /\ st' = "OK" /\ h' = h
  BY <1>1, HealthyHeaderSave DEF HealthyStep, IInv, TypeOK
<1>3. ValidCopies(mem', h.mb) # {} /\ Table(mem', h.mb) = h.page.toc
  <2>1. HeaderAddress(h.mb, 0) \in Addr
    BY <1>1, Geometry, HeaderInStorage
  <2> QED
    BY <1>1, <1>2, <2>1, TableSaved DEF Image
<1>4. /\ At({"s_header", "s_unit"})' => h'.mb = s'.mb
      /\ At({"v_check", "w_header"})' => h'.mb = MacroblockIndex(call'.addr)
      /\ At({"w_reload"})' => h'.mb = MacroblockIndex(w'.cur)
  BY <1>1, <1>2 DEF HeaderIsTable, At, HeaderPoint, HeaderReturn
<1>5. pc' \notin HeaderPoint
  BY <1>1, <1>2 DEF HeaderPoint, HeaderReturn
<1> QED
  BY <1>2, <1>3, <1>4, <1>5 DEF HeaderIsTable, HeaderPoint

\* Every step of a healthy drive keeps it so.
LEMMA NextHeaderIsTable ==
  ASSUME HealthyStep, DeleteClears, HeaderIsTable, [Next]_vars
  PROVE  HeaderIsTable'
<1> USE DEF LoadPoint, HeaderPoint
<1>1. CASE Request
  <2>1. /\ \A mode, key : Find(mode, key) => pc' = "s_block"
        /\ \A addr, len : Load(addr, len) => pc' \in {"done", "l_start"}
        /\ \A key : DeleteData(key) => pc' = "d_block"
        /\ \A addr : ClearAddress(addr) => pc' = "c_start"
        /\ Format => pc' = "m_block"
    BY DEF Find, Load, DeleteData, ClearAddress, Format, Enter, Refuse, Return,
      Search, Delete
  <2>2. \A addr, key, val, len :
          Save(addr, key, val, len) \/ Rewrite(addr, key, val, len)
            => pc' \in {"done", "v_start", "w_start"}
    BY DEF Save, Rewrite, Write, Enter, Refuse, Return
  <2>3. pc' \in {"done", "l_start", "v_start", "w_start", "c_start", "m_block",
                 "s_block", "d_block"}
    BY <1>1, <2>1, <2>2 DEF Request
  <2> QED
    BY <2>3, NoHeaderInUse
<1>2. CASE HeaderNext /\ UNCHANGED <<s, call, d, w, l>>
  BY <1>2, HeaderLoadTable, HeaderSaveTable DEF HeaderNext
<1>3. CASE SearchNext /\ UNCHANGED <<call, d, w, l>>
  <2>1. s \in SearchFrame /\ s.back \in SearchReturn
    BY DEF HealthyStep, IInv, TypeOK, SearchType, SearchFrame
  <2>2. CASE SearchBlock
    <3>1. CASE LoadHeader(s.mb, "s_header") /\ UNCHANGED s
      BY <3>1, LoadsHeader
    <3>2. CASE pc' = s.back
      BY <2>1, <3>2, NoHeaderInUse DEF SearchReturn
    <3> QED
      BY <2>2, <3>1, <3>2 DEF SearchBlock, Return
  <2>3. CASE SearchHeader \/ SearchUnit
    <3>1. CASE pc' = "s_unit"
      <4>1. /\ pc \in {"s_header", "s_unit"} /\ h' = h /\ mem' = mem /\ st' = st
            /\ s'.mb = s.mb
        BY <2>1, <2>3, <3>1 DEF SearchHeader, SearchUnit, SearchFrame, Goto,
          Return, control, device, SearchReturn
      <4> QED
        BY <3>1, <4>1 DEF HeaderIsTable, At
    <3>2. CASE pc' # "s_unit"
      <4>1. pc' \in SearchReturn \cup {"s_block"}
        BY <2>1, <2>3, <3>2 DEF SearchHeader, SearchUnit, Goto, Return, control
      <4> QED
        BY <4>1, NoHeaderInUse DEF SearchReturn
    <3> QED
      BY <3>1, <3>2
  <2> QED
    BY <1>3, <2>2, <2>3 DEF SearchNext
<1>4. CASE DeleteNext
  <2>1. d \in DeleteFrame /\ d.back \in DeleteReturn
    BY DEF HealthyStep, IInv, TypeOK, DataType, DeleteFrame
  <2>2. CASE DeleteBlock /\ LoadHeader(d.mb, "d_header")
    BY <2>2, LoadsHeader
  <2>3. CASE DeleteHeader /\ st = "OK"
    BY <2>3, SavesHeader DEF DeleteHeader
  <2>4. CASE pc' \in DeleteReturn \cup {"d_block", "d_erase"}
    BY <2>4, NoHeaderInUse DEF DeleteReturn
  <2> QED
    BY <1>4, <2>1, <2>2, <2>3, <2>4 DEF DeleteNext, DeleteBlock, DeleteHeader,
      DeleteSaved, DeleteErase, Return, Goto
<1>5. CASE RewriteEraseNext
  <2>1. CASE RewriteDeleted /\ st = "OK"
    BY <2>1, LoadsHeader DEF RewriteDeleted
  <2>2. CASE pc' \in {"d_block", "v_saved", "done", "s_block", "w_rest",
                      "w_erase", "w_next"}
    BY <2>2, NoHeaderInUse
  <2> QED
    BY <1>5, <2>1, <2>2 DEF RewriteEraseNext, RewriteStart, RewriteDeleted,
      RewriteHeader, RewriteTarget, RewriteErase, RewriteRest, RewriteBack,
      EraseMore, Search, Delete, Return, Goto
<1>6. CASE RewriteWriteNext
  <2>1. CASE RewriteNext /\ SaveHeader(w.header.mb, w.header.page, "w_end")
    <3>1. w' = w
      BY <2>1 DEF RewriteNext
    <3> QED
      BY <2>1, <3>1, SavesHeader
  <2>2. CASE RewriteFound /\ SaveHeader(w.header.mb, w.header.page, "w_switch")
    <3>1. w \in RewriteFrame
      BY DEF HealthyStep, IInv, TypeOK, DataType
    <3>2. w'.header = w.header
      BY <2>2, <3>1 DEF RewriteFound, RewriteFrame, SaveHeader, Return, RewriteBack
    <3> QED
      BY <2>2, <3>2, SavesHeader
  <2>3. CASE RewriteSwitch /\ LoadHeader(MacroblockIndex(w.cur), "w_reload")
    <3>1. w' = w
      BY <2>3 DEF RewriteSwitch
    <3> QED
      BY <2>3, <3>1, LoadsHeader
  <2>4. CASE pc' \in {"v_saved", "done", "s_block", "w_switch", "w_page", "w_next"}
    BY <2>4, NoHeaderInUse
  <2>5. RewriteReload \/ RewritePage \/ RewriteEnd =>
          pc' \in {"v_saved", "done", "w_page", "w_next"}
    BY DEF RewriteReload, RewritePage, RewriteEnd, RewriteBack, Return, Goto
  <2>6. CASE RewriteNext
    BY <2>1, <2>4, <2>6 DEF RewriteNext, RewriteBack, Return, Search
  <2>7. CASE RewriteFound
    BY <2>2, <2>4, <2>7 DEF RewriteFound, RewriteBack, Return
  <2>8. CASE RewriteSwitch
    BY <2>3, <2>4, <2>8 DEF RewriteSwitch, RewriteBack, Return, Goto
  <2> QED
    BY <1>6, <2>4, <2>5, <2>6, <2>7, <2>8 DEF RewriteWriteNext
<1>7. CASE SaveNext \/ LoadNext \/ ClearNext
  <2>1. CASE SaveStart /\ LoadHeader(MacroblockIndex(call.addr), "v_check")
    BY <2>1, LoadsHeader DEF SaveStart
  <2>2. CASE pc' \in {"done", "w_start", "d_block", "l_copy", "c_load"}
    BY <2>2, NoHeaderInUse
  <2>3. CASE LoadCopy /\ UNCHANGED control
    <3>1. pc' = "l_copy"
      BY <2>3 DEF LoadCopy, control
    <3> QED
      BY <2>2, <3>1
  <2>4. CASE SaveNext
    BY <2>1, <2>2, <2>4 DEF SaveNext, SaveStart, SaveCheck, SaveRewritten,
      SaveUndone, Delete, Return, Goto
  <2>5. CASE LoadNext \/ ClearNext
    BY <2>2, <2>3, <2>5 DEF LoadNext, LoadStart, LoadCopy, LoadDeleted,
      ClearNext, ClearStart, ClearLoad, Delete, Return, Goto
  <2> QED
    BY <1>7, <2>4, <2>5
<1>8. CASE FormatNext
  <2>1. CASE FormatBlock /\ LoadHeader(fmt, "m_header")
    BY <2>1, LoadsHeader
  <2>2. CASE FormatHeader /\ st = "OK"
    BY <2>2, SavesHeader DEF FormatHeader
  <2>3. CASE pc' \in {"done", "m_block", "m_erase"}
    BY <2>3, NoHeaderInUse
  <2> QED
    BY <1>8, <2>1, <2>2, <2>3 DEF FormatNext, FormatBlock, FormatHeader,
      FormatSaved, FormatErase, Return, Goto
<1>9. CASE Answer \/ Crash
  BY <1>9, NoHeaderInUse DEF Answer, Crash, Forget
<1>10. CASE Drive
  BY <1>10, HealthyDrive DEF Drive, HealthyStep, IInv, TypeOK
<1>11. CASE UNCHANGED vars
  BY <1>11 DEF vars, device, control, frames, HeaderIsTable, At
<1> QED
  BY <1>1, <1>2, <1>3, <1>4, <1>5, <1>6, <1>7, <1>8, <1>9, <1>10, <1>11
    DEF Next, Library, DataNext

-----------------------------------------------------------------------------
(* Searches for an empty page.                                             *)

\* Where no search is in progress, nor just back, there is nothing to say.
LEMMA NoSearchInUse ==
  ASSUME ~At(SearchPoint)', pc' \notin {"w_target", "w_found"}
  PROVE  EmptySearch'
BY DEF EmptySearch

\* A search that starts has passed no table.
LEMMA SearchBegins ==
  ASSUME NEW mode, NEW key, NEW from \in Nat, NEW back, Search(mode, key, from, back),
         back \in {"w_target", "w_found"} => mode = "EMPTY"
  PROVE  EmptySearch'
<1>1. /\ pc' = "s_block" /\ s'.mode = mode /\ s'.from = from
      /\ s'.mb = MacroblockIndex(from) /\ s'.found = None /\ s'.back = back
  BY DEF Search, NoSearch
<1>2. MacroblockIndex(from) \in Nat /\ Searched \subseteq Nat
  <2>1. from \div PerBlock \in Nat
    BY Geometry, DivMod
  <2> QED
    BY <2>1, SearchedIsMacroblock DEF MacroblockIndex
<1> QED
  BY <1>1, <1>2 DEF EmptySearch, At

\* A header that is loaded or created for it leaves the tables it has passed.
LEMMA HeaderEmptySearch ==
  ASSUME HealthyStep, DeleteClears, HeaderIsTable, EmptySearch, HeaderNext,
         UNCHANGED <<s, call, d, w, l>>
  PROVE  EmptySearch'
<1>1. /\ h \in HeaderFrame /\ h.back \in HeaderReturn /\ pc \in HeaderPoint
      /\ h.copy = 0 /\ h.mb \in Macroblock /\ h.mb \in Nat /\ mem \in Image
      /\ s.mb \in Nat /\ s' = s
  <2>1. h \in HeaderFrame /\ s \in SearchFrame /\ mem \in Image
    BY DEF HealthyStep, IInv, TypeOK, DeviceType, HeaderType, SearchType
  <2>2. pc \in HeaderPoint
    BY DEF HeaderNext, HeaderLoad, HeaderSave, HeaderPoint
  <2>3. s.mb \in Nat
    BY <2>1, Geometry DEF SearchFrame
  <2>4. h.back \in HeaderReturn /\ h.copy = 0 /\ h.mb \in Macroblock /\ h.mb \in Nat
    BY <2>1, <2>2, SearchedIsMacroblock DEF DeleteClears, HeaderFrame
  <2> QED
    BY <2>1, <2>2, <2>3, <2>4
<1>2. /\ h'.mb = h.mb /\ h'.back = h.back /\ pc' \in {"h_save", h.back}
      /\ \/ mem' = mem
         \/ pc = "h_save" /\ mem' = [mem EXCEPT ![HeaderAddress(h.mb, 0)] = h.page]
  <2>1. CASE HeaderLoad
    BY <1>1, <2>1, HealthyHeaderLoad DEF HealthyStep
  <2>2. CASE HeaderSave
    <3>1. pc = "h_save"
      BY <2>2 DEF HeaderSave
    <3> QED
      BY <1>1, <2>2, <3>1, HealthyHeaderSave DEF HealthyStep, IInv, TypeOK
  <2> QED
    BY <2>1, <2>2 DEF HeaderNext
<1>3. CASE h.back # "s_header"
  <2>1. ~At(SearchPoint)' /\ pc' \notin {"w_target", "w_found"}
    BY <1>1, <1>2, <1>3 DEF At, HeaderPoint, SearchPoint, HeaderReturn
  <2> QED
    BY <2>1, NoSearchInUse
<1>4. CASE h.back = "s_header"
  <2>1. At(SearchPoint) /\ h.mb = s.mb /\ pc' \notin {"s_unit", "w_target", "w_found"}
    BY <1>1, <1>2, <1>4 DEF HeaderIsTable, At, HeaderPoint, SearchPoint
  <2>2. ASSUME NEW b \in Searched, s.mode = "EMPTY", MacroblockIndex(s.from) <= b,
               b < s.mb
        PROVE  ValidCopies(mem', b) # {} /\ NoneEmpty(Table(mem', b), PageIndex(s.from))
    <3>1. ValidCopies(mem, b) # {} /\ NoneEmpty(Table(mem, b), PageIndex(s.from))
      BY <2>1, <2>2 DEF EmptySearch
    <3>2. CASE mem' = mem
      BY <3>1, <3>2
    <3>3. CASE mem' = [mem EXCEPT ![HeaderAddress(h.mb, 0)] = h.page]
      <4>1. \A a \in Addr : a # HeaderAddress(h.mb, 0) => mem'[a] = mem[a]
        BY <1>1, <3>3 DEF Image
      <4>2. b # h.mb /\ b \in Macroblock
        BY <1>1, <2>1, <2>2, SearchedIsMacroblock
      <4> QED
        BY <1>1, <3>1, <4>1, <4>2, OtherTablesKept
    <3> QED
      BY <1>2, <3>2, <3>3
  <2> QED
    BY <1>1, <2>1, <2>2 DEF EmptySearch
<1> QED
  BY <1>3, <1>4

\* An empty page it finds in the table it is at is the next one.
LEMMA EmptyFound ==
  ASSUME HealthyStep, HeaderIsTable, EmptySearch, s.mode = "EMPTY", pc = "s_header",
         NEW i \in EmptyFrom(h.page.toc, ScanFrom)
  PROVE  NextEmpty(mem, s.from, PageAddress(s.mb, i))
<1> DEFINE a == PageAddress(s.mb, i)
<1>1. /\ s \in SearchFrame /\ s.mb \in Nat /\ Searched \subseteq Nat
      /\ MacroblockIndex(s.from) <= s.mb /\ s.mb \in Searched
      /\ PageIndex(s.from) = ScanFrom
  <2>1. /\ s \in SearchFrame /\ MacroblockIndex(s.from) <= s.mb
        /\ s.mb < MacroblocksCount
    BY DEF HealthyStep, IInv, TypeOK, SearchType, SearchForward, LoopsBounded, At
  <2>2. s.mb \in Nat
    BY <2>1, Geometry DEF SearchFrame
  <2> QED
    BY <2>1, <2>2, SearchedIsMacroblock, MacroblockInRange DEF Searched, ScanFrom
<1>2. /\ ValidCopies(mem, s.mb) # {} /\ h.page.toc = Table(mem, s.mb)
      /\ \A b \in Searched : MacroblockIndex(s.from) <= b /\ b < s.mb =>
           ValidCopies(mem, b) # {} /\ NoneEmpty(Table(mem, b), PageIndex(s.from))
  BY DEF HeaderIsTable, EmptySearch, LoadPoint, At, SearchPoint
<1>3. i \in Index
  BY DEF EmptyFrom, Least
<1>4. a \in DataAddr /\ MacroblockIndex(a) = s.mb /\ PageIndex(a) = i
  <2>1. s.mb \in Nat /\ s.mb < MacroblocksCount
    BY <1>1, MacroblockInRange DEF Searched
  <2> QED
    BY <1>3, <2>1, AddressRoundTrip
<1>5. \A b \in Searched : b <= s.mb => b < s.mb \/ b = s.mb
  BY <1>1
<1>6. \A b \in Searched : MacroblockIndex(s.from) <= b /\ b <= s.mb =>
        ValidCopies(mem, b) # {}
  BY <1>2, <1>5
<1> QED
  BY <1>1, <1>2, <1>4, <1>6 DEF NextEmpty

\* A search passes the tables that have no empty page from its index on, and
\* ends at the first page that is empty.
LEMMA SearchEmptySearch ==
  ASSUME HealthyStep, HeaderIsTable, EmptySearch, SearchNext,
         UNCHANGED <<call, d, w, l>>
  PROVE  EmptySearch'
<1>1. /\ s \in SearchFrame /\ s.back \in SearchReturn /\ mem' = mem
      /\ pc \in SearchPoint /\ s.mb \in Nat /\ Searched \subseteq Nat
      /\ MacroblockIndex(s.from) <= s.mb /\ Searched = 0 .. MacroblocksCount - 1
      /\ MacroblocksCount \in Nat /\ PageIndex(s.from) = ScanFrom
  <2>1. s \in SearchFrame /\ MacroblockIndex(s.from) <= s.mb
    BY DEF HealthyStep, IInv, TypeOK, SearchType, SearchForward
  <2>2. pc \in SearchPoint /\ mem' = mem
    BY DEF SearchNext, SearchBlock, SearchHeader, SearchUnit, SearchPoint, device
  <2>3. s.mb \in Nat /\ s.back \in SearchReturn
    BY <2>1, Geometry DEF SearchFrame
  <2> QED
    BY <2>1, <2>2, <2>3, SearchedIsMacroblock, MacroblockInRange DEF Searched, ScanFrom
<1>2. CASE s.mode # "EMPTY"
  <2>1. s'.mode = s.mode /\ s'.back = s.back
    BY <1>1 DEF SearchFrame, SearchNext, SearchBlock, SearchHeader, SearchUnit
  <2>2. s.back \notin {"w_target", "w_found"}
    BY <1>1, <1>2 DEF EmptySearch, At
  <2>3. pc' \in SearchPoint \cup HeaderPoint \cup {s.back}
    BY <1>1 DEF SearchNext, SearchBlock, SearchHeader, SearchUnit, LoadHeader,
      Return, Goto, control, SearchPoint, HeaderPoint
  <2> QED
    BY <1>2, <2>1, <2>2, <2>3 DEF EmptySearch, SearchPoint, HeaderPoint
<1>3. CASE s.mode = "EMPTY"
  <2>1. /\ s.found = None /\ pc \in {"s_block", "s_header"}
        /\ \A b \in Searched : MacroblockIndex(s.from) <= b /\ b < s.mb =>
             ValidCopies(mem, b) # {} /\ NoneEmpty(Table(mem, b), PageIndex(s.from))
    BY <1>1, <1>3 DEF EmptySearch, At, SearchPoint
  <2>2. CASE SearchBlock
    <3>1. UNCHANGED s
      BY <2>2 DEF SearchBlock
    <3>2. CASE LoadHeader(s.mb, "s_header")
      <4>1. pc' = "h_load"
        BY <3>2 DEF LoadHeader
      <4> QED
        BY <1>1, <1>3, <2>1, <3>1, <4>1 DEF EmptySearch
    <3>3. CASE Return(IF s.found = None THEN "NOT_FOUND" ELSE "OK", s.back)
      <4>1. pc' = s.back /\ st' = "NOT_FOUND"
        BY <2>1, <3>3 DEF Return
      <4> QED
        BY <1>1, <4>1 DEF EmptySearch, At, SearchReturn, SearchPoint, HeaderPoint
    <3> QED
      BY <2>2, <3>2, <3>3 DEF SearchBlock
  <2>3. CASE SearchHeader
    <3>1. /\ pc = "s_header" /\ st = "OK" /\ ValidCopies(mem, s.mb) # {}
          /\ h.page.toc = Table(mem, s.mb) /\ s.mb \in Searched
      <4>1. pc = "s_header"
        BY <2>3 DEF SearchHeader
      <4>2. s.mb < MacroblocksCount
        BY <4>1 DEF HealthyStep, IInv, LoopsBounded, At
      <4> QED
        BY <1>1, <4>1, <4>2 DEF HeaderIsTable, LoadPoint, At
    <3>2. CASE EmptyFrom(h.page.toc, ScanFrom) = {}
      <4>1. pc' = "s_block" /\ s' = [s EXCEPT !.mb = @ + 1]
        BY <1>3, <2>3, <3>1, <3>2 DEF SearchHeader, Goto
      <4>2. /\ s'.mode = s.mode /\ s'.from = s.from /\ s'.found = s.found
            /\ s'.back = s.back /\ s'.mb = s.mb + 1
        BY <1>1, <4>1 DEF SearchFrame
      <4>3. NoneEmpty(Table(mem, s.mb), PageIndex(s.from))
        <5>1. {j \in Index : j >= ScanFrom /\ h.page.toc[j].st = "EMPTY"} \in SUBSET Nat
          BY Geometry DEF Index, DataPages
        <5>2. {j \in Index : j >= ScanFrom /\ h.page.toc[j].st = "EMPTY"} = {}
          BY <3>2, <5>1, LeastExists DEF EmptyFrom
        <5> QED
          BY <1>1, <3>1, <5>2 DEF NoneEmpty
      <4>4. ASSUME NEW b \in Searched, MacroblockIndex(s.from) <= b, b < s.mb + 1
            PROVE  ValidCopies(mem, b) # {} /\ NoneEmpty(Table(mem, b), PageIndex(s.from))
        <5>1. b < s.mb \/ b = s.mb
          BY <1>1, <4>4
        <5> QED
          BY <2>1, <3>1, <4>3, <4>4, <5>1
      <4> QED
        BY <1>1, <1>3, <2>1, <4>1, <4>2, <4>4 DEF EmptySearch
    <3>3. ASSUME NEW i \in EmptyFrom(h.page.toc, ScanFrom),
                 s' = [s EXCEPT !.found = PageAddress(s.mb, i)], Return("OK", s.back)
          PROVE  EmptySearch'
      <4>1. s'.from = s.from /\ s'.found = PageAddress(s.mb, i) /\ pc' = s.back
        BY <1>1, <3>3 DEF SearchFrame, Return
      <4>2. NextEmpty(mem, s.from, PageAddress(s.mb, i))
        BY <1>3, <3>1, <3>3, EmptyFound
      <4> QED
        BY <1>1, <4>1, <4>2 DEF EmptySearch, At, SearchReturn, SearchPoint,
          HeaderPoint
    <3> QED
      BY <1>3, <2>3, <3>1, <3>2, <3>3 DEF SearchHeader
  <2> QED
    BY <2>1, <2>2, <2>3 DEF SearchNext, SearchUnit
<1> QED
  BY <1>2, <1>3

\* Every step of a healthy drive keeps it so.
LEMMA NextEmptySearch ==
  ASSUME HealthyStep, DeleteClears, HeaderIsTable, EmptySearch, [Next]_vars
  PROVE  EmptySearch'
<1> USE DEF At, SearchPoint, HeaderPoint
<1>1. CASE Request
  <2>1. ASSUME NEW mode, NEW key, Find(mode, key)
        PROVE  EmptySearch'
    <3>1. 0 \in Nat
      OBVIOUS
    <3> QED
      BY <2>1, <3>1, SearchBegins DEF Find
  <2>2. /\ \A addr, len : Load(addr, len) => pc' \in {"done", "l_start"}
        /\ \A key : DeleteData(key) => pc' = "d_block"
        /\ \A addr : ClearAddress(addr) => pc' = "c_start"
        /\ Format => pc' = "m_block"
    BY DEF Load, DeleteData, ClearAddress, Format, Enter, Refuse, Return, Delete
  <2>3. \A addr, key, val, len :
          Save(addr, key, val, len) \/ Rewrite(addr, key, val, len)
            => pc' \in {"done", "v_start", "w_start"}
    BY DEF Save, Rewrite, Write, Enter, Refuse, Return
  <2>4. ASSUME pc' \in {"done", "l_start", "v_start", "w_start", "c_start",
                        "m_block", "d_block"}
        PROVE  EmptySearch'
    BY <2>4, NoSearchInUse
  <2> QED
    BY <1>1, <2>1, <2>2, <2>3, <2>4 DEF Request
<1>2. CASE HeaderNext /\ UNCHANGED <<s, call, d, w, l>>
  BY <1>2, HeaderEmptySearch
<1>3. CASE SearchNext /\ UNCHANGED <<call, d, w, l>>
  BY <1>3, SearchEmptySearch
<1>4. CASE DeleteNext
  <2>1. d \in DeleteFrame /\ d.back \in DeleteReturn
    BY DEF HealthyStep, IInv, TypeOK, DataType, DeleteFrame
  <2>2. \/ pc' \in DeleteReturn \cup {"d_block", "d_erase"}
        \/ pc' \in HeaderPoint /\ h'.back \in {"d_header", "d_saved"}
    BY <1>4, <2>1 DEF DeleteNext, DeleteBlock, DeleteHeader, DeleteSaved,
      DeleteErase, Return, Goto, LoadHeader, SaveHeader, NoHeader
  <2> QED
    BY <2>2, NoSearchInUse DEF DeleteReturn
<1>5. CASE RewriteEraseNext
  <2>1. w \in RewriteFrame /\ call \in Call
    BY DEF HealthyStep, IInv, TypeOK, DataType
  <2>2. ASSUME NEW f, EraseMore(f), f.erase \in Nat
        PROVE  EmptySearch'
    <3>1. CASE Search("EMPTY", call.key, f.erase + 1, "w_target")
      BY <2>2, <3>1, SearchBegins
    <3>2. CASE pc' = "w_rest"
      BY <3>2, NoSearchInUse
    <3> QED
      BY <2>2, <3>1, <3>2 DEF EraseMore, Goto
  <2>3. CASE RewriteStart \/ RewriteDeleted \/ RewriteRest
    <3>1. \/ pc' \in {"d_block", "v_saved", "done", "w_next"}
          \/ pc' = "h_load" /\ h'.back = "w_header"
      BY <2>3 DEF RewriteStart, RewriteDeleted, RewriteRest, RewriteBack,
        Delete, Return, Goto, LoadHeader, NoHeader
    <3> QED
      BY <3>1, NoSearchInUse
  <2>4. CASE pc' \in {"v_saved", "done", "w_rest", "w_erase"}
    BY <2>4, NoSearchInUse
  <2>5. Addr \subseteq Nat
    BY Geometry DEF Addr
  <2>6. CASE RewriteHeader
    <3>1. call.addr \in Nat
      BY <2>1, <2>5 DEF Call
    <3>2. ASSUME w' = [NoRewrite EXCEPT !.erase = call.addr, !.batch = <<call.addr>>,
                         !.header = [mb |-> h.mb, page |-> h.page],
                         !.cur = call.addr, !.prev = call.addr, !.next = call.addr]
          PROVE  w'.erase = call.addr
      BY <3>2 DEF NoRewrite
    <3> QED
      BY <2>2, <2>4, <2>6, <3>1, <3>2 DEF RewriteHeader, Return, RewriteBack
  <2>7. ASSUME NEW f, f.target \in Nat, w' = Targeted(f), EraseMore(w'), f \in RewriteFrame
        PROVE  EmptySearch'
    <3>1. w'.erase = f.target
      BY <2>7 DEF Targeted, RewriteFrame
    <3> QED
      BY <2>2, <2>7, <3>1
  <2>8. CASE RewriteTarget
    <3>1. ASSUME NEW x \in Addr, w' = Targeted([w EXCEPT !.target = x]), EraseMore(w')
          PROVE  EmptySearch'
      <4>1. /\ [w EXCEPT !.target = x] \in RewriteFrame
            /\ [w EXCEPT !.target = x].target = x
        BY <2>1 DEF RewriteFrame
      <4>2. x \in Nat
        BY <2>5
      <4> QED
        BY <2>7, <3>1, <4>1, <4>2
    <3>2. (IF st = "OK" THEN s.found ELSE 0) \in Addr
      <4>1. 0 \in Addr /\ (st = "OK" => s.found # None) /\ s \in SearchFrame
        BY <2>8, Geometry DEF RewriteTarget, HealthyStep, IInv, LoopsBounded, Addr,
          TypeOK, SearchType
      <4>2. s.found \in Addr \cup {None}
        BY <4>1 DEF SearchFrame
      <4> QED
        BY <4>1, <4>2
    <3> QED
      BY <2>4, <2>8, <3>1, <3>2 DEF RewriteTarget, Return, RewriteBack, Goto
  <2>9. CASE RewriteErase
    <3>1. /\ [w EXCEPT !.batch = << >>] \in RewriteFrame
          /\ [w EXCEPT !.batch = << >>].target \in Nat
      <4>1. << >> \in Seq(Addr)
        OBVIOUS
      <4>2. w.target \in Nat
        BY <2>1, <2>5 DEF RewriteFrame
      <4> QED
        BY <2>1, <4>1, <4>2 DEF RewriteFrame
    <3> QED
      BY <2>4, <2>7, <2>9, <3>1 DEF RewriteErase, Return, RewriteBack
  <2> QED
    BY <1>5, <2>3, <2>6, <2>8, <2>9 DEF RewriteEraseNext
<1>6. CASE RewriteWriteNext
  <2>1. CASE RewriteNext /\ Search("EMPTY", call.key, w.cur + 1, "w_found")
    <3>1. w.cur + 1 \in Nat
      BY DEF HealthyStep, IInv, TypeOK, DataType, RewriteFrame
    <3> QED
      BY <2>1, <3>1, SearchBegins
  <2>2. CASE \/ pc' \in {"v_saved", "done", "w_switch", "w_page", "w_next"}
             \/ pc' \in HeaderPoint /\ h'.back # "s_header"
                  /\ h'.back \in {"w_end", "w_switch", "w_reload"}
    BY <2>2, NoSearchInUse
  <2>3. CASE RewriteNext
    BY <2>1, <2>2, <2>3 DEF RewriteNext, RewriteBack, Return, SaveHeader, NoHeader
  <2>4. CASE RewriteFound \/ RewriteSwitch
    BY <2>2, <2>4 DEF RewriteFound, RewriteSwitch, RewriteBack, Return, Goto,
      SaveHeader, LoadHeader, NoHeader
  <2>5. CASE RewriteReload \/ RewritePage \/ RewriteEnd
    BY <2>2, <2>5 DEF RewriteReload, RewritePage, RewriteEnd, RewriteBack, Return,
      Goto
  <2> QED
    BY <1>6, <2>3, <2>4, <2>5 DEF RewriteWriteNext
<1>7. CASE SaveNext \/ LoadNext \/ ClearNext
  <2>1. CASE SaveNext
    <3>1. \/ pc' \in {"done", "w_start", "d_block"}
          \/ pc' = "h_load" /\ h'.back = "v_check"
      BY <2>1 DEF SaveNext, SaveStart, SaveCheck, SaveRewritten, SaveUndone,
        Delete, Return, Goto, LoadHeader, NoHeader
    <3> QED
      BY <3>1, NoSearchInUse
  <2>2. CASE LoadNext \/ ClearNext
    <3>1. pc' \in {"done", "d_block", "l_copy", "c_load"}
      BY <2>2 DEF LoadNext, LoadStart, LoadCopy, LoadDeleted, ClearNext,
        ClearStart, ClearLoad, Delete, Return, Goto, control
    <3> QED
      BY <3>1, NoSearchInUse
  <2> QED
    BY <1>7, <2>1, <2>2
<1>8. CASE FormatNext
  <2>1. \/ pc' \in {"done", "m_block", "m_erase"}
        \/ pc' \in HeaderPoint /\ h'.back \in {"m_header", "m_saved"}
    BY <1>8 DEF FormatNext, FormatBlock, FormatHeader, FormatSaved, FormatErase,
      Return, Goto, LoadHeader, SaveHeader, NoHeader
  <2> QED
    BY <2>1, NoSearchInUse
<1>9. CASE Answer \/ Crash
  BY <1>9, NoSearchInUse DEF Answer, Crash, Forget
<1>10. CASE Drive
  BY <1>10, HealthyDrive DEF Drive, HealthyStep, IInv, TypeOK
<1>11. CASE UNCHANGED vars
  BY <1>11 DEF vars, device, control, frames, EmptySearch
<1> QED
  BY <1>1, <1>2, <1>3, <1>4, <1>5, <1>6, <1>7, <1>8, <1>9, <1>10, <1>11
    DEF Next, Library, DataNext

-----------------------------------------------------------------------------
(* Steps that do not touch the record that is written.                     *)

\* What is true of the call that writes a record.
WInv == HeadersThere /\ ErasePlan /\ WritePlan /\ RecordWritten /\ WriteCall

\* The context of its steps.
WriteStep ==
  /\ HealthyStep /\ IInv'
  /\ DeleteClears /\ DeleteClears' /\ Layout /\ Layout'
  /\ HeaderIsTable /\ EmptySearch /\ EmptySearch' /\ WInv

\* The types of what a rewrite holds.
LEMMA WriteTypes ==
  ASSUME WriteStep
  PROVE  /\ w \in RewriteFrame /\ call \in Call /\ mem \in Image
         /\ h \in HeaderFrame /\ s \in SearchFrame
         /\ call.len \in Nat /\ call.len <= MaxLen /\ MaxLen \in Nat
         /\ w.erased \in Nat /\ w.n \in Nat /\ w.header.mb \in Macroblock
         /\ w.batch \in Seq(Addr) /\ w.header.page \in Page
<1>1. /\ w \in RewriteFrame /\ call \in Call /\ mem \in Image
      /\ h \in HeaderFrame /\ s \in SearchFrame
  BY DEF WriteStep, HealthyStep, IInv, TypeOK, DataType, DeviceType, HeaderType,
    SearchType
<1>2. MaxLen \in Nat
  BY DataAssumption
<1>3. call.len \in 0 .. MaxLen
  BY <1>1 DEF Call
<1>4. w.erased \in 0 .. MaxLen /\ w.n \in 0 .. MaxLen
  BY <1>1 DEF RewriteFrame
<1>5. /\ w.header.mb \in Macroblock /\ w.batch \in Seq(Addr)
      /\ w.header.page \in Page
  BY <1>1 DEF RewriteFrame
<1> QED
  BY <1>1, <1>2, <1>3, <1>4, <1>5

\* A step that leaves rewrite, or stays outside of it, has nothing to keep but
\* that a failure stays one.
LEMMA NotRewriting ==
  ASSUME ~Within(RewritePoint \ {"w_start"})', WriteCall',
         pc' \in {"v_saved", "done"} /\ call'.op \in {"save", "rewrite"} => st' # "OK",
         pc' = "v_undone" \/ (At(DeletePoint)' /\ d'.back = "v_undone") => w'.res # "OK"
  PROVE  WInv'
<1>1. /\ ~ErasingAt' /\ ~WritingAt' /\ ~At({"w_header"})'
      /\ ~Within(RewritePoint \ {"w_start", "w_deleted", "w_header"})'
  BY DEF ErasingAt, WritingAt, Within, At, RewritePoint
<1> QED
  BY <1>1 DEF WInv, HeadersThere, ErasePlan, WritePlan, RecordWritten

\* The tables stay, and the pages of data do.
Stays == SameTables(mem, mem') /\ \A a \in DataAddr : mem'[a] = mem[a]

\* They do when the drive is only read.
LEMMA ReadStays ==
  ASSUME mem' = mem
  PROVE  Stays
BY DEF Stays, SameTables

\* Then all that is planned stays as it is.
LEMMA ErasePlanKept ==
  ASSUME WriteStep, Stays, UNCHANGED <<call, w>>, ErasingAt' => ErasingAt,
         Within({"w_target"})' => Within({"w_target"}) /\ s'.from = s.from,
         pc' \notin {"w_erase", "w_rest"}
  PROVE  ErasePlan'
<1> SUFFICES ASSUME ErasingAt' PROVE ErasePlan'
  BY DEF ErasePlan
<1>1. ErasingAt /\ ErasePlan /\ HeadersThere
  BY DEF WriteStep, WInv
<1>2. /\ \A b \in Searched : ValidCopies(mem, b) # {}
      /\ ValidCopies(mem, MacroblockIndex(call.addr)) # {}
  BY <1>1 DEF HeadersThere, ErasingAt, Within, At, RewritePoint, SearchPoint,
    HeaderPoint
<1>3. /\ BatchPages \subseteq DataAddr
      /\ Within({"w_target"}) => s.from = w.erase + 1
      /\ w.n = 0 /\ w.cur = call.addr /\ w.block = None /\ ~w.loaded
      /\ w.header.mb = MacroblockIndex(call.addr)
      /\ w.header.page.toc = Table(mem, w.header.mb)
  BY <1>1 DEF ErasePlan
<1>4. Table(mem', w.header.mb) = Table(mem, w.header.mb)
  BY <1>2, <1>3, WriteTypes DEF Stays, SameTables
<1>5. PICK p \in [0 .. MaxLen -> DataAddr] : Erases(p)
  BY <1>1 DEF ErasePlan
<1> DEFINE k == IF w.erased < call.len THEN w.erased ELSE call.len - 1
<1>6. \A j \in 0 .. k : mem'[p[j]] = mem[p[j]]
  BY <1>5, WriteTypes DEF Stays
<1>7. \A b \in Searched : Table(mem', b) = Table(mem, b)
  BY <1>2, SearchedIsMacroblock DEF Stays, SameTables
<1>8. Erases(p)'
  <2>1. /\ Rising(p, k) /\ TablesListOnly(p, 0)
        /\ \A j \in 0 .. k - 1 : NextEmpty(mem, p[j] + 1, p[j + 1])
        /\ \A j \in 0 .. k : mem[p[j]] = Bad \/ p[j] \in BatchPages
        /\ w.erased < call.len => w.erase = p[k]
    BY <1>5 DEF Erases
  <2>2. \A j \in 0 .. k - 1 : NextEmpty(mem', p[j] + 1, p[j + 1])
    BY <2>1, NextEmptySame DEF Stays
  <2>3. TablesListOnly(p, 0)'
    BY <1>7, <2>1 DEF TablesListOnly, ListsOnly
  <2>4. \A j \in 0 .. k : mem'[p[j]] = Bad \/ p[j] \in BatchPages'
    BY <1>6, <2>1 DEF BatchPages
  <2>5. Rising(p, k)'
    BY <2>1 DEF Rising
  <2> QED
    BY <2>1, <2>2, <2>3, <2>4, <2>5 DEF Erases
<1>9. BatchPages' = BatchPages
  BY DEF BatchPages
<1> QED
  BY <1>3, <1>4, <1>5, <1>8, <1>9 DEF ErasePlan

\* So does what is written.
LEMMA WritePlanKept ==
  ASSUME WriteStep, Stays, UNCHANGED <<call, w>>, WritingAt' => WritingAt,
         At({"w_end"})' => At({"w_end"}), At({"w_reload"})' => At({"w_reload"}),
         At({"w_switch", "w_reload", "w_page"})' => At({"w_switch", "w_reload", "w_page"}),
         pc' \notin {"w_end", "w_switch", "w_page"}
  PROVE  WritePlan'
<1> SUFFICES ASSUME WritingAt' PROVE WritePlan'
  BY DEF WritePlan
<1>1. WritingAt /\ WritePlan /\ HeadersThere
  BY DEF WriteStep, WInv
<1>2. \A b \in Searched : ValidCopies(mem, b) # {}
  BY <1>1 DEF HeadersThere, WritingAt, Within, At, RewritePoint, SearchPoint,
    HeaderPoint
<1>3. PICK p \in [0 .. MaxLen -> DataAddr] : Writes(p)
  BY <1>1 DEF WritePlan
<1>4. ValidCopies(mem, w.header.mb) # {}
  BY <1>1 DEF WritePlan
<1>5. /\ ValidCopies(mem', w.header.mb) # {}
      /\ Table(mem', w.header.mb) = Table(mem, w.header.mb)
  BY <1>4, WriteTypes DEF Stays, SameTables
<1>6. \A j \in 0 .. call.len - 1 :
        /\ p[j] \in DataAddr /\ mem'[p[j]] = mem[p[j]]
        /\ MacroblockIndex(p[j]) \in Macroblock
        /\ ValidCopies(mem', MacroblockIndex(p[j])) # {}
        /\ Table(mem', MacroblockIndex(p[j])) = Table(mem, MacroblockIndex(p[j]))
  <2> TAKE j \in 0 .. call.len - 1
  <2>1. p[j] \in DataAddr
    BY <1>3, WriteTypes
  <2>2. MacroblockIndex(p[j]) \in Macroblock
    BY <2>1, MacroblockInRange DEF DataAddr
  <2>3. ValidCopies(mem, MacroblockIndex(p[j])) # {}
    BY <1>3 DEF Writes
  <2> QED
    BY <2>1, <2>2, <2>3 DEF Stays, SameTables
<1>7. \A b \in Searched : Table(mem', b) = Table(mem, b)
  BY <1>2, SearchedIsMacroblock DEF Stays, SameTables
<1>8. w.n <= call.len
  BY <1>1 DEF WritePlan
<1>9. Writes(p)'
  <2>1. Rising(p, call.len - 1)'
    BY <1>3 DEF Writes, Rising
  <2>2. \A j \in w.n .. call.len - 2 : NextEmpty(mem', p[j] + 1, p[j + 1])
    BY <1>3, NextEmptySame DEF Writes, Stays
  <2>3. /\ \A j \in w.n .. call.len - 1 : mem'[p[j]] = Bad
        /\ \A j \in 0 .. call.len - 1 : ValidCopies(mem', MacroblockIndex(p[j])) # {}
    BY <1>3, <1>6, WriteTypes DEF Writes
  <2>4. Parts(p, w.n)'
    BY <1>3, <1>6, <1>8, WriteTypes DEF Writes, Parts
  <2>5. TablesListOnly(p, w.n)'
    BY <1>3, <1>7 DEF Writes, TablesListOnly, ListsOnly
  <2>6. ListsAll(p, w.n)'
    BY <1>3, <1>6, <1>8, WriteTypes DEF Writes, ListsAll, TableInUse
  <2>7. /\ w.n < call.len => w.cur = p[w.n]
        /\ w.n > 0 => w.prev = p[w.n - 1]
        /\ At({"w_switch", "w_reload", "w_page"})' /\ ~IsLastPage' =>
             w.next = p[w.n + 1]
    BY <1>3 DEF Writes, IsLastPage
  <2>8. \A i \in Index : w.header.page.toc[i] = Table(mem', w.header.mb)[i]
                        \/ \E j \in 0 .. w.n - 1 : p[j] = PageAddress(w.header.mb, i)
    BY <1>3, <1>5 DEF Writes
  <2> QED
    BY <2>1, <2>2, <2>3, <2>4, <2>5, <2>6, <2>7, <2>8 DEF Writes
<1>10. /\ IF w.loaded THEN w.header.mb = w.block ELSE w.block = None
       /\ w.n <= call.len /\ (w.n > 0 => w.loaded)
       /\ At({"w_end"})' => w.n = call.len
       /\ At({"w_reload"})' => w.header.page.toc = Table(mem', w.header.mb)
  BY <1>1, <1>5 DEF WritePlan
<1> QED
  BY <1>3, <1>5, <1>9, <1>10 DEF WritePlan

-----------------------------------------------------------------------------
(* Headers and searches.                                                   *)

\* Loading, creating and saving headers does not take a call to another point.
LEMMA HeaderWriteCall ==
  ASSUME WriteStep, HeaderNext, UNCHANGED <<s, call, d, w, l>>
  PROVE  WriteCall'
<1>1. /\ RewritePoint \cap HeaderPoint = {}
      /\ (RewritePoint \ {"w_start"}) \cap HeaderPoint = {}
      /\ {"v_start", "v_check", "v_saved"} \cap HeaderPoint = {}
      /\ DeletePoint \cap HeaderPoint = {}
  BY DEF RewritePoint, HeaderPoint, DeletePoint
<1>2. pc \in HeaderPoint
  BY DEF HeaderNext, HeaderLoad, HeaderSave, HeaderPoint
<1>3. /\ Within(RewritePoint)' <=> Within(RewritePoint)
      /\ At({"v_start", "v_check", "v_saved"})' <=> At({"v_start", "v_check", "v_saved"})
      /\ At(DeletePoint)' <=> At(DeletePoint)
  BY <1>1, HeaderKeepsPoint DEF WriteStep
<1>4. pc \notin {"v_undone", "done"}
  BY <1>2 DEF HeaderPoint
<1> QED
  BY <1>3, <1>4 DEF WriteCall, Writing, WriteStep, WInv

\* A header that is loaded or created leaves the tables that were there.
LEMMA HeaderStaysWrite ==
  ASSUME WriteStep, HeaderNext, UNCHANGED <<s, call, d, w, l>>, Stays,
         pc' \in LoadPoint \cup {"h_save"}
  PROVE  WInv'
<1>1. pc \in HeaderPoint /\ pc' \notin {"w_erase", "w_rest", "w_end", "w_switch",
                                         "w_page", "w_next", "v_saved", "done",
                                         "v_undone"}
  BY DEF HeaderNext, HeaderLoad, HeaderSave, HeaderPoint, LoadPoint
<1>2. \A P \in {RewritePoint \ {"w_start"},
                RewritePoint \ {"w_start", "w_deleted", "w_header"},
                {"w_target", "w_erase"}, {"w_target"}, {"w_header"},
                {"w_found", "w_switch", "w_reload", "w_page"},
                {"w_switch", "w_reload", "w_page"}, {"w_reload"}, {"w_end"},
                DeletePoint} :
        P \cap HeaderPoint = {}
  BY DEF RewritePoint, HeaderPoint, DeletePoint
<1>3. \A P \in {RewritePoint \ {"w_start"},
                RewritePoint \ {"w_start", "w_deleted", "w_header"},
                {"w_target", "w_erase"}, {"w_target"}, {"w_header"},
                {"w_found", "w_switch", "w_reload", "w_page"},
                {"w_switch", "w_reload", "w_page"}, {"w_reload"}, {"w_end"},
                DeletePoint} :
        (At(P)' <=> At(P)) /\ (Within(P)' <=> Within(P))
  BY <1>2, HeaderKeepsPoint DEF WriteStep
<1>4. ErasingAt' => ErasingAt
  BY <1>1, <1>3 DEF ErasingAt
<1>5. WritingAt' => WritingAt
  BY <1>1, <1>3 DEF WritingAt
<1>6. ErasePlan'
  BY <1>1, <1>3, <1>4, ErasePlanKept
<1>7. WritePlan'
  BY <1>1, <1>3, <1>5, WritePlanKept
<1>8. HeadersThere'
  <2>1. HeadersThere
    BY DEF WriteStep, WInv
  <2>2. \A b \in Macroblock : ValidCopies(mem, b) # {} =>
          ValidCopies(mem', b) # {} /\ Table(mem', b) = Table(mem, b)
    BY DEF Stays, SameTables
  <2>3. MacroblockIndex(call.addr) \in Macroblock
    BY WriteTypes, MacroblockInRange DEF Call
  <2>4. Within(RewritePoint \ {"w_start"}) =>
          \A b \in Searched : /\ ValidCopies(mem', b) # {}
                              /\ Table(mem', b) = Table(mem, b)
    BY <2>1, <2>2, SearchedIsMacroblock DEF HeadersThere
  <2>5. At({"w_header"}) => Within(RewritePoint \ {"w_start"})
    BY DEF At, Within, RewritePoint
  <2>6. At({"w_header"}) => \A b \in Searched : Unlisted(Table(mem', b), call.key)
    BY <2>1, <2>4, <2>5 DEF HeadersThere
  <2>7. Within(RewritePoint \ {"w_start", "w_deleted", "w_header"}) =>
          ValidCopies(mem', MacroblockIndex(call.addr)) # {}
    BY <2>1, <2>2, <2>3 DEF HeadersThere
  <2> QED
    BY <1>3, <2>4, <2>6, <2>7 DEF HeadersThere
<1>9. RecordWritten'
  BY <1>1, <1>3 DEF RecordWritten, WriteStep, WInv
<1> QED
  BY <1>6, <1>7, <1>8, <1>9, HeaderWriteCall DEF WInv

\* Saving the header in use: it takes the place of the table it was loaded
\* from, and lists what has been written.
LEMMA HeaderSwitchWrite ==
  ASSUME WriteStep, HeaderSave, UNCHANGED <<s, call, d, w, l>>,
         h.back \in {"w_switch", "w_end"}
  PROVE  WInv'
<1> DEFINE c == w.header.mb
<1>1. /\ pc = "h_save" /\ h.mb = c /\ h.page = w.header.page /\ h.copy = 0
      /\ c \in Macroblock /\ c \in Nat /\ w.header.page \in Page
  BY WriteTypes, SearchedIsMacroblock DEF WriteStep, HeaderSave, HeaderIsTable,
    DeleteClears, HeaderPoint
<1>2. /\ mem' = [mem EXCEPT ![HeaderAddress(c, 0)] = w.header.page]
      /\ pc' = h.back /\ st' = "OK" /\ h' = h
  BY <1>1, HealthyHeaderSave DEF WriteStep, HealthyStep, IInv, TypeOK
<1>3. /\ mem'[HeaderAddress(c, 0)] = w.header.page
      /\ \A a \in Addr : a # HeaderAddress(c, 0) => mem'[a] = mem[a]
      /\ \A a \in DataAddr : mem'[a] = mem[a]
  <2>1. HeaderAddress(c, 0) \in Addr /\ IsMacroblockAddress(HeaderAddress(c, 0))
    BY <1>1, Geometry, HeaderInStorage
  <2> QED
    BY <1>2, <2>1, WriteTypes DEF Image, DataAddr
<1>4. ValidCopies(mem', c) # {} /\ Table(mem', c) = w.header.page.toc
  BY <1>1, <1>3, TableSaved
<1>5. \A b \in Macroblock : b # c /\ ValidCopies(mem, b) # {} =>
        ValidCopies(mem', b) # {} /\ Table(mem', b) = Table(mem, b)
  BY <1>1, <1>3, OtherTablesKept
<1>6. WritingAt /\ WritePlan /\ HeadersThere
  BY <1>1 DEF WritingAt, Within, At, HeaderPoint, WriteStep, WInv
<1>7. /\ \A b \in Searched : ValidCopies(mem, b) # {} /\ b \in Macroblock
      /\ ValidCopies(mem, MacroblockIndex(call.addr)) # {}
      /\ ValidCopies(mem, c) # {}
  <2>1. /\ Within(RewritePoint \ {"w_start"})
        /\ Within(RewritePoint \ {"w_start", "w_deleted", "w_header"})
    BY <1>1 DEF Within, At, HeaderPoint, RewritePoint
  <2> QED
    BY <1>6, <2>1, SearchedIsMacroblock DEF HeadersThere, WritePlan
<1>8. PICK p \in [0 .. MaxLen -> DataAddr] : Writes(p)
  BY <1>6 DEF WritePlan
<1>9. /\ IF w.loaded THEN c = w.block ELSE w.block = None
      /\ w.n <= call.len /\ (w.n > 0 => w.loaded)
      /\ h.back = "w_end" => w.n = call.len
  BY <1>1, <1>6 DEF WritePlan, At, HeaderPoint
<1>10. /\ \A j \in 0 .. call.len - 1 :
             p[j] \in DataAddr /\ MacroblockIndex(p[j]) \in Macroblock
       /\ \A j \in 0 .. call.len - 1 : ValidCopies(mem, MacroblockIndex(p[j])) # {}
  <2> SUFFICES ASSUME NEW j \in 0 .. call.len - 1
               PROVE  /\ p[j] \in DataAddr /\ MacroblockIndex(p[j]) \in Macroblock
                      /\ ValidCopies(mem, MacroblockIndex(p[j])) # {}
    OBVIOUS
  <2>1. p[j] \in DataAddr
    BY <1>8, WriteTypes
  <2>2. MacroblockIndex(p[j]) \in Macroblock
    BY <2>1, MacroblockInRange DEF DataAddr
  <2> QED
    BY <1>8, <2>1, <2>2 DEF Writes
\* The table in use is the one that is saved.
<1>11. \A j \in 0 .. w.n - 1 :
         TableInUse(MacroblockIndex(p[j]))' = TableInUse(MacroblockIndex(p[j]))
  <2> SUFFICES ASSUME NEW j \in 0 .. w.n - 1
               PROVE  TableInUse(MacroblockIndex(p[j]))' = TableInUse(MacroblockIndex(p[j]))
    OBVIOUS
  <2>1. w.loaded /\ j \in 0 .. call.len - 1
    BY <1>9, WriteTypes
  <2>2. CASE MacroblockIndex(p[j]) = c
    BY <2>1, <2>2 DEF TableInUse
  <2>3. CASE MacroblockIndex(p[j]) # c
    BY <1>5, <1>10, <2>1, <2>3 DEF TableInUse
  <2> QED
    BY <2>2, <2>3
<1>12. \A i \in Index : w.header.page.toc[i] = Table(mem, c)[i]
                        \/ \E j \in 0 .. w.n - 1 : p[j] = PageAddress(c, i)
  BY <1>8 DEF Writes
\* What it lists as empty was empty.
<1>13. ASSUME NEW j \in 0 .. w.n - 1, NEW i \in Index, p[j] = PageAddress(c, i)
       PROVE  w.header.page.toc[i].st = "OK"
  <2>1. j \in 0 .. call.len - 1 /\ p[j] \in DataAddr /\ w.loaded
    BY <1>9, <1>10, WriteTypes
  <2>2. MacroblockIndex(p[j]) = c /\ PageIndex(p[j]) = i
    BY <1>1, <1>13, PlaceOfPage
  <2>3. TableInUse(MacroblockIndex(p[j]))[PageIndex(p[j])].st = "OK"
    BY <1>8 DEF Writes, ListsAll
  <2> QED
    BY <2>1, <2>2, <2>3 DEF TableInUse
<1>14. \A b \in Searched : ValidCopies(mem, b) # {} =>
         /\ ValidCopies(mem', b) # {}
         /\ \A i \in Index : Table(mem', b)[i].st = "EMPTY" => Table(mem, b)[i].st = "EMPTY"
  BY <1>4, <1>5, <1>7, <1>12, <1>13
<1>15. ASSUME NEW j \in w.n .. call.len - 2
       PROVE  NextEmpty(mem', p[j] + 1, p[j + 1])
  <2> DEFINE a == p[j + 1]
  <2>1. NextEmpty(mem, p[j] + 1, a)
    BY <1>8 DEF Writes
  <2>2. /\ j \in Nat /\ j + 1 \in 0 .. call.len - 1 /\ a \in DataAddr
        /\ MacroblockIndex(a) \in Searched
    BY <1>10, <2>1, WriteTypes DEF NextEmpty
  <2>3. PageIndex(a) \in Index /\ a = PageAddress(MacroblockIndex(a), PageIndex(a))
    BY <2>2, SearchedPage, AddressOfPlace
  <2>4. Table(mem, MacroblockIndex(a))[PageIndex(a)].st = "EMPTY"
    BY <2>1 DEF NextEmpty, EmptyFrom, Least
  <2>5. \A i \in 0 .. w.n - 1 : p[i] # a
    <3>1. \A i \in 0 .. w.n - 1 : i \in 0 .. call.len - 1 /\ i < j + 1
      BY <1>9, <2>2, WriteTypes
    <3>2. \A i \in 0 .. call.len - 1 : i < j + 1 => p[i] < a
      BY <1>8, <2>2 DEF Writes, Rising
    <3>3. a \in Nat
      BY <2>2, Geometry DEF DataAddr, Addr
    <3> QED
      BY <3>1, <3>2, <3>3
  <2>6. Table(mem', MacroblockIndex(a))[PageIndex(a)].st = "EMPTY"
    <3>1. CASE MacroblockIndex(a) = c
      BY <1>4, <1>12, <2>3, <2>4, <2>5, <3>1
    <3>2. CASE MacroblockIndex(a) # c
      BY <1>5, <1>7, <2>2, <2>4, <3>2
    <3> QED
      BY <3>1, <3>2
  <2> QED
    BY <1>14, <2>1, <2>6, NextEmptyKept
<1>16. TablesListOnly(p, w.n)'
  <2>1. TablesListOnly(p, w.n)
    BY <1>8 DEF Writes
  <2>2. ASSUME NEW b \in Searched
        PROVE  ListsOnly(Table(mem', b), b, p, w.n)
    <3>1. ListsOnly(Table(mem, b), b, p, w.n)
      BY <2>1, <2>2 DEF TablesListOnly
    <3>2. CASE b = c
      BY <1>4, <1>12, <3>1, <3>2 DEF ListsOnly
    <3>3. CASE b # c
      BY <1>5, <1>7, <3>1, <3>3
    <3> QED
      BY <3>2, <3>3
  <2> QED
    BY <2>2 DEF TablesListOnly, ListsOnly
<1>17. Writes(p)'
  <2>1. Rising(p, call.len - 1)'
    BY <1>8 DEF Writes, Rising
  <2>2. /\ \A j \in w.n .. call.len - 1 : mem'[p[j]] = Bad
        /\ \A j \in 0 .. call.len - 1 : ValidCopies(mem', MacroblockIndex(p[j])) # {}
    <3>1. \A j \in w.n .. call.len - 1 : j \in 0 .. call.len - 1
      BY WriteTypes
    <3> QED
      BY <1>3, <1>4, <1>5, <1>8, <1>10, <3>1 DEF Writes
  <2>3. Parts(p, w.n)'
    <3>1. \A j \in 0 .. w.n - 1 : mem'[p[j]] = mem[p[j]]
      BY <1>3, <1>9, <1>10, WriteTypes
    <3> QED
      BY <1>8, <3>1 DEF Writes, Parts
  <2>4. ListsAll(p, w.n)'
    <3>1. ListsAll(p, w.n)
      BY <1>8 DEF Writes
    <3> QED
      BY <1>11, <3>1 DEF ListsAll
  <2>5. /\ w.n < call.len => w.cur = p[w.n]
        /\ w.n > 0 => w.prev = p[w.n - 1]
        /\ At({"w_switch", "w_reload", "w_page"})' /\ ~IsLastPage' =>
             w.next = p[w.n + 1]
    <3>1. At({"w_switch", "w_reload", "w_page"})' => At({"w_switch", "w_reload", "w_page"})
      BY <1>1, <1>2 DEF At, HeaderPoint
    <3> QED
      BY <1>8, <3>1 DEF Writes, IsLastPage
  <2>6. \A i \in Index : w.header.page.toc[i] = Table(mem', c)[i]
    BY <1>4
  <2> QED
    BY <1>15, <1>16, <2>1, <2>2, <2>3, <2>4, <2>5, <2>6 DEF Writes
<1>18. WritePlan'
  <2>1. At({"w_end"})' => w.n = call.len
    BY <1>2, <1>9 DEF At, HeaderPoint
  <2>2. pc' # "w_page"
    BY <1>2
  <2> QED
    BY <1>4, <1>8, <1>9, <1>17, <2>1, <2>2 DEF WritePlan
<1>19. HeadersThere'
  <2>1. ~At({"w_header"})'
    BY <1>2 DEF At, HeaderPoint
  <2>2. MacroblockIndex(call.addr) \in Macroblock
    BY WriteTypes, MacroblockInRange DEF Call
  <2>3. \A b \in Searched : ValidCopies(mem', b) # {}
    BY <1>4, <1>5, <1>7
  <2>4. ValidCopies(mem', MacroblockIndex(call.addr)) # {}
    BY <1>4, <1>5, <1>7, <2>2
  <2> QED
    BY <2>1, <2>3, <2>4 DEF HeadersThere
<1>20. ErasePlan' /\ RecordWritten'
  BY <1>2 DEF ErasePlan, ErasingAt, Within, At, HeaderPoint, SearchPoint,
    RecordWritten, DeletePoint
<1> QED
  BY <1>18, <1>19, <1>20, HeaderWriteCall DEF WInv, HeaderNext

\* All that a call does with headers keeps what is true of a record.
LEMMA HeaderWrite ==
  ASSUME WriteStep, HeaderNext, UNCHANGED <<s, call, d, w, l>>
  PROVE  WInv'
<1>1. /\ h \in HeaderFrame /\ h.back \in HeaderReturn /\ h.copy = 0
      /\ h.mb \in Macroblock /\ h.mb \in Nat /\ pc \in HeaderPoint
  <2>1. h \in HeaderFrame
    BY WriteTypes
  <2>2. pc \in HeaderPoint
    BY DEF HeaderNext, HeaderLoad, HeaderSave, HeaderPoint
  <2> QED
    BY <2>1, <2>2, SearchedIsMacroblock DEF HeaderFrame, WriteStep, DeleteClears
<1>2. CASE HeaderLoad
  <2>1. pc = "h_load" /\ h.back \in LoadPoint
    BY <1>2 DEF HeaderLoad, WriteStep, HeaderIsTable
  <2>2. mem' = mem /\ pc' \in LoadPoint \cup {"h_save"}
    BY <1>1, <1>2, <2>1, HealthyHeaderLoad DEF WriteStep, HealthyStep
  <2> QED
    BY <2>2, ReadStays, HeaderStaysWrite
<1>3. CASE HeaderSave
  <2>1. /\ mem' = [mem EXCEPT ![HeaderAddress(h.mb, 0)] = h.page]
        /\ pc = "h_save" /\ pc' = h.back
    BY <1>1, <1>3, HealthyHeaderSave DEF WriteStep, HealthyStep, IInv, TypeOK,
      HeaderSave
  <2>2. CASE h.back \in LoadPoint
    <3>1. ValidCopies(mem, h.mb) = {}
      BY <2>1, <2>2 DEF WriteStep, HeaderIsTable
    <3>2. \A a \in Addr : a # HeaderAddress(h.mb, 0) => mem'[a] = mem[a]
      BY <2>1, WriteTypes DEF Image
    <3>3. IsMacroblockAddress(HeaderAddress(h.mb, 0))
      BY <1>1, Geometry, HeaderInStorage
    <3>4. Stays
      BY <1>1, <3>1, <3>2, <3>3, CreatedKeepsTables DEF Stays, DataAddr
    <3> QED
      BY <2>1, <2>2, <3>4, HeaderStaysWrite
  <2>3. CASE h.back \in {"w_switch", "w_end"}
    BY <1>3, <2>3, HeaderSwitchWrite
  <2>4. CASE h.back \in {"d_saved", "m_saved", "idle"}
    <3>1. /\ ~Within(RewritePoint \ {"w_start"})' /\ pc' \notin {"v_saved", "done", "v_undone"}
      BY <2>1, <2>4 DEF Within, At, RewritePoint, SearchPoint, HeaderPoint
    <3>2. At(DeletePoint)' => At(DeletePoint)
      BY <2>1, <2>4 DEF At, DeletePoint, HeaderPoint
    <3>3. At(DeletePoint)' /\ d'.back = "v_undone" => w'.res # "OK"
      BY <3>2 DEF WriteStep, WInv, RecordWritten
    <3> QED
      BY <3>1, <3>3, NotRewriting, HeaderWriteCall
  <2> QED
    BY <1>1, <2>2, <2>3, <2>4 DEF LoadPoint, HeaderReturn
<1> QED
  BY <1>2, <1>3 DEF HeaderNext

\* A search leaves it all as it is.
LEMMA SearchWrite ==
  ASSUME WriteStep, SearchNext, UNCHANGED <<call, d, w, l>>
  PROVE  WInv'
<1>1. /\ s \in SearchFrame /\ s.back \in SearchReturn /\ mem' = mem
      /\ pc \in SearchPoint
      /\ \/ pc' \in SearchPoint \cup {s.back}
         \/ pc' = "h_load" /\ h'.back = "s_header"
  <2>1. s \in SearchFrame
    BY WriteTypes
  <2>2. pc \in SearchPoint /\ mem' = mem
    BY DEF SearchNext, SearchBlock, SearchHeader, SearchUnit, SearchPoint, device
  <2>3. \/ pc' \in SearchPoint \cup {s.back}
        \/ pc' = "h_load" /\ h'.back = "s_header"
    BY <2>2 DEF SearchNext, SearchBlock, SearchHeader, SearchUnit, LoadHeader,
      NoHeader, Return, Goto, control, SearchPoint
  <2> QED
    BY <2>1, <2>2, <2>3 DEF SearchFrame
<1>2. s'.from = s.from /\ s'.back = s.back
  BY <1>1 DEF SearchFrame, SearchNext, SearchBlock, SearchHeader, SearchUnit
<1>3. \A P \in {RewritePoint, RewritePoint \ {"w_start"},
                RewritePoint \ {"w_start", "w_deleted", "w_header"},
                {"w_target", "w_erase"}, {"w_target"},
                {"w_found", "w_switch", "w_reload", "w_page"}} :
        P \cap (HeaderPoint \cup SearchPoint) = {}
  BY DEF RewritePoint, HeaderPoint, SearchPoint
<1>4. \A P \in {RewritePoint, RewritePoint \ {"w_start"},
                RewritePoint \ {"w_start", "w_deleted", "w_header"},
                {"w_target", "w_erase"}, {"w_target"},
                {"w_found", "w_switch", "w_reload", "w_page"}} :
        Within(P)' <=> Within(P)
  BY <1>3, SearchKeepsPoint DEF WriteStep
<1>5. pc' \in SearchPoint \cup {"h_load", "idle", "w_target", "w_found", "done"}
  BY <1>1 DEF SearchReturn
<1>6. /\ ~At({"w_header"})' /\ ~At({"w_end"})' /\ ~At({"w_reload"})'
      /\ ~At({"w_switch", "w_reload", "w_page"})' /\ ~At(DeletePoint)'
      /\ ~At({"v_start", "v_check", "v_saved"})
      /\ ~At(DeletePoint)
  BY <1>1, <1>5 DEF At, HeaderPoint, SearchPoint, SearchReturn, DeletePoint
<1>7. pc' \notin {"w_rest", "w_next", "w_erase", "w_end", "w_switch", "w_page", "v_undone",
                  "v_saved"}
  BY <1>5 DEF SearchPoint
<1>8. ErasePlan'
  <2>1. ErasingAt' => ErasingAt
    BY <1>4, <1>7 DEF ErasingAt
  <2> QED
    BY <1>1, <1>2, <1>4, <1>7, <2>1, ReadStays, ErasePlanKept
<1>9. WritePlan'
  <2>1. WritingAt' => WritingAt
    BY <1>4, <1>6, <1>7 DEF WritingAt
  <2> QED
    BY <1>1, <1>6, <1>7, <2>1, ReadStays, WritePlanKept
<1>10. HeadersThere'
  BY <1>1, <1>4, <1>6 DEF HeadersThere, WriteStep, WInv
\* A search that ends a call is that of a client.
<1>11. WriteCall'
  <2>1. Writing => Within(RewritePoint)
    BY <1>6 DEF Writing
  <2>2. pc \notin {"v_undone", "done"}
    BY <1>1 DEF SearchPoint
  <2>3. call.op \in {"save", "rewrite"} => Within(RewritePoint)
    BY <1>6, <2>1, <2>2 DEF WriteStep, WInv, WriteCall
  <2> QED
    BY <1>4, <2>3 DEF WriteCall, Writing
<1>12. RecordWritten'
  <2>1. ASSUME pc' = "done"
        PROVE  call.op \notin {"save", "rewrite"}
    <3>1. ~Within(RewritePoint)'
      BY <2>1 DEF Within, At, RewritePoint, SearchPoint, HeaderPoint
    <3>2. ~Writing
      BY <1>4, <1>6, <3>1 DEF Writing
    <3> QED
      BY <1>1, <1>6, <3>2 DEF WriteStep, WInv, WriteCall, SearchPoint
  <2> QED
    BY <1>6, <1>7, <2>1 DEF RecordWritten
<1> QED
  BY <1>8, <1>9, <1>10, <1>11, <1>12 DEF WInv

\* deleteData returns to rewrite when no table lists the record any more.
LEMMA DeleteWrite ==
  ASSUME WriteStep, DeleteNext
  PROVE  WInv'
<1>1. /\ d \in DeleteFrame /\ d.back \in DeleteReturn /\ mem' = mem
      /\ UNCHANGED <<s, call, w>> /\ d'.back = d.back
  <2>1. pc # "d_erase"
    BY DEF WriteStep, DeleteClears
  <2> QED
    BY <2>1 DEF WriteStep, HealthyStep, IInv, TypeOK, DataType, DeleteFrame,
      DeleteNext, DeleteBlock, DeleteHeader, DeleteSaved, DeleteErase, device
<1>2. /\ pc \in DeletePoint
      /\ \/ pc' \in DeletePoint
         \/ pc' \in HeaderPoint /\ h'.back \in {"d_header", "d_saved"}
         \/ pc' = d.back
  BY DEF DeleteNext, DeleteBlock, DeleteHeader, DeleteSaved, DeleteErase,
    LoadHeader, SaveHeader, NoHeader, Return, Goto, DeletePoint, HeaderPoint
<1>3. /\ At(DeletePoint) /\ ~Within(RewritePoint)
      /\ ~At({"v_start", "v_check", "v_saved"})
      /\ pc \notin {"v_undone", "done"}
  BY <1>2 DEF At, Within, DeletePoint, HeaderPoint, SearchPoint, RewritePoint
<1>4. call.op \in {"save", "rewrite"} => d.back \in {"w_deleted", "v_undone"}
  BY <1>3 DEF WriteStep, WInv, WriteCall, Writing
<1>5. d.back = "v_undone" => w.res # "OK"
  BY <1>3 DEF WriteStep, WInv, RecordWritten
<1>6. \/ At(DeletePoint)' /\ pc' \notin {"v_undone", "v_saved", "done", "w_deleted"}
      \/ pc' = d.back /\ ~At(DeletePoint)'
  BY <1>1, <1>2 DEF At, DeletePoint, HeaderPoint, DeleteReturn
<1>7. WriteCall'
  BY <1>1, <1>4, <1>6 DEF WriteCall, Writing, Within, At, RewritePoint
<1>8. CASE pc' # "w_deleted"
  <2>1. ~Within(RewritePoint \ {"w_start"})'
    BY <1>1, <1>2, <1>8 DEF At, Within, DeletePoint, HeaderPoint, SearchPoint,
      RewritePoint, DeleteReturn
  <2>2. ~(pc' \in {"v_saved", "done"} /\ call'.op \in {"save", "rewrite"})
    BY <1>1, <1>4, <1>6, <1>8 DEF DeleteReturn
  <2>3. pc' = "v_undone" \/ (At(DeletePoint)' /\ d'.back = "v_undone") => w'.res # "OK"
    BY <1>1, <1>5, <1>6
  <2> QED
    BY <1>7, <2>1, <2>2, <2>3, NotRewriting
<1>9. CASE pc' = "w_deleted"
  <2>1. /\ ~ErasingAt' /\ ~WritingAt' /\ ~At({"w_header"})' /\ ~At(DeletePoint)'
        /\ ~Within(RewritePoint \ {"w_start", "w_deleted", "w_header"})'
    BY <1>9 DEF ErasingAt, WritingAt, At, Within, RewritePoint, HeaderPoint,
      SearchPoint, DeletePoint
  <2>2. \A b \in Searched : ValidCopies(mem', b) # {}
    BY <1>9 DEF WriteStep, DeleteClears, NoRecord
  <2>3. HeadersThere'
    BY <2>1, <2>2 DEF HeadersThere
  <2> QED
    BY <1>7, <1>9, <2>1, <2>3 DEF WInv, ErasePlan, WritePlan, RecordWritten
<1> QED
  BY <1>8, <1>9

-----------------------------------------------------------------------------
(* The pages to erase.                                                     *)

\* A rewrite that fails has nothing more to keep.
LEMMA RewriteFails ==
  ASSUME NEW status, status # "OK", Return(status, RewriteBack)
  PROVE  WInv'
<1>1. pc' \in {"v_saved", "done"} /\ st' # "OK"
  BY DEF Return, RewriteBack
<1>2. ~Within(RewritePoint \ {"w_start"})' /\ ~At(DeletePoint)'
  BY <1>1 DEF Within, At, RewritePoint, SearchPoint, HeaderPoint, DeletePoint
<1>3. WriteCall'
  BY <1>1 DEF WriteCall, Writing, At
<1> QED
  BY <1>1, <1>2, <1>3, NotRewriting

\* It starts by deleting the record.
LEMMA RewriteStartWrite ==
  ASSUME WriteStep, RewriteStart
  PROVE  WInv'
<1>1. CASE Return("ERROR", RewriteBack)
  BY <1>1, RewriteFails
<1>2. CASE Delete(call.key, "w_deleted")
  <2>1. pc' = "d_block" /\ d'.back = "w_deleted"
    BY <1>2 DEF Delete, NoDelete
  <2>2. ~Within(RewritePoint \ {"w_start"})' /\ At(DeletePoint)'
    BY <2>1 DEF Within, At, RewritePoint, SearchPoint, HeaderPoint, DeletePoint
  <2>3. WriteCall'
    BY <2>1, <2>2 DEF WriteCall, Writing
  <2> QED
    BY <2>1, <2>2, <2>3, NotRewriting
<1> QED
  BY <1>1, <1>2 DEF RewriteStart

\* Then all headers are there, and list nothing of it.
LEMMA RewriteDeletedWrite ==
  ASSUME WriteStep, RewriteDeleted
  PROVE  WInv'
<1>1. CASE st # "OK" /\ Return(st, RewriteBack)
  BY <1>1, RewriteFails
<1>2. CASE LoadHeader(MacroblockIndex(call.addr), "w_header")
  <2>1. /\ pc = "w_deleted" /\ mem' = mem /\ call' = call
        /\ pc' = "h_load" /\ h'.back = "w_header"
    BY <1>2 DEF RewriteDeleted, LoadHeader, NoHeader, device
  <2>2. \A b \in Searched : NoRecord(mem, b, call.key)
    BY <2>1 DEF WriteStep, DeleteClears
  <2>3. ~Within(RewritePoint \ {"w_start", "w_deleted", "w_header"})'
    BY <2>1 DEF Within, At, RewritePoint, SearchPoint, HeaderPoint
  <2>4. HeadersThere'
    BY <2>1, <2>2, <2>3 DEF HeadersThere, NoRecord
  <2>5. WriteCall'
    BY <2>1 DEF WriteCall, Writing, Within, At, HeaderPoint, RewritePoint
  <2>6. ~ErasingAt' /\ ~WritingAt'
    BY <2>1 DEF ErasingAt, WritingAt, Within, At, HeaderPoint, SearchPoint
  <2> QED
    BY <2>1, <2>4, <2>5, <2>6 DEF WInv, ErasePlan, WritePlan, RecordWritten,
      At, DeletePoint, HeaderPoint
<1> QED
  BY <1>1, <1>2 DEF RewriteDeleted

\* The loop goes on with the search for the next page, or with the rest.
LEMMA EraseMoreGoes ==
  ASSUME NEW f, EraseMore(f)
  PROVE  \/ /\ f.erased < call.len /\ pc' = "s_block" /\ s'.back = "w_target"
            /\ s'.from = f.erase + 1
         \/ ~(f.erased < call.len) /\ pc' = "w_rest"
BY DEF EraseMore, Search, NoSearch, Goto

\* It does so with the pages it has found so far.
LEMMA ErasesOn ==
  ASSUME EraseMore(w'), call' = call, call.len \in Nat, w'.erased \in Nat,
         \A b \in Searched : ValidCopies(mem', b) # {},
         ValidCopies(mem', MacroblockIndex(call.addr)) # {},
         BatchPages' \subseteq DataAddr, w'.n = 0, w'.cur = call.addr,
         w'.block = None, ~w'.loaded, w'.header.mb = MacroblockIndex(call.addr),
         w'.header.page.toc = Table(mem', w'.header.mb),
         NEW p \in [0 .. MaxLen -> DataAddr], Erases(p)'
  PROVE  WInv'
<1>1. \/ /\ w'.erased < call.len /\ pc' = "s_block" /\ s'.back = "w_target"
         /\ s'.from = w'.erase + 1
      \/ w'.erased >= call.len /\ pc' = "w_rest"
  <2>1. ASSUME NEW f, f = w', EraseMore(f)
        PROVE  \/ /\ f.erased < call.len /\ pc' = "s_block" /\ s'.back = "w_target"
                  /\ s'.from = f.erase + 1
               \/ ~(f.erased < call.len) /\ pc' = "w_rest"
    BY <2>1, EraseMoreGoes
  <2> QED
    BY <2>1
<1>2. /\ ~WritingAt' /\ ~At({"w_header"})' /\ ~At(DeletePoint)'
      /\ Within(RewritePoint)'
      /\ Within({"w_target"})' => s'.from = w'.erase + 1
      /\ pc' \notin {"w_erase", "v_undone", "v_saved", "done"}
      /\ pc' = "w_rest" => w'.erased >= call.len
  BY <1>1 DEF WritingAt, At, Within, RewritePoint, HeaderPoint, SearchPoint,
    DeletePoint
<1>3. ErasePlan'
  BY <1>2 DEF ErasePlan
<1>4. HeadersThere'
  BY <1>2 DEF HeadersThere
<1> QED
  BY <1>2, <1>3, <1>4 DEF WInv, WritePlan, RecordWritten, WriteCall, Writing

\* The pages found so far, spelled out.
LEMMA ErasesSoFar ==
  ASSUME call' = call, NEW p \in [0 .. MaxLen -> DataAddr], NEW k \in Int,
         k = IF w'.erased < call.len THEN w'.erased ELSE call.len - 1,
         p[0] = call.addr, \A i, j \in 0 .. k : i < j => p[i] < p[j],
         \A j \in 0 .. k - 1 : NextEmpty(mem', p[j] + 1, p[j + 1]),
         \A j \in 0 .. k : mem'[p[j]] = Bad \/ p[j] \in BatchPages',
         w'.erased < call.len => w'.erase = p[k],
         TablesListOnly(p, 0)'
  PROVE  Erases(p)'
<1>1. Rising(p, k)'
  BY DEF Rising
<1> QED
  BY <1>1 DEF Erases

\* The loop starts at the address it was given.
LEMMA RewriteHeaderWrite ==
  ASSUME WriteStep, RewriteHeader
  PROVE  WInv'
<1>1. CASE st # "OK" /\ Return(st, RewriteBack)
  BY <1>1, RewriteFails
<1>2. ASSUME w' = [NoRewrite EXCEPT !.erase = call.addr, !.batch = <<call.addr>>,
                     !.header = [mb |-> h.mb, page |-> h.page],
                     !.cur = call.addr, !.prev = call.addr, !.next = call.addr],
             EraseMore(w')
      PROVE  WInv'
  <2>1. /\ w'.erase = call.addr /\ w'.batch = <<call.addr>> /\ w'.erased = 0
        /\ w'.header.mb = h.mb /\ w'.header.page = h.page /\ w'.cur = call.addr
        /\ w'.n = 0 /\ w'.block = None /\ ~w'.loaded
    BY <1>2 DEF NoRewrite
  <2>2. pc = "w_header" /\ mem' = mem /\ call' = call
    BY DEF RewriteHeader, device
  <2>3. /\ ValidCopies(mem, h.mb) # {} /\ h.page.toc = Table(mem, h.mb)
        /\ h.mb = MacroblockIndex(call.addr)
    BY <2>2 DEF WriteStep, HeaderIsTable, At, LoadPoint
  <2>4. /\ \A b \in Searched : ValidCopies(mem, b) # {}
        /\ \A b \in Searched : Unlisted(Table(mem, b), call.key)
    BY <2>2 DEF WriteStep, WInv, HeadersThere, Within, At, RewritePoint
  <2>5. call.addr \in DataAddr
    <3>1. ~IsMacroblockAddress(call.addr)
      BY <2>2 DEF WriteStep, Layout, WriteLayout, Rewriting, Within, At, RewritePoint
    <3> QED
      BY <3>1, WriteTypes DEF DataAddr, Call
  <2>6. PICK p \in [0 .. MaxLen -> DataAddr] : \A j \in 0 .. MaxLen : p[j] = call.addr
    <3>1. [j \in 0 .. MaxLen |-> call.addr] \in [0 .. MaxLen -> DataAddr]
      BY <2>5
    <3> QED
      BY <3>1
  <2>7. BatchPages' = {call.addr}
    <3>1. DOMAIN <<call.addr>> = {1} /\ <<call.addr>>[1] = call.addr
      OBVIOUS
    <3> QED
      BY <2>1, <3>1 DEF BatchPages
  <2>8. PICK k \in Int : k = IF w'.erased < call.len THEN w'.erased ELSE call.len - 1
    BY <2>1, WriteTypes
  <2>9. /\ p[0] = call.addr /\ (0 < call.len => k = 0) /\ (~(0 < call.len) => k = -1)
        /\ \A i, j \in 0 .. k : ~(i < j)
        /\ 0 .. k - 1 = {}
        /\ \A j \in 0 .. k : j = 0
    BY <2>1, <2>6, <2>8, WriteTypes
  <2>10. TablesListOnly(p, 0)'
    BY <2>2, <2>4 DEF TablesListOnly, ListsOnly, Unlisted
  <2>11. /\ \A i, j \in 0 .. k : i < j => p[i] < p[j]
         /\ \A j \in 0 .. k - 1 : NextEmpty(mem', p[j] + 1, p[j + 1])
         /\ \A j \in 0 .. k : mem'[p[j]] = Bad \/ p[j] \in BatchPages'
         /\ w'.erased < call.len => w'.erase = p[k]
    BY <2>1, <2>7, <2>9
  <2>12. Erases(p)'
    BY <2>2, <2>8, <2>9, <2>10, <2>11, ErasesSoFar
  <2>13. /\ \A b \in Searched : ValidCopies(mem', b) # {}
         /\ ValidCopies(mem', MacroblockIndex(call.addr)) # {}
         /\ w'.header.page.toc = Table(mem', w'.header.mb)
         /\ BatchPages' \subseteq DataAddr
    BY <2>1, <2>2, <2>3, <2>4, <2>5, <2>7
  <2>14. EraseMore(w') /\ call.len \in Nat /\ w'.erased \in Nat
    BY <1>2, <2>1, WriteTypes
  <2> QED
    BY <2>1, <2>2, <2>3, <2>12, <2>13, <2>14, ErasesOn
<1> QED
  BY <1>1, <1>2 DEF RewriteHeader

\* The plan of a record, and one with a page more, after all of the others.
Plans == [0 .. MaxLen -> DataAddr]
Ascends(p, k) == \A i, j \in 0 .. k : i < j => p[i] < p[j]
Extends(q, p, k, x) ==
  /\ q[0] = p[0] /\ q[k + 1] = x /\ \A j \in 0 .. k : q[j] = p[j]
  /\ Ascends(q, k + 1)

\* There is one.
LEMMA PlanExtends ==
  ASSUME NEW p \in Plans, NEW k \in Nat, k < MaxLen, Ascends(p, k),
         NEW x \in DataAddr, p[k] < x
  PROVE  \E q \in Plans : Extends(q, p, k, x)
<1> DEFINE q == [p EXCEPT ![k + 1] = x]
<1>1. /\ MaxLen \in Nat /\ k + 1 \in 0 .. MaxLen
      /\ \A a \in DataAddr : a \in Nat
  BY DataAssumption, Geometry DEF DataAddr, Addr
<1>2. /\ q \in Plans /\ q[k + 1] = x
      /\ \A j \in 0 .. k : q[j] = p[j]
  BY <1>1 DEF Plans
<1> HIDE DEF q
<1>3. \A i, j \in 0 .. k + 1 : i < j => q[i] < q[j]
  <2> SUFFICES ASSUME NEW i \in 0 .. k + 1, NEW j \in 0 .. k + 1, i < j
               PROVE  q[i] < q[j]
    OBVIOUS
  <2>1. i \in 0 .. k /\ p[i] \in Nat /\ p[k] \in Nat /\ x \in Nat /\ k \in 0 .. k
    BY <1>1 DEF Plans
  <2>2. CASE j = k + 1
    <3>1. p[i] <= p[k]
      BY <2>1 DEF Ascends
    <3> QED
      BY <1>2, <2>1, <2>2, <3>1
  <2>3. CASE j # k + 1
    BY <1>2, <2>1, <2>3 DEF Ascends
  <2> QED
    BY <2>2, <2>3
<1>4. q[0] = p[0] /\ 0 \in 0 .. k
  BY <1>2
<1> QED
  BY <1>2, <1>3, <1>4 DEF Extends, Ascends

\* The pages of the array, with one more.
LEMMA BatchAppends ==
  ASSUME NEW b \in Seq(Addr), NEW x \in Addr
  PROVE  {Append(b, x)[j] : j \in DOMAIN Append(b, x)} = {b[j] : j \in DOMAIN b} \cup {x}
<1>1. /\ DOMAIN b = 1 .. Len(b) /\ Len(b) \in Nat
      /\ DOMAIN Append(b, x) = 1 .. Len(b) + 1
      /\ Append(b, x)[Len(b) + 1] = x
      /\ \A j \in 1 .. Len(b) : Append(b, x)[j] = b[j]
  OBVIOUS
<1> QED
  BY <1>1

\* The pages that have been found so far, while the loop is in its body.
LEMMA ErasesNow ==
  ASSUME WriteStep, pc \in {"w_target", "w_erase"}
  PROVE  /\ w.erased < call.len
         /\ \A b \in Searched : ValidCopies(mem, b) # {} /\ b \in Macroblock
         /\ ValidCopies(mem, MacroblockIndex(call.addr)) # {}
         /\ BatchPages \subseteq DataAddr
         /\ w.n = 0 /\ w.cur = call.addr /\ w.block = None /\ ~w.loaded
         /\ w.header.mb = MacroblockIndex(call.addr)
         /\ w.header.page.toc = Table(mem, w.header.mb)
         /\ \E p \in [0 .. MaxLen -> DataAddr], k \in Nat :
              /\ k = w.erased /\ p[0] = call.addr /\ w.erase = p[k]
              /\ \A i, j \in 0 .. k : i < j => p[i] < p[j]
              /\ \A j \in 0 .. k - 1 : NextEmpty(mem, p[j] + 1, p[j + 1])
              /\ \A j \in 0 .. k : mem[p[j]] = Bad \/ p[j] \in BatchPages
              /\ TablesListOnly(p, 0)
<1>1. /\ ErasingAt /\ Within({"w_target", "w_erase"})
      /\ Within(RewritePoint \ {"w_start"})
      /\ Within(RewritePoint \ {"w_start", "w_deleted", "w_header"})
  BY DEF ErasingAt, Within, At, RewritePoint
<1>2. w.erased < call.len
  BY <1>1 DEF WriteStep, HealthyStep, IInv, LoopsBounded
<1>3. ErasePlan /\ HeadersThere
  BY DEF WriteStep, WInv
<1>4. PICK p \in [0 .. MaxLen -> DataAddr] : Erases(p)
  BY <1>1, <1>3 DEF ErasePlan
<1>5. PICK k \in Nat : k = w.erased
  BY WriteTypes
<1>6. /\ p[0] = call.addr /\ w.erase = p[k]
      /\ \A i, j \in 0 .. k : i < j => p[i] < p[j]
      /\ \A j \in 0 .. k - 1 : NextEmpty(mem, p[j] + 1, p[j + 1])
      /\ \A j \in 0 .. k : mem[p[j]] = Bad \/ p[j] \in BatchPages
      /\ TablesListOnly(p, 0)
  BY <1>2, <1>4, <1>5 DEF Erases, Rising
<1>7. \E q \in [0 .. MaxLen -> DataAddr], i \in Nat :
        /\ i = w.erased /\ q[0] = call.addr /\ w.erase = q[i]
        /\ \A a, b \in 0 .. i : a < b => q[a] < q[b]
        /\ \A j \in 0 .. i - 1 : NextEmpty(mem, q[j] + 1, q[j + 1])
        /\ \A j \in 0 .. i : mem[q[j]] = Bad \/ q[j] \in BatchPages
        /\ TablesListOnly(q, 0)
  BY <1>5, <1>6
<1> QED
  BY <1>1, <1>2, <1>3, <1>7, SearchedIsMacroblock DEF ErasePlan, HeadersThere

\* A page has been found: it is erased with the others, or with the next ones.
LEMMA RewriteTargetWrite ==
  ASSUME WriteStep, RewriteTarget
  PROVE  WInv'
<1> DEFINE x == IF st = "OK" THEN s.found ELSE 0
           f == [w EXCEPT !.target = x]
<1>1. CASE st # "OK" /\ Return(st, RewriteBack)
  BY <1>1, RewriteFails
<1>2. /\ pc = "w_target" /\ mem' = mem /\ call' = call
      /\ w \in RewriteFrame /\ call.len \in Nat /\ w.erased \in Nat
  BY WriteTypes DEF RewriteTarget, device
\* What the search has found is the next empty page.
<1>3. st = "OK" => NextEmpty(mem, w.erase + 1, s.found) /\ s.found \in DataAddr
  <2>1. s.from = w.erase + 1
    BY <1>2 DEF WriteStep, WInv, ErasePlan, ErasingAt, Within, At
  <2> QED
    BY <1>2, <2>1 DEF WriteStep, EmptySearch, NextEmpty
<1>4. /\ f.erased = w.erased /\ f.batch = w.batch /\ f.erase = w.erase
      /\ f.n = w.n /\ f.cur = w.cur /\ f.block = w.block /\ f.loaded = w.loaded
      /\ f.header = w.header /\ f.target = x
  BY <1>2 DEF RewriteFrame
<1> HIDE DEF f, x
<1>5. CASE /\ st = "OK" \/ w.erased + 1 >= call.len
           /\ w' = f /\ s' = NoSearch /\ Goto("w_erase")
  <2>1. pc' = "w_erase"
    BY <1>5 DEF Goto
  <2>2. /\ ErasingAt' /\ ~WritingAt' /\ ~At({"w_header"})' /\ ~At(DeletePoint)'
        /\ Within(RewritePoint)' /\ ~Within({"w_target"})'
    BY <2>1 DEF ErasingAt, WritingAt, Within, At, RewritePoint, HeaderPoint,
      SearchPoint, DeletePoint
  <2>3. HeadersThere'
    BY <1>2, <2>2, ErasesNow DEF HeadersThere
  <2>4. BatchPages' = BatchPages
    BY <1>4, <1>5 DEF BatchPages
  <2>5. /\ BatchPages' \subseteq DataAddr
        /\ w'.n = 0 /\ w'.cur = call'.addr /\ w'.block = None /\ ~w'.loaded
        /\ w'.header.mb = MacroblockIndex(call'.addr)
        /\ w'.header.page.toc = Table(mem', w'.header.mb)
    BY <1>2, <1>4, <1>5, <2>4, ErasesNow
  <2>6. w'.erased + 1 < call'.len => NextEmpty(mem', w'.erase + 1, w'.target)
    <3>1. ~(w.erased + 1 >= call.len) => x = s.found /\ st = "OK"
      BY <1>5 DEF x
    <3> QED
      BY <1>2, <1>3, <1>4, <1>5, <3>1
  <2>7. \E p \in [0 .. MaxLen -> DataAddr] : Erases(p)'
    <3>1. PICK p \in [0 .. MaxLen -> DataAddr], k \in Nat :
            /\ k = w.erased /\ p[0] = call.addr /\ w.erase = p[k]
            /\ \A i, j \in 0 .. k : i < j => p[i] < p[j]
            /\ \A j \in 0 .. k - 1 : NextEmpty(mem, p[j] + 1, p[j + 1])
            /\ \A j \in 0 .. k : mem[p[j]] = Bad \/ p[j] \in BatchPages
            /\ TablesListOnly(p, 0)
      BY <1>2, ErasesNow
    <3>2. w.erased < call.len /\ k \in Int
      BY <1>2, ErasesNow
    <3>3. TablesListOnly(p, 0)'
      BY <1>2, <3>1 DEF TablesListOnly, ListsOnly
    <3> QED
      BY <1>2, <1>4, <1>5, <2>4, <3>1, <3>2, <3>3, ErasesSoFar
  <2>8. ErasePlan'
    BY <2>1, <2>2, <2>5, <2>6, <2>7 DEF ErasePlan
  <2> QED
    BY <2>1, <2>2, <2>3, <2>8 DEF WInv, WritePlan, RecordWritten, WriteCall, Writing
<1>6. ASSUME st = "OK" \/ w.erased + 1 >= call.len, ~BatchEnds(f),
             w' = Targeted(f), EraseMore(w')
      PROVE  WInv'
  <2>1. w.erased + 1 < call.len /\ st = "OK" /\ x = s.found /\ x \in DataAddr /\ x \in Addr
    <3>1. w.erased + 1 < call.len
      BY <1>2, <1>4, <1>6 DEF BatchEnds
    <3>2. st = "OK"
      BY <1>2, <1>6, <3>1
    <3> QED
      BY <1>3, <3>1, <3>2 DEF x, DataAddr
  <2>2. /\ w'.erase = x /\ w'.erased = w.erased + 1 /\ w'.batch = Append(w.batch, x)
        /\ w'.n = w.n /\ w'.cur = w.cur /\ w'.block = w.block
        /\ w'.loaded = w.loaded /\ w'.header = w.header
    <3>1. Targeted(f) = [f EXCEPT !.erase = x, !.erased = w.erased + 1,
                                  !.batch = Append(w.batch, x)]
      BY <1>4, <2>1 DEF Targeted
    <3>2. \A g : g = f => /\ "erase" \in DOMAIN g /\ "erased" \in DOMAIN g
                          /\ "batch" \in DOMAIN g
      BY <1>2 DEF f, RewriteFrame
    <3> QED
      BY <1>2, <1>4, <1>6, <3>1 DEF f, RewriteFrame
  <2>3. BatchPages' = BatchPages \cup {x}
    <3>1. \A b \in Seq(Addr) : \A y \in Addr :
            {Append(b, y)[j] : j \in DOMAIN Append(b, y)} = {b[j] : j \in DOMAIN b} \cup {y}
      BY BatchAppends
    <3>2. w.batch \in Seq(Addr)
      BY WriteTypes
    <3>3. {Append(w.batch, x)[j] : j \in DOMAIN Append(w.batch, x)}
            = {w.batch[j] : j \in DOMAIN w.batch} \cup {x}
      BY <2>1, <3>1, <3>2
    <3> QED
      BY <2>2, <3>3 DEF BatchPages
  <2>4. PICK p \in [0 .. MaxLen -> DataAddr], k \in Nat :
          /\ k = w.erased /\ p[0] = call.addr /\ w.erase = p[k]
          /\ \A i, j \in 0 .. k : i < j => p[i] < p[j]
          /\ \A j \in 0 .. k - 1 : NextEmpty(mem, p[j] + 1, p[j + 1])
          /\ \A j \in 0 .. k : mem[p[j]] = Bad \/ p[j] \in BatchPages
          /\ TablesListOnly(p, 0)
    BY <1>2, ErasesNow
  <2>5. PICK y \in DataAddr : y = x
    BY <2>1
  <2>6. k < MaxLen /\ NextEmpty(mem, p[k] + 1, y)
    BY <1>2, <1>3, <2>1, <2>4, <2>5, WriteTypes
  <2>7. PICK q \in [0 .. MaxLen -> DataAddr] :
          /\ q[0] = p[0] /\ q[k + 1] = y /\ \A j \in 0 .. k : q[j] = p[j]
          /\ \A i, j \in 0 .. k + 1 : i < j => q[i] < q[j]
    <3>1. Ascends(p, k) /\ p \in Plans
      BY <2>4 DEF Ascends, Plans
    <3>2. p[k] < y
      <4>1. k \in 0 .. MaxLen /\ p[k] \in Nat /\ y \in Nat
        BY <2>6, WriteTypes, Geometry DEF DataAddr, Addr
      <4>2. p[k] + 1 <= y
        BY <2>6, <4>1, NextEmptyForward
      <4> QED
        BY <4>1, <4>2
    <3>3. \E q \in Plans : Extends(q, p, k, y)
      BY <2>6, <3>1, <3>2, PlanExtends
    <3> QED
      BY <3>3 DEF Extends, Ascends, Plans
  <2>8. PICK c \in Int : c = k + 1
    OBVIOUS
  <2>9. \A j \in 0 .. c - 1 : NextEmpty(mem', q[j] + 1, q[j + 1])
    <3> SUFFICES ASSUME NEW j \in 0 .. c - 1 PROVE NextEmpty(mem, q[j] + 1, q[j + 1])
      BY <1>2
    <3>1. j \in 0 .. k /\ q[j] = p[j]
      BY <2>7, <2>8
    <3>2. CASE j = k
      BY <2>6, <2>7, <3>1, <3>2
    <3>3. CASE j # k
      <4>1. j \in 0 .. k - 1 /\ j + 1 \in 0 .. k
        BY <3>1, <3>3
      <4> QED
        BY <2>4, <2>7, <3>1, <4>1
    <3> QED
      BY <3>2, <3>3
  <2>10. \A j \in 0 .. c : mem'[q[j]] = Bad \/ q[j] \in BatchPages'
    <3> SUFFICES ASSUME NEW j \in 0 .. c
                 PROVE  mem'[q[j]] = Bad \/ q[j] \in BatchPages'
      OBVIOUS
    <3>1. j = k + 1 \/ j \in 0 .. k
      BY <2>8
    <3> QED
      BY <1>2, <2>3, <2>4, <2>5, <2>7, <3>1
  <2>11. /\ c = IF w'.erased < call.len THEN w'.erased ELSE call.len - 1
         /\ w'.erase = q[c]
    BY <1>2, <2>1, <2>2, <2>4, <2>5, <2>7, <2>8
  <2>12. TablesListOnly(q, 0)'
    BY <1>2, <2>4 DEF TablesListOnly, ListsOnly
  <2>13. Erases(q)'
    BY <1>2, <2>4, <2>7, <2>8, <2>9, <2>10, <2>11, <2>12, ErasesSoFar
  <2>14. /\ \A b \in Searched : ValidCopies(mem', b) # {}
         /\ ValidCopies(mem', MacroblockIndex(call.addr)) # {}
         /\ BatchPages' \subseteq DataAddr
         /\ w'.n = 0 /\ w'.cur = call.addr /\ w'.block = None /\ ~w'.loaded
         /\ w'.header.mb = MacroblockIndex(call.addr)
         /\ w'.header.page.toc = Table(mem', w'.header.mb)
    BY <1>2, <2>1, <2>2, <2>3, ErasesNow
  <2>15. EraseMore(w') /\ w'.erased \in Nat
    BY <1>2, <1>6, <2>2
  <2> QED
    BY <1>2, <2>13, <2>14, <2>15, ErasesOn
<1> QED
  BY <1>1, <1>5, <1>6 DEF RewriteTarget, f, x

\* Erasing the pages of the array leaves all tables.
LEMMA BatchErased ==
  ASSUME WriteStep, BatchPages \subseteq DataAddr, mem' = Erased(mem, BatchPages)
  PROVE  /\ SameTables(mem, mem')
         /\ \A a \in DataAddr : mem'[a] = IF a \in BatchPages THEN Bad ELSE mem[a]
<1>1. DOMAIN mem = Addr
  BY WriteTypes DEF Image
<1>2. \A a \in Addr : mem'[a] = IF a \in BatchPages THEN Bad ELSE mem[a]
  BY <1>1 DEF Erased
<1>3. \A a \in Addr : a \notin DataAddr => mem'[a] = mem[a]
  BY <1>2
<1> QED
  BY <1>2, <1>3, DataKeepsTables DEF DataAddr

\* The pages of the array are erased, and the page that was found is the next
\* one to go there.
LEMMA RewriteEraseWrite ==
  ASSUME WriteStep, RewriteErase
  PROVE  WInv'
<1>1. /\ pc = "w_erase" /\ call' = call
      /\ w \in RewriteFrame /\ call.len \in Nat /\ w.erased \in Nat
  BY WriteTypes DEF RewriteErase
<1>2. /\ mem' = Erased(mem, BatchPages)
      /\ w' = Targeted([w EXCEPT !.batch = << >>]) /\ EraseMore(w')
  <2>1. PICK status \in {"OK", "BUSY", "ERROR"} :
          /\ ErasePages(BatchPages, status)
          /\ \/ status = "BUSY" \/ status = "ERROR"
             \/ /\ status = "OK"
                /\ w' = Targeted([w EXCEPT !.batch = << >>])
                /\ EraseMore(w')
    BY DEF RewriteErase
  <2>2. status = "OK" /\ mem' = Erased(mem, BatchPages)
    BY <2>1, HealthyErase DEF WriteStep, HealthyStep
  <2> QED
    BY <2>1, <2>2
<1>3. /\ SameTables(mem, mem')
      /\ \A a \in DataAddr : mem'[a] = IF a \in BatchPages THEN Bad ELSE mem[a]
  BY <1>1, <1>2, BatchErased, ErasesNow
<1> DEFINE more == w.erased + 1 < call.len
\* The search for the page was successful, unless none is needed any more.
<1>4. more => NextEmpty(mem, w.erase + 1, w.target)
  BY <1>1 DEF WriteStep, WInv, ErasePlan, ErasingAt, Within, At
<1>5. /\ w'.erase = w.target /\ w'.erased = w.erased + 1
      /\ w'.batch = IF more THEN <<w.target>> ELSE << >>
      /\ w'.n = w.n /\ w'.cur = w.cur /\ w'.block = w.block
      /\ w'.loaded = w.loaded /\ w'.header = w.header
  <2>1. /\ [w EXCEPT !.batch = << >>].target = w.target
        /\ [w EXCEPT !.batch = << >>].erased = w.erased
        /\ [w EXCEPT !.batch = << >>].batch = << >>
    BY <1>1 DEF RewriteFrame
  <2>2. Append(<< >>, w.target) = <<w.target>>
    OBVIOUS
  <2>3. w' = [[w EXCEPT !.batch = << >>] EXCEPT !.erase = w.target,
                !.erased = w.erased + 1,
                !.batch = IF more THEN <<w.target>> ELSE << >>]
    BY <1>2, <2>1, <2>2 DEF Targeted
  <2> QED
    BY <1>1, <2>3 DEF RewriteFrame
<1>6. /\ \A b \in Searched : ValidCopies(mem', b) # {} /\ Table(mem', b) = Table(mem, b)
      /\ ValidCopies(mem', MacroblockIndex(call.addr)) # {}
      /\ w'.n = 0 /\ w'.cur = call.addr /\ w'.block = None /\ ~w'.loaded
      /\ w'.header.mb = MacroblockIndex(call.addr)
      /\ w'.header.page.toc = Table(mem', w'.header.mb)
  <2>1. MacroblockIndex(call.addr) \in Macroblock
    BY WriteTypes, MacroblockInRange DEF Call
  <2> QED
    BY <1>1, <1>3, <1>5, <2>1, ErasesNow DEF SameTables
<1>7. BatchPages' = IF more THEN {w.target} ELSE {}
  <2>1. DOMAIN <<w.target>> = {1} /\ <<w.target>>[1] = w.target /\ DOMAIN << >> = {}
    OBVIOUS
  <2> QED
    BY <1>5, <2>1 DEF BatchPages
<1>8. BatchPages' \subseteq DataAddr
  BY <1>4, <1>7 DEF NextEmpty
<1>9. PICK p \in [0 .. MaxLen -> DataAddr], k \in Nat :
        /\ k = w.erased /\ p[0] = call.addr /\ w.erase = p[k]
        /\ \A i, j \in 0 .. k : i < j => p[i] < p[j]
        /\ \A j \in 0 .. k - 1 : NextEmpty(mem, p[j] + 1, p[j + 1])
        /\ \A j \in 0 .. k : mem[p[j]] = Bad \/ p[j] \in BatchPages
        /\ TablesListOnly(p, 0)
  BY <1>1, ErasesNow
<1>10. k < MaxLen /\ k < call.len /\ \A j \in 0 .. k : j \in 0 .. MaxLen
  BY <1>1, <1>9, ErasesNow, WriteTypes
<1>11. /\ \A j \in 0 .. k : mem'[p[j]] = Bad
       /\ \A j \in 0 .. k - 1 : NextEmpty(mem', p[j] + 1, p[j + 1])
  BY <1>3, <1>9, <1>10, NextEmptySame
<1>12. \E q \in [0 .. MaxLen -> DataAddr] : Erases(q)'
  <2>1. CASE more
    <3>1. PICK y \in DataAddr : y = w.target
      BY <1>4, <2>1 DEF NextEmpty
    <3>2. Ascends(p, k) /\ p \in Plans
      BY <1>9 DEF Ascends, Plans
    <3>3. NextEmpty(mem, p[k] + 1, y)
      BY <1>4, <1>9, <2>1, <3>1
    <3>4. p[k] < y
      <4>1. k \in 0 .. MaxLen /\ p[k] \in Nat /\ y \in Nat
        BY <1>10, Geometry DEF DataAddr, Addr
      <4>2. p[k] + 1 <= y
        BY <3>3, <4>1, NextEmptyForward
      <4> QED
        BY <4>1, <4>2
    <3>5. PICK q \in Plans : Extends(q, p, k, y)
      BY <1>10, <3>2, <3>4, PlanExtends
    <3>6. PICK c \in Int : c = k + 1
      OBVIOUS
    <3>7. /\ q \in [0 .. MaxLen -> DataAddr] /\ q[0] = call.addr /\ q[c] = y
          /\ \A j \in 0 .. k : q[j] = p[j]
          /\ \A i, j \in 0 .. c : i < j => q[i] < q[j]
      BY <1>9, <3>5, <3>6 DEF Extends, Ascends, Plans
    <3>8. NextEmpty(mem', p[k] + 1, y)
      BY <1>3, <3>3, NextEmptySame
    <3>9. \A j \in 0 .. c - 1 : NextEmpty(mem', q[j] + 1, q[j + 1])
      <4> SUFFICES ASSUME NEW j \in 0 .. c - 1
                   PROVE  NextEmpty(mem', q[j] + 1, q[j + 1])
        OBVIOUS
      <4>1. j \in 0 .. k /\ q[j] = p[j]
        BY <3>6, <3>7
      <4>2. CASE j = k
        BY <3>6, <3>7, <3>8, <4>1, <4>2
      <4>3. CASE j # k
        <5>1. j \in 0 .. k - 1 /\ j + 1 \in 0 .. k
          BY <4>1, <4>3
        <5> QED
          BY <1>11, <3>7, <4>1, <5>1
      <4> QED
        BY <4>2, <4>3
    <3>10. \A j \in 0 .. c : mem'[q[j]] = Bad \/ q[j] \in BatchPages'
      <4> SUFFICES ASSUME NEW j \in 0 .. c
                   PROVE  mem'[q[j]] = Bad \/ q[j] \in BatchPages'
        OBVIOUS
      <4>1. j = c \/ j \in 0 .. k
        BY <3>6
      <4> QED
        BY <1>7, <1>11, <2>1, <3>1, <3>7, <4>1
    <3>11. /\ c = IF w'.erased < call.len THEN w'.erased ELSE call.len - 1
           /\ w'.erase = q[c]
      BY <1>1, <1>5, <1>9, <2>1, <3>1, <3>6, <3>7
    <3>12. TablesListOnly(q, 0)'
      BY <1>1, <1>6, <1>9 DEF TablesListOnly, ListsOnly
    <3> QED
      BY <1>1, <3>7, <3>9, <3>10, <3>11, <3>12, ErasesSoFar
  <2>2. CASE ~more
    <3>1. /\ k \in Int /\ ~(w'.erased < call.len)
          /\ k = IF w'.erased < call.len THEN w'.erased ELSE call.len - 1
      BY <1>1, <1>5, <1>9, <1>10, <2>2
    <3>2. TablesListOnly(p, 0)'
      BY <1>1, <1>6, <1>9 DEF TablesListOnly, ListsOnly
    <3> QED
      BY <1>1, <1>9, <1>11, <3>1, <3>2, ErasesSoFar
  <2> QED
    BY <2>1, <2>2
<1>13. PICK q \in [0 .. MaxLen -> DataAddr] : Erases(q)'
  BY <1>12
<1>14. EraseMore(w') /\ w'.erased \in Nat
  BY <1>1, <1>2, <1>5
<1> QED
  BY <1>1, <1>6, <1>8, <1>13, <1>14, ErasesOn

\* What is left in the array is erased, and all pages are.
LEMMA RewriteRestWrite ==
  ASSUME WriteStep, RewriteRest
  PROVE  WInv'
<1>1. /\ pc = "w_rest" /\ call' = call /\ w' = w /\ pc' = "w_next"
      /\ \/ w.batch = << >> /\ mem' = mem
         \/ mem' = Erased(mem, BatchPages)
  <2>1. pc = "w_rest" /\ call' = call /\ w' = w
    BY DEF RewriteRest
  <2>2. CASE w.batch = << >> /\ Goto("w_next") /\ UNCHANGED device
    BY <2>1, <2>2 DEF Goto, device
  <2>3. CASE \E status \in {"OK", "BUSY", "ERROR"} :
               /\ ErasePages(BatchPages, status)
               /\ IF status = "OK" THEN Return(status, "w_next")
                                   ELSE Return(status, RewriteBack)
    BY <2>1, <2>3, HealthyErase DEF Return, WriteStep, HealthyStep
  <2> QED
    BY <2>2, <2>3 DEF RewriteRest
<1>2. /\ ErasingAt /\ ErasePlan /\ HeadersThere
      /\ Within(RewritePoint \ {"w_start"})
      /\ Within(RewritePoint \ {"w_start", "w_deleted", "w_header"})
  BY <1>1 DEF ErasingAt, Within, At, RewritePoint, WriteStep, WInv
<1>3. /\ BatchPages \subseteq DataAddr /\ w.erased >= call.len
      /\ w.n = 0 /\ w.cur = call.addr /\ w.block = None /\ ~w.loaded
      /\ w.header.mb = MacroblockIndex(call.addr)
      /\ w.header.page.toc = Table(mem, w.header.mb)
  BY <1>1, <1>2 DEF ErasePlan
<1>4. /\ SameTables(mem, mem')
      /\ \A a \in DataAddr : mem'[a] = IF a \in BatchPages THEN Bad ELSE mem[a]
  <2>1. CASE w.batch = << >> /\ mem' = mem
    <3>1. BatchPages = {}
      BY <2>1 DEF BatchPages
    <3> QED
      BY <2>1, <3>1 DEF SameTables
  <2> QED
    BY <1>1, <1>3, <2>1, BatchErased
<1>5. /\ \A b \in Searched : ValidCopies(mem', b) # {} /\ Table(mem', b) = Table(mem, b)
      /\ ValidCopies(mem', w.header.mb) # {}
      /\ w.header.page.toc = Table(mem', w.header.mb)
  <2>1. MacroblockIndex(call.addr) \in Macroblock
    BY WriteTypes, MacroblockInRange DEF Call
  <2> QED
    BY <1>2, <1>3, <1>4, <2>1, SearchedIsMacroblock DEF SameTables, HeadersThere
<1>6. PICK p \in [0 .. MaxLen -> DataAddr] : Erases(p)
  BY <1>2 DEF ErasePlan
<1>7. PICK c \in Int : c = call.len - 1
  BY WriteTypes
<1>8. /\ p[0] = call.addr
      /\ \A i, j \in 0 .. c : i < j => p[i] < p[j]
      /\ \A j \in 0 .. c - 1 : NextEmpty(mem, p[j] + 1, p[j + 1])
      /\ \A j \in 0 .. c : mem[p[j]] = Bad \/ p[j] \in BatchPages
      /\ TablesListOnly(p, 0)
  BY <1>3, <1>6, <1>7, WriteTypes DEF Erases, Rising
<1>9. Writes(p)'
  <2>1. Rising(p, call.len - 1)'
    BY <1>1, <1>7, <1>8 DEF Rising
  <2>2. \A j \in w'.n .. call'.len - 2 : NextEmpty(mem', p[j] + 1, p[j + 1])
    <3>1. \A j \in w'.n .. call'.len - 2 : j \in 0 .. c - 1
      BY <1>1, <1>3, <1>7, WriteTypes
    <3> QED
      BY <1>4, <1>8, <3>1, NextEmptySame
  <2>3. \A j \in w'.n .. call'.len - 1 : mem'[p[j]] = Bad
    <3>1. \A j \in w'.n .. call'.len - 1 : j \in 0 .. c /\ j \in 0 .. MaxLen
      BY <1>1, <1>3, <1>7, WriteTypes
    <3> QED
      BY <1>4, <1>8, <3>1
  <2>4. \A j \in 0 .. call'.len - 1 : ValidCopies(mem', MacroblockIndex(p[j])) # {}
    <3> SUFFICES ASSUME NEW j \in 0 .. c
                 PROVE  ValidCopies(mem', MacroblockIndex(p[j])) # {}
      BY <1>1, <1>7
    <3>1. CASE j = 0
      BY <1>3, <1>5, <1>8, <3>1
    <3>2. CASE j # 0
      <4>1. j - 1 \in 0 .. c - 1 /\ (j - 1) + 1 = j
        BY <3>2
      <4>2. NextEmpty(mem, p[j - 1] + 1, p[j])
        BY <1>8, <4>1
      <4> QED
        BY <1>5, <4>2 DEF NextEmpty
    <3> QED
      BY <3>1, <3>2
  <2>5. /\ w'.n < call'.len => w'.cur = p[w'.n]
        /\ ~(w'.n > 0) /\ ~At({"w_switch", "w_reload", "w_page"})'
    BY <1>1, <1>3, <1>8 DEF At, HeaderPoint
  <2>6. 0 .. w'.n - 1 = {}
    BY <1>1, <1>3
  <2>7. Parts(p, w.n)' /\ ListsAll(p, w.n)'
    BY <2>6 DEF Parts, ListsAll
  <2>8. TablesListOnly(p, w.n)'
    BY <1>1, <1>3, <1>5, <1>8 DEF TablesListOnly, ListsOnly
  <2>9. \A i \in Index : w'.header.page.toc[i] = Table(mem', w'.header.mb)[i]
    BY <1>1, <1>5
  <2> QED
    BY <2>1, <2>2, <2>3, <2>4, <2>5, <2>7, <2>8, <2>9 DEF Writes
<1>10. /\ ~ErasingAt' /\ ~At({"w_header"})' /\ ~At({"w_end"})' /\ ~At({"w_reload"})'
       /\ Within(RewritePoint)' /\ ~At(DeletePoint)'
  BY <1>1 DEF ErasingAt, At, Within, HeaderPoint, SearchPoint, RewritePoint,
    DeletePoint
<1>11. WritePlan'
  BY <1>1, <1>3, <1>5, <1>9, <1>10, WriteTypes DEF WritePlan
<1>12. HeadersThere'
  BY <1>1, <1>3, <1>5, <1>10 DEF HeadersThere
<1> QED
  BY <1>1, <1>10, <1>11, <1>12 DEF WInv, ErasePlan, RecordWritten, WriteCall, Writing

-----------------------------------------------------------------------------
(* The pages to write.                                                     *)

\* What holds while the pages are written.
LEMMA WritesNow ==
  ASSUME WriteStep,
         pc \in {"w_next", "w_found", "w_switch", "w_reload", "w_page", "w_end"}
  PROVE  /\ IF w.loaded THEN w.header.mb = w.block ELSE w.block = None
         /\ w.n <= call.len /\ (w.n > 0 => w.loaded)
         /\ ValidCopies(mem, w.header.mb) # {}
         /\ pc \in {"w_end", "w_reload"} \/ (pc = "w_switch" /\ HeaderIsOfOther) =>
              w.header.page.toc = Table(mem, w.header.mb)
         /\ \E p \in [0 .. MaxLen -> DataAddr] : Writes(p)
         /\ \A b \in Searched : ValidCopies(mem, b) # {}
         /\ ValidCopies(mem, MacroblockIndex(call.addr)) # {}
         /\ pc \in {"w_found", "w_switch", "w_reload", "w_page"} =>
              w.cur < PagesCount /\ w.n < call.len
<1>1. WritePlan /\ HeadersThere /\ LoopsBounded
  BY DEF WriteStep, WInv, HealthyStep, IInv
<1>2. WritingAt
  BY DEF WritingAt, Within, At
<1>3. /\ Within(RewritePoint \ {"w_start"})
      /\ Within(RewritePoint \ {"w_start", "w_deleted", "w_header"})
  BY DEF Within, At, RewritePoint
<1>4. /\ pc = "w_reload" => At({"w_reload"})
      /\ pc \in {"w_found", "w_switch", "w_reload", "w_page"} =>
           Within({"w_found", "w_switch", "w_reload", "w_page"})
  BY DEF Within, At
<1>5. /\ \A b \in Searched : ValidCopies(mem, b) # {}
      /\ ValidCopies(mem, MacroblockIndex(call.addr)) # {}
  BY <1>1, <1>3 DEF HeadersThere
<1>6. /\ IF w.loaded THEN w.header.mb = w.block ELSE w.block = None
      /\ w.n <= call.len /\ (w.n > 0 => w.loaded)
      /\ ValidCopies(mem, w.header.mb) # {}
      /\ pc \in {"w_end", "w_reload"} \/ (pc = "w_switch" /\ HeaderIsOfOther) =>
           w.header.page.toc = Table(mem, w.header.mb)
      /\ \E p \in [0 .. MaxLen -> DataAddr] : Writes(p)
  BY <1>1, <1>2, <1>4 DEF WritePlan
<1>7. pc \in {"w_found", "w_switch", "w_reload", "w_page"} =>
        w.cur < PagesCount /\ w.n < call.len
  BY <1>1, <1>4 DEF LoopsBounded
<1> QED
  BY <1>5, <1>6, <1>7

\* A step to another point of the loop keeps all of that as soon as it keeps
\* the plan.
LEMMA WritesOn ==
  ASSUME WriteStep, call' = call,
         pc \in {"w_next", "w_found", "w_switch", "w_reload", "w_page", "w_end"},
         SameTables(mem, mem'),
         \/ pc' \in {"w_next", "w_switch", "w_page"}
         \/ pc' = "s_block" /\ s'.back = "w_found"
         \/ pc' \in HeaderPoint /\ h'.back \in {"w_switch", "w_reload", "w_end"},
         WritePlan'
  PROVE  WInv'
<1>1. /\ ~ErasingAt' /\ ~At({"w_header"})' /\ ~At(DeletePoint)' /\ Within(RewritePoint)'
      /\ pc' \notin {"v_undone", "v_saved", "done"}
  BY DEF ErasingAt, At, Within, HeaderPoint, SearchPoint, DeletePoint, RewritePoint
<1>2. MacroblockIndex(call.addr) \in Macroblock
  BY WriteTypes, MacroblockInRange DEF Call
<1>3. HeadersThere'
  BY <1>1, <1>2, WritesNow, SearchedIsMacroblock DEF SameTables, HeadersThere
<1> QED
  BY <1>1, <1>3 DEF WInv, ErasePlan, RecordWritten, WriteCall, Writing

\* The plan of the pages stays where nothing is written.
LEMMA WritesKept ==
  ASSUME NEW p, Writes(p), UNCHANGED <<mem, call>>,
         w'.n = w.n, w'.cur = w.cur, w'.prev = w.prev, w'.loaded = w.loaded,
         w'.header = w.header,
         At({"w_switch", "w_reload", "w_page"})' /\ ~IsLastPage => w'.next = p[w.n + 1]
  PROVE  Writes(p)'
<1>1. IsLastPage' <=> IsLastPage
  BY DEF IsLastPage
<1>2. Rising(p, call.len - 1)'
  BY DEF Writes, Rising
<1>3. /\ \A j \in w'.n .. call'.len - 2 : NextEmpty(mem', p[j] + 1, p[j + 1])
      /\ \A j \in w'.n .. call'.len - 1 : mem'[p[j]] = Bad
      /\ \A j \in 0 .. call'.len - 1 : ValidCopies(mem', MacroblockIndex(p[j])) # {}
  BY DEF Writes
<1>4. /\ w'.n < call'.len => w'.cur = p[w'.n]
      /\ w'.n > 0 => w'.prev = p[w'.n - 1]
      /\ At({"w_switch", "w_reload", "w_page"})' /\ ~IsLastPage' => w'.next = p[w'.n + 1]
  BY <1>1 DEF Writes
<1>5. Parts(p, w.n)'
  BY DEF Writes, Parts
<1>6. TablesListOnly(p, w.n)'
  BY DEF Writes, TablesListOnly, ListsOnly
<1>7. ListsAll(p, w.n)'
  BY DEF Writes, ListsAll, TableInUse
<1>8. \A i \in Index : w'.header.page.toc[i] = Table(mem', w'.header.mb)[i]
        \/ \E j \in 0 .. w'.n - 1 : p[j] = PageAddress(w'.header.mb, i)
  BY DEF Writes
<1> QED
  BY <1>2, <1>3, <1>4, <1>5, <1>6, <1>7, <1>8 DEF Writes

\* The loop goes on to the next page, or to the end.
LEMMA RewriteNextWrite ==
  ASSUME WriteStep, RewriteNext
  PROVE  WInv'
<1>1. CASE Return("OOM", RewriteBack)
  BY <1>1, RewriteFails
<1>2. pc = "w_next" /\ mem' = mem /\ call' = call /\ w' = w
  BY DEF RewriteNext, device
<1>3. CASE Search("EMPTY", call.key, w.cur + 1, "w_found")
  <2>1. pc' = "s_block" /\ s'.back = "w_found"
    BY <1>3 DEF Search, NoSearch
  <2>2. /\ ~At({"w_switch", "w_reload", "w_page"})' /\ ~At({"w_end"})' /\ ~At({"w_reload"})'
    BY <2>1 DEF At, HeaderPoint
  <2>3. \E p \in [0 .. MaxLen -> DataAddr] : Writes(p)'
    BY <1>2, <2>2, WritesNow, WritesKept
  <2>4. WritePlan'
    BY <1>2, <2>1, <2>2, <2>3, WritesNow DEF WritePlan
  <2> QED
    BY <1>2, <2>1, <2>4, ReadStays, WritesOn DEF Stays
<1>4. CASE w.n >= call.len /\ SaveHeader(w.header.mb, w.header.page, "w_end")
  <2>1. pc' = "h_save" /\ h'.back = "w_end"
    BY <1>4 DEF SaveHeader, NoHeader
  <2>2. ~At({"w_switch", "w_reload", "w_page"})' /\ ~At({"w_reload"})'
    BY <2>1 DEF At, HeaderPoint
  <2>3. \E p \in [0 .. MaxLen -> DataAddr] : Writes(p)'
    BY <1>2, <2>2, WritesNow, WritesKept
  <2>4. w.n = call.len
    BY <1>2, <1>4, WritesNow, WriteTypes
  <2>5. WritePlan'
    BY <1>2, <2>1, <2>2, <2>3, <2>4, WritesNow DEF WritePlan
  <2>6. pc' \in HeaderPoint
    BY <2>1 DEF HeaderPoint
  <2> QED
    BY <1>2, <2>1, <2>5, <2>6, ReadStays, WritesOn DEF Stays
<1> QED
  BY <1>1, <1>3, <1>4 DEF RewriteNext

\* The page that was found is the next one that was erased.
LEMMA RewriteFoundWrite ==
  ASSUME WriteStep, RewriteFound
  PROVE  WInv'
<1>1. CASE st # "OK" /\ Return(st, RewriteBack)
  BY <1>1, RewriteFails
<1>2. ASSUME st = "OK" \/ IsLastPage,
             w' = [w EXCEPT !.next = IF st = "OK" THEN s.found ELSE w.cur + 1],
             IF w.loaded /\ HeaderIsOfOther
               THEN SaveHeader(w.header.mb, w.header.page, "w_switch")
               ELSE Return("OK", "w_switch") /\ UNCHANGED h
      PROVE  WInv'
  <2>1. pc = "w_found" /\ mem' = mem /\ call' = call /\ w \in RewriteFrame
    BY WriteTypes DEF RewriteFound, device
  <2>2. /\ w'.n = w.n /\ w'.cur = w.cur /\ w'.prev = w.prev /\ w'.loaded = w.loaded
        /\ w'.header = w.header /\ w'.block = w.block
        /\ w'.next = IF st = "OK" THEN s.found ELSE w.cur + 1
    BY <1>2, <2>1 DEF RewriteFrame
  <2>3. PICK p \in [0 .. MaxLen -> DataAddr] : Writes(p)
    BY <2>1, WritesNow
  <2>4. ~IsLastPage => w'.next = p[w.n + 1]
    <3> SUFFICES ASSUME ~IsLastPage PROVE w'.next = p[w.n + 1]
      OBVIOUS
    <3>1. st = "OK" /\ w'.next = s.found /\ s.from = w.cur + 1
      BY <1>2, <2>1, <2>2 DEF WriteStep, HealthyStep, IInv, SearchForward, Within, At
    <3>2. NextEmpty(mem, s.from, s.found)
      BY <2>1, <3>1 DEF WriteStep, EmptySearch
    <3>3. w.cur = p[w.n] /\ w.n \in w.n .. call.len - 2
      BY <2>1, <2>3, WritesNow, WriteTypes DEF Writes, IsLastPage
    <3>4. NextEmpty(mem, p[w.n] + 1, p[w.n + 1])
      BY <2>3, <3>3 DEF Writes
    <3> QED
      BY <3>1, <3>2, <3>3, <3>4, NextEmptyUnique
  <2>5. Writes(p)'
    BY <2>1, <2>2, <2>3, <2>4, WritesKept
  <2>6. \/ pc' = "w_switch" /\ ~(w.loaded /\ HeaderIsOfOther)
        \/ pc' = "h_save" /\ h'.back = "w_switch"
    BY <1>2 DEF SaveHeader, NoHeader, Return
  <2>7. HeaderIsOfOther' <=> HeaderIsOfOther
    BY <2>2 DEF HeaderIsOfOther
\* Nothing has been registered in the first header yet.
  <2>8. ~w.loaded => w.header.page.toc = Table(mem, w.header.mb)
    <3> SUFFICES ASSUME ~w.loaded PROVE w.header.page.toc = Table(mem, w.header.mb)
      OBVIOUS
    <3>1. w.n = 0
      BY <2>1, WritesNow, WriteTypes
    <3>2. \A i \in Index : w.header.page.toc[i] = Table(mem, w.header.mb)[i]
      BY <2>3, <3>1 DEF Writes
    <3>3. w.header.page.toc \in Toc
      BY WriteTypes DEF Page
    <3>4. Table(mem, w.header.mb) \in Toc
      BY WriteTypes, SearchedIsMacroblock, TableType
    <3> QED
      BY <3>2, <3>3, <3>4 DEF Toc
  <2>9. /\ ~At({"w_end"})' /\ ~At({"w_reload"})' /\ pc' # "w_page" /\ pc' # "w_end"
        /\ pc' = "w_switch" \/ (pc' \in HeaderPoint /\ h'.back = "w_switch")
    BY <2>6 DEF At, HeaderPoint
  <2>10. pc' = "w_switch" /\ HeaderIsOfOther' =>
           w'.header.page.toc = Table(mem', w'.header.mb)
    BY <2>1, <2>2, <2>6, <2>7, <2>8
  <2>11. WritePlan'
    BY <2>1, <2>2, <2>5, <2>9, <2>10, WritesNow DEF WritePlan
  <2> QED
    BY <2>1, <2>9, <2>11, ReadStays, WritesOn DEF Stays
<1> QED
  BY <1>1, <1>2 DEF RewriteFound

\* The header of the page is loaded, unless it is the one in use.
LEMMA RewriteSwitchWrite ==
  ASSUME WriteStep, RewriteSwitch
  PROVE  WInv'
<1>1. CASE st = "BUSY" /\ Return(st, RewriteBack)
  BY <1>1, RewriteFails
<1>2. pc = "w_switch" /\ mem' = mem /\ call' = call /\ w' = w
  BY DEF RewriteSwitch, device
<1>3. PICK p \in [0 .. MaxLen -> DataAddr] : Writes(p)
  BY <1>2, WritesNow
<1>4. ~IsLastPage => w.next = p[w.n + 1]
  BY <1>2, <1>3 DEF Writes, At
<1>5. Writes(p)'
  BY <1>2, <1>3, <1>4, WritesKept
<1>6. CASE HeaderIsOfOther /\ LoadHeader(MacroblockIndex(w.cur), "w_reload")
  <2>1. pc' = "h_load" /\ h'.back = "w_reload"
    BY <1>6 DEF LoadHeader, NoHeader
  <2>2. ~At({"w_end"})' /\ pc' \in HeaderPoint
    BY <2>1 DEF At, HeaderPoint
  <2>3. WritePlan'
    BY <1>2, <1>5, <1>6, <2>1, <2>2, WritesNow DEF WritePlan
  <2> QED
    BY <1>2, <2>1, <2>2, <2>3, ReadStays, WritesOn DEF Stays
<1>7. CASE ~HeaderIsOfOther /\ Goto("w_page")
  <2>1. pc' = "w_page"
    BY <1>7 DEF Goto
  <2>2. ~At({"w_end"})' /\ ~At({"w_reload"})'
    BY <2>1 DEF At, HeaderPoint
  <2>3. w.loaded
    <3>1. w.cur \in Nat
      BY WriteTypes DEF RewriteFrame
    <3>2. MacroblockIndex(w.cur) \in Nat
      BY <3>1, Geometry, DivMod DEF MacroblockIndex
    <3>3. w.block # None
      BY <1>7, <3>2, NoneAssumption DEF HeaderIsOfOther
    <3> QED
      BY <1>2, <3>3, WritesNow
  <2>4. HeaderIsOfOther' <=> HeaderIsOfOther
    BY <1>2 DEF HeaderIsOfOther
  <2>5. WritePlan'
    BY <1>2, <1>5, <1>7, <2>1, <2>2, <2>3, <2>4, WritesNow DEF WritePlan
  <2> QED
    BY <1>2, <2>1, <2>5, ReadStays, WritesOn DEF Stays
<1> QED
  BY <1>1, <1>6, <1>7 DEF RewriteSwitch

\* The header that was loaded takes the place of one that has been saved.
LEMMA RewriteReloadWrite ==
  ASSUME WriteStep, RewriteReload
  PROVE  WInv'
<1>1. CASE st # "OK" /\ Return(st, RewriteBack)
  BY <1>1, RewriteFails
<1>2. ASSUME w' = [w EXCEPT !.header = [mb |-> h.mb, page |-> h.page],
                            !.block = MacroblockIndex(w.cur), !.loaded = TRUE],
             Goto("w_page")
      PROVE  WInv'
  <2>1. /\ pc = "w_reload" /\ mem' = mem /\ call' = call /\ w \in RewriteFrame
        /\ pc' = "w_page"
    BY <1>2, WriteTypes DEF RewriteReload, device, Goto
  <2>2. /\ w'.n = w.n /\ w'.cur = w.cur /\ w'.prev = w.prev /\ w'.next = w.next
        /\ w'.loaded = TRUE /\ w'.block = MacroblockIndex(w.cur)
        /\ w'.header.mb = h.mb /\ w'.header.page = h.page
    BY <1>2, <2>1 DEF RewriteFrame
  <2>3. /\ ValidCopies(mem, h.mb) # {} /\ h.page.toc = Table(mem, h.mb)
        /\ h.mb = MacroblockIndex(w.cur)
    BY <2>1 DEF WriteStep, HeaderIsTable, LoadPoint, At
  <2>4. w.header.page.toc = Table(mem, w.header.mb)
    BY <2>1, WritesNow
  <2>5. PICK p \in [0 .. MaxLen -> DataAddr] : Writes(p)
    BY <2>1, WritesNow
  <2>6. /\ \A b : TableInUse(b) = Table(mem, b)
        /\ \A b : TableInUse(b)' = Table(mem, b)
    BY <2>1, <2>2, <2>3, <2>4 DEF TableInUse
  <2>7. Writes(p)'
    <3>1. Rising(p, call.len - 1)'
      BY <2>1, <2>5 DEF Writes, Rising
    <3>2. /\ \A j \in w'.n .. call'.len - 2 : NextEmpty(mem', p[j] + 1, p[j + 1])
          /\ \A j \in w'.n .. call'.len - 1 : mem'[p[j]] = Bad
          /\ \A j \in 0 .. call'.len - 1 : ValidCopies(mem', MacroblockIndex(p[j])) # {}
      BY <2>1, <2>2, <2>5 DEF Writes
    <3>3. /\ w'.n < call'.len => w'.cur = p[w'.n]
          /\ w'.n > 0 => w'.prev = p[w'.n - 1]
      BY <2>1, <2>2, <2>5 DEF Writes
    <3>4. ~IsLastPage' => w'.next = p[w'.n + 1]
      BY <2>1, <2>2, <2>5 DEF Writes, IsLastPage, At
    <3>5. Parts(p, w.n)'
      BY <2>1, <2>2, <2>5 DEF Writes, Parts
    <3>6. TablesListOnly(p, w.n)'
      BY <2>1, <2>2, <2>5 DEF Writes, TablesListOnly, ListsOnly
    <3>7. ListsAll(p, w.n)'
      <4>1. ListsAll(p, w.n)
        BY <2>5 DEF Writes
      <4> QED
        BY <2>1, <2>2, <2>6, <4>1 DEF ListsAll
    <3>8. \A i \in Index : w'.header.page.toc[i] = Table(mem', w'.header.mb)[i]
      BY <2>1, <2>2, <2>3
    <3> QED
      BY <3>1, <3>2, <3>3, <3>4, <3>5, <3>6, <3>7, <3>8 DEF Writes
  <2>8. ~At({"w_end"})' /\ ~At({"w_reload"})'
    BY <2>1 DEF At, HeaderPoint
  <2>9. ~HeaderIsOfOther'
    BY <2>2 DEF HeaderIsOfOther
  <2>10. WritePlan'
    BY <2>1, <2>2, <2>3, <2>7, <2>8, <2>9, WritesNow DEF WritePlan
  <2> QED
    BY <2>1, <2>10, ReadStays, WritesOn DEF Stays
<1> QED
  BY <1>1, <1>2 DEF RewriteReload

\* The page is written and registered in the header in use.
LEMMA RewritePageWrite ==
  ASSUME WriteStep, RewritePage
  PROVE  WInv'
<1>1. /\ pc = "w_page" /\ call' = call /\ w \in RewriteFrame /\ mem \in Image
      /\ pc' = "w_next" /\ w' = PageWritten
      /\ mem' = [mem EXCEPT ![w.cur] = CurrentPage]
  <2>1. PICK status \in {"OK", "BUSY", "ERROR"} :
          /\ SavePage(w.cur, CurrentPage, status)
          /\ status = "OK" => pc' = "w_next" /\ w' = PageWritten
    BY DEF RewritePage, Return
  <2>2. status = "OK" /\ mem' = [mem EXCEPT ![w.cur] = CurrentPage]
    BY <2>1, HealthySave DEF WriteStep, HealthyStep, IInv, TypeOK
  <2> QED
    BY <2>1, <2>2, WriteTypes DEF RewritePage
<1>2. /\ w'.n = w.n + 1 /\ w'.cur = w.next /\ w'.prev = w.cur
      /\ w'.loaded = w.loaded /\ w'.block = w.block /\ w'.header.mb = w.header.mb
      /\ w'.header.page.toc = Registered(w.header.page.toc, CurrentIndex, call.key)
  <2>1. w.header \in [mb : Macroblock, page : Page]
    BY <1>1 DEF RewriteFrame
  <2> QED
    BY <1>1, <2>1 DEF PageWritten, RewriteFrame, Page
<1>3. PICK p \in [0 .. MaxLen -> DataAddr] : Writes(p)
  BY <1>1, WritesNow
<1>4. PICK n \in Nat : n = w.n
  BY WriteTypes
<1>5. PICK len \in Nat : len = call.len
  BY WriteTypes
<1>6. /\ n < len /\ len <= MaxLen /\ MaxLen \in Nat /\ w.cur = p[n]
      /\ n \in 0 .. len - 1
      /\ \A j \in 0 .. len - 1 : p[j] \in DataAddr /\ p[j] \in Nat
  <2>1. w.n < call.len /\ call.len <= MaxLen /\ MaxLen \in Nat
    BY <1>1, WritesNow, WriteTypes
  <2>2. n < len /\ len <= MaxLen /\ n \in 0 .. len - 1
    BY <1>4, <1>5, <2>1
  <2>3. w.cur = p[n]
    BY <1>3, <1>4, <2>1 DEF Writes
  <2>4. \A j \in 0 .. len - 1 : p[j] \in DataAddr
    BY <2>1, <2>2
  <2>5. \A a \in DataAddr : a \in Nat
    BY Geometry DEF DataAddr, Addr
  <2> QED
    BY <2>1, <2>2, <2>3, <2>4, <2>5
<1>7. /\ w.loaded /\ ~HeaderIsOfOther /\ w.header.mb = MacroblockIndex(w.cur)
      /\ w.header.mb \in Nat
  <2>1. w.loaded /\ ~HeaderIsOfOther
    BY <1>1 DEF WriteStep, WInv, WritePlan, WritingAt, Within, At
  <2> QED
    BY <1>1, <2>1, WritesNow, WriteTypes, SearchedIsMacroblock DEF HeaderIsOfOther
<1>8. \A a \in Addr : a # w.cur => mem'[a] = mem[a]
  BY <1>1 DEF Image
<1>9. mem'[w.cur] = CurrentPage
  BY <1>1, <1>6 DEF Image, DataAddr
<1>10. SameTables(mem, mem')
  BY <1>6, <1>8, DataKeepsTables
\* The pages of the record are all different.
<1>11. \A j \in 0 .. len - 1 : j # n => p[j] # w.cur
  <2>1. \A i, j \in 0 .. len - 1 : i < j => p[i] < p[j]
    BY <1>3, <1>5 DEF Writes, Rising
  <2>2. \A j \in 0 .. len - 1 : j # n => p[j] # p[n]
    BY <1>6, <2>1
  <2> QED
    BY <1>6, <2>2
<1>12. \A j \in 0 .. len - 1 : j # n => mem'[p[j]] = mem[p[j]]
  BY <1>6, <1>8, <1>11 DEF DataAddr
<1>13. \A b \in Macroblock : ValidCopies(mem, b) # {} =>
         ValidCopies(mem', b) # {} /\ Table(mem', b) = Table(mem, b)
  BY <1>10 DEF SameTables
<1>14. \A j \in 0 .. len - 1 :
         /\ MacroblockIndex(p[j]) \in Macroblock
         /\ ValidCopies(mem, MacroblockIndex(p[j])) # {}
         /\ ValidCopies(mem', MacroblockIndex(p[j])) # {}
         /\ Table(mem', MacroblockIndex(p[j])) = Table(mem, MacroblockIndex(p[j]))
  <2> SUFFICES ASSUME NEW j \in 0 .. len - 1
               PROVE  /\ MacroblockIndex(p[j]) \in Macroblock
                      /\ ValidCopies(mem, MacroblockIndex(p[j])) # {}
    BY <1>13
  <2> QED
    BY <1>3, <1>5, <1>6, MacroblockInRange DEF Writes, DataAddr
<1>15. CurrentIndex \in Index /\ w.header.page.toc \in Toc
  BY <1>6, PageIndexInRange, WriteTypes DEF CurrentIndex, Page
<1>16. /\ w'.header.page.toc[CurrentIndex] = [key |-> call.key, st |-> "OK"]
       /\ \A i \in Index : i # CurrentIndex =>
            w'.header.page.toc[i] = w.header.page.toc[i]
  BY <1>2, <1>15 DEF Registered, Toc
<1>17. Writes(p)'
  <2>1. Rising(p, call.len - 1)'
    BY <1>1, <1>3 DEF Writes, Rising
  <2>2. \A j \in w'.n .. call'.len - 2 : NextEmpty(mem', p[j] + 1, p[j + 1])
    <3>1. \A j \in w'.n .. call'.len - 2 : j \in w.n .. call.len - 2
      BY <1>1, <1>2, <1>4, <1>5
    <3> QED
      BY <1>3, <1>10, <3>1, NextEmptySame DEF Writes
  <2>3. \A j \in w'.n .. call'.len - 1 : mem'[p[j]] = Bad
    <3>1. \A j \in w'.n .. call'.len - 1 : j \in w.n .. call.len - 1 /\ j # n
                                            /\ j \in 0 .. len - 1
      BY <1>1, <1>2, <1>4, <1>5
    <3> QED
      BY <1>3, <1>12, <3>1 DEF Writes
  <2>4. \A j \in 0 .. call'.len - 1 : ValidCopies(mem', MacroblockIndex(p[j])) # {}
    BY <1>1, <1>5, <1>14
  <2>5. w'.n < call'.len => w'.cur = p[w'.n]
    BY <1>1, <1>2, <1>3, <1>4, <1>5 DEF Writes, IsLastPage, At
  <2>6. w'.n > 0 => w'.prev = p[w'.n - 1]
    BY <1>2, <1>4, <1>6
  <2>7. ~At({"w_switch", "w_reload", "w_page"})'
    BY <1>1 DEF At, HeaderPoint
  <2>8. \A j \in 0 .. n :
          mem'[p[j]] = DataPage(call.key,
                                IF j = 0 THEN p[0] ELSE p[j - 1],
                                IF j + 1 >= call.len THEN p[j] ELSE p[j + 1],
                                call.val, j + 1)
    <3> SUFFICES ASSUME NEW j \in 0 .. n
                 PROVE  mem'[p[j]] = DataPage(call.key,
                                IF j = 0 THEN p[0] ELSE p[j - 1],
                                IF j + 1 >= call.len THEN p[j] ELSE p[j + 1],
                                call.val, j + 1)
      OBVIOUS
    <3>1. CASE j = n
      <4>1. mem'[p[j]] = CurrentPage
        BY <1>6, <1>9, <3>1
      <4>2. (IF w.n = 0 THEN w.cur ELSE w.prev) = (IF j = 0 THEN p[0] ELSE p[j - 1])
        BY <1>3, <1>4, <1>6, <3>1 DEF Writes
      <4>3. (IF IsLastPage THEN w.cur ELSE w.next)
              = (IF j + 1 >= call.len THEN p[j] ELSE p[j + 1])
        BY <1>1, <1>3, <1>4, <1>6, <3>1 DEF Writes, IsLastPage, At
      <4> QED
        BY <1>4, <3>1, <4>1, <4>2, <4>3 DEF CurrentPage
    <3>2. CASE j # n
      <4>1. j \in 0 .. w.n - 1 /\ j \in 0 .. len - 1
        BY <1>4, <1>6, <3>2
      <4> QED
        BY <1>3, <1>12, <3>2, <4>1 DEF Writes, Parts
    <3> QED
      BY <3>1, <3>2
  <2>9. Parts(p, w.n)'
    <3>1. \A j \in 0 .. w'.n - 1 : j \in 0 .. n
      BY <1>2, <1>4
    <3> QED
      BY <1>1, <2>8, <3>1 DEF Parts
  <2>10. TablesListOnly(p, w.n)'
    <3>1. \A b \in Searched : Table(mem', b) = Table(mem, b)
      BY <1>1, <1>13, WritesNow, SearchedIsMacroblock
    <3>2. \A j \in 0 .. w.n - 1 : j \in 0 .. w'.n - 1
      BY <1>2, <1>4
    <3> QED
      BY <1>1, <1>3, <3>1, <3>2 DEF Writes, TablesListOnly, ListsOnly
  <2>11. ListsAll(p, w.n)'
    <3> DEFINE ok == [key |-> call.key, st |-> "OK"]
    <3> SUFFICES ASSUME NEW j \in 0 .. n
                 PROVE  (TableInUse(MacroblockIndex(p[j]))')[PageIndex(p[j])] = ok
      BY <1>1, <1>2, <1>4 DEF ListsAll
    <3>1. j \in 0 .. len - 1
      BY <1>6
    <3>2. CASE j = n
      <4>1. MacroblockIndex(p[j]) = w'.header.mb /\ PageIndex(p[j]) = CurrentIndex
        BY <1>2, <1>6, <1>7, <3>2 DEF CurrentIndex
      <4> QED
        BY <1>2, <1>7, <1>16, <4>1 DEF TableInUse
    <3>3. CASE j # n
      <4>1. TableInUse(MacroblockIndex(p[j]))[PageIndex(p[j])] = ok
        <5>1. j \in 0 .. w.n - 1
          BY <1>4, <3>3
        <5> QED
          BY <1>3, <5>1 DEF Writes, ListsAll
      <4>2. CASE MacroblockIndex(p[j]) = w.header.mb
        <5>1. PageIndex(p[j]) # CurrentIndex
          <6>1. p[j] # w.cur /\ p[j] \in DataAddr /\ w.cur \in DataAddr
            BY <1>6, <1>11, <3>1, <3>3
          <6>2. /\ p[j] = PageAddress(MacroblockIndex(p[j]), PageIndex(p[j]))
                /\ w.cur = PageAddress(MacroblockIndex(w.cur), CurrentIndex)
            BY <6>1, AddressOfPlace DEF CurrentIndex
          <6> QED
            BY <1>7, <4>2, <6>1, <6>2
        <5>2. PageIndex(p[j]) \in Index
          BY <1>6, <3>1, PageIndexInRange
        <5>3. w'.header.page.toc[PageIndex(p[j])] = w.header.page.toc[PageIndex(p[j])]
          BY <1>16, <5>1, <5>2
        <5> QED
          BY <1>2, <1>7, <4>1, <4>2, <5>3 DEF TableInUse
      <4>3. CASE MacroblockIndex(p[j]) # w.header.mb
        BY <1>2, <1>14, <3>1, <4>1, <4>3 DEF TableInUse
      <4> QED
        BY <4>2, <4>3
    <3> QED
      BY <3>2, <3>3
  <2>12. \A i \in Index : w'.header.page.toc[i] = Table(mem', w'.header.mb)[i]
           \/ \E j \in 0 .. w'.n - 1 : p[j] = PageAddress(w'.header.mb, i)
    <3> SUFFICES ASSUME NEW i \in Index
                 PROVE  \/ w'.header.page.toc[i] = Table(mem', w'.header.mb)[i]
                        \/ \E j \in 0 .. n : p[j] = PageAddress(w'.header.mb, i)
      BY <1>2, <1>4
    <3>1. CASE i = CurrentIndex
      <4>1. p[n] = PageAddress(w'.header.mb, i)
        BY <1>2, <1>6, <1>7, <3>1, AddressOfPlace DEF CurrentIndex
      <4> QED
        BY <4>1
    <3>2. CASE i # CurrentIndex
      <4>1. Table(mem', w'.header.mb) = Table(mem, w.header.mb)
        BY <1>2, <1>6, <1>7, <1>14
      <4>2. \/ w.header.page.toc[i] = Table(mem, w.header.mb)[i]
            \/ \E j \in 0 .. w.n - 1 : p[j] = PageAddress(w.header.mb, i)
        BY <1>3 DEF Writes
      <4> QED
        BY <1>2, <1>4, <1>16, <3>2, <4>1, <4>2
    <3> QED
      BY <3>1, <3>2
  <2> QED
    BY <2>1, <2>2, <2>3, <2>4, <2>5, <2>6, <2>7, <2>9, <2>10, <2>11, <2>12 DEF Writes
<1>18. /\ w'.n <= call'.len /\ ValidCopies(mem', w'.header.mb) # {}
       /\ ~At({"w_end"})' /\ ~At({"w_reload"})'
  <2>1. ValidCopies(mem', MacroblockIndex(p[n])) # {}
    BY <1>6, <1>14
  <2>2. w'.header.mb = MacroblockIndex(p[n])
    BY <1>2, <1>6, <1>7
  <2>3. w'.n <= call'.len
    BY <1>1, <1>2, <1>4, <1>5, <1>6
  <2> QED
    BY <1>1, <2>1, <2>2, <2>3 DEF At, HeaderPoint
<1>19. WritePlan'
  BY <1>1, <1>2, <1>7, <1>17, <1>18, WritesNow DEF WritePlan
<1> QED
  BY <1>1, <1>10, <1>19, WritesOn

\* When the last header has been saved the record is there.
LEMMA RewriteEndWrite ==
  ASSUME WriteStep, RewriteEnd
  PROVE  WInv'
<1>1. /\ pc = "w_end" /\ mem' = mem /\ call' = call /\ w' = w
      /\ pc' \in {"v_saved", "done"}
  BY DEF RewriteEnd, device, Return, RewriteBack
<1>2. w.n = call.len /\ w.header.page.toc = Table(mem, w.header.mb)
  <2>1. w.n = call.len
    BY <1>1 DEF WriteStep, WInv, WritePlan, WritingAt, At
  <2> QED
    BY <1>1, <2>1, WritesNow
<1>3. PICK p \in [0 .. MaxLen -> DataAddr] : Writes(p)
  BY <1>1, WritesNow
<1>4. \A b : TableInUse(b) = Table(mem, b)
  BY <1>2 DEF TableInUse
<1>5. Written(p)'
  <2>1. Rising(p, call.len - 1)' /\ Parts(p, call.len)'
    BY <1>1, <1>2, <1>3 DEF Writes, Rising, Parts
  <2>2. TablesListOnly(p, call.len)'
    BY <1>1, <1>2, <1>3 DEF Writes, TablesListOnly, ListsOnly
  <2>3. \A j \in 0 .. call'.len - 1 :
          Table(mem', MacroblockIndex(p[j]))[PageIndex(p[j])]
            = [key |-> call'.key, st |-> "OK"]
    BY <1>1, <1>2, <1>3, <1>4 DEF Writes, ListsAll
  <2> QED
    BY <2>1, <2>2, <2>3 DEF Written
<1>6. /\ ~Within(RewritePoint \ {"w_start"})' /\ ~At({"w_header"})' /\ ~At(DeletePoint)'
      /\ ~Within(RewritePoint \ {"w_start", "w_deleted", "w_header"})'
      /\ ~ErasingAt' /\ ~WritingAt'
  BY <1>1 DEF Within, At, RewritePoint, HeaderPoint, SearchPoint, DeletePoint,
    ErasingAt, WritingAt
<1>7. RecordWritten'
  BY <1>1, <1>5, <1>6 DEF RecordWritten
<1>8. WriteCall'
  BY <1>1 DEF WriteCall, Writing, At
<1> QED
  BY <1>6, <1>7, <1>8 DEF WInv, HeadersThere, ErasePlan, WritePlan

-----------------------------------------------------------------------------
(* All steps.                                                              *)

\* save: a rewrite that failed is undone, and its status is the answer.
LEMMA SaveWrite ==
  ASSUME WriteStep, SaveNext
  PROVE  WInv'
<1>1. mem' = mem /\ call' = call
  BY DEF SaveNext, SaveStart, SaveCheck, SaveRewritten, SaveUndone, device
<1>2. ASSUME pc' = "done", st' # "OK"
      PROVE  WInv'
  <2>1. ~Within(RewritePoint \ {"w_start"})' /\ ~At(DeletePoint)'
    BY <1>2 DEF Within, At, RewritePoint, SearchPoint, HeaderPoint, DeletePoint
  <2>2. WriteCall'
    BY <1>2 DEF WriteCall
  <2> QED
    BY <1>2, <2>1, <2>2, NotRewriting
<1>3. CASE SaveStart
  <2>1. CASE LoadHeader(MacroblockIndex(call.addr), "v_check")
    <3>1. pc' = "h_load" /\ h'.back = "v_check"
      BY <2>1 DEF LoadHeader, NoHeader
    <3>2. /\ ~Within(RewritePoint \ {"w_start"})' /\ ~At(DeletePoint)'
          /\ At({"v_start", "v_check", "v_saved"})'
      BY <3>1 DEF Within, At, RewritePoint, SearchPoint, HeaderPoint, DeletePoint
    <3>3. WriteCall'
      BY <3>2 DEF WriteCall, Writing
    <3> QED
      BY <3>1, <3>2, <3>3, NotRewriting
  <2> QED
    BY <1>2, <1>3, <2>1 DEF SaveStart, Return
<1>4. CASE SaveCheck
  <2>1. CASE Goto("w_start")
    <3>1. pc' = "w_start"
      BY <2>1 DEF Goto
    <3>2. /\ ~Within(RewritePoint \ {"w_start"})' /\ ~At(DeletePoint)'
          /\ Within(RewritePoint)'
      BY <3>1 DEF Within, At, RewritePoint, SearchPoint, HeaderPoint, DeletePoint
    <3>3. WriteCall'
      BY <3>2 DEF WriteCall, Writing
    <3> QED
      BY <3>1, <3>2, <3>3, NotRewriting
  <2> QED
    BY <1>2, <1>4, <2>1 DEF SaveCheck, Return
<1>5. CASE SaveRewritten
  <2>1. CASE st = "OK" /\ Goto("done")
    <3>1. pc = "v_saved" /\ pc' = "done" /\ st = "OK"
      BY <1>5, <2>1 DEF SaveRewritten, Goto
    <3>2. call.op \in {"save", "rewrite"} =>
            \E p \in [0 .. MaxLen -> DataAddr] : Written(p)
      BY <3>1 DEF WriteStep, WInv, RecordWritten
    <3>3. /\ ~Within(RewritePoint \ {"w_start"})' /\ ~At(DeletePoint)' /\ ~At({"w_header"})'
          /\ ~Within(RewritePoint \ {"w_start", "w_deleted", "w_header"})'
          /\ ~ErasingAt' /\ ~WritingAt'
      BY <3>1 DEF Within, At, RewritePoint, SearchPoint, HeaderPoint, DeletePoint,
        ErasingAt, WritingAt
    <3>4. \A p : Written(p) => Written(p)'
      BY <1>1 DEF Written, Rising, Parts, TablesListOnly, ListsOnly
    <3>5. RecordWritten'
      BY <1>1, <3>1, <3>2, <3>3, <3>4 DEF RecordWritten
    <3>6. WriteCall'
      BY <3>1 DEF WriteCall
    <3> QED
      BY <3>3, <3>5, <3>6 DEF WInv, HeadersThere, ErasePlan, WritePlan
  <2>2. CASE st # "OK" /\ w' = [w EXCEPT !.res = st] /\ Delete(call.key, "v_undone")
    <3>1. pc' = "d_block" /\ d'.back = "v_undone" /\ w'.res # "OK"
      BY <2>2, WriteTypes DEF Delete, NoDelete, RewriteFrame
    <3>2. ~Within(RewritePoint \ {"w_start"})' /\ At(DeletePoint)'
      BY <3>1 DEF Within, At, RewritePoint, SearchPoint, HeaderPoint, DeletePoint
    <3>3. WriteCall'
      BY <3>1, <3>2 DEF WriteCall
    <3> QED
      BY <3>1, <3>2, <3>3, NotRewriting
  <2> QED
    BY <1>5, <2>1, <2>2 DEF SaveRewritten
<1>6. CASE SaveUndone
  <2>1. w.res # "OK" /\ pc' = "done" /\ st' = w.res
    BY <1>6 DEF SaveUndone, Return, WriteStep, WInv, RecordWritten
  <2> QED
    BY <1>2, <2>1
<1> QED
  BY <1>3, <1>4, <1>5, <1>6 DEF SaveNext

\* The other calls do not write a record.
LEMMA OtherWrite ==
  ASSUME WriteStep, LoadNext \/ ClearNext \/ FormatNext
  PROVE  WInv'
<1>1. pc \in {"l_start", "l_copy", "l_deleted", "c_start", "c_load"} \cup FormatPoint
  BY DEF LoadNext, LoadStart, LoadCopy, LoadDeleted, ClearNext, ClearStart,
    ClearLoad, FormatNext, FormatBlock, FormatHeader, FormatSaved, FormatErase,
    FormatPoint
<1>2. /\ ~Writing /\ ~At(DeletePoint) /\ pc \notin {"v_undone", "done"}
  BY <1>1 DEF Writing, Within, At, RewritePoint, SearchPoint, HeaderPoint,
    DeletePoint, FormatPoint
<1>3. call.op \notin {"save", "rewrite"}
  BY <1>2 DEF WriteStep, WInv, WriteCall
<1>4. call' = call
  BY DEF LoadNext, LoadStart, LoadCopy, LoadDeleted, ClearNext, ClearStart,
    ClearLoad, FormatNext, FormatBlock, FormatHeader, FormatSaved, FormatErase
<1>5. \/ pc' \in {"done", "l_copy", "c_load", "m_block", "m_erase"}
      \/ pc' = "d_block" /\ d'.back \in {"l_deleted", "done"}
      \/ pc' \in HeaderPoint /\ h'.back \in {"m_header", "m_saved"}
  BY <1>1 DEF LoadNext, LoadStart, LoadCopy, LoadDeleted, ClearNext, ClearStart,
    ClearLoad, FormatNext, FormatBlock, FormatHeader, FormatSaved, FormatErase,
    Return, Goto, Delete, NoDelete, LoadHeader, SaveHeader, NoHeader, control,
    HeaderPoint
<1>6. /\ ~Within(RewritePoint \ {"w_start"})' /\ pc' # "v_undone"
      /\ ~(At(DeletePoint)' /\ d'.back = "v_undone")
  BY <1>5 DEF Within, At, RewritePoint, SearchPoint, HeaderPoint, DeletePoint
<1>7. WriteCall'
  BY <1>3, <1>4 DEF WriteCall
<1> QED
  BY <1>3, <1>4, <1>6, <1>7, NotRewriting

\* A call that enters the library has written nothing yet.
LEMMA RequestWrite ==
  ASSUME Request
  PROVE  WInv'
<1>1. ASSUME pc' \in {"s_block", "d_block", "l_start", "c_start", "m_block",
                      "v_start", "w_start", "done"},
             pc' = "s_block" => s'.back = "done",
             pc' = "d_block" => d'.back = "done",
             call'.op \in {"save", "rewrite"} => pc' \in {"v_start", "w_start", "done"},
             pc' = "done" => st' # "OK"
      PROVE  WInv'
  <2>1. /\ ~Within(RewritePoint \ {"w_start"})' /\ pc' \notin {"v_undone", "v_saved"}
        /\ ~(At(DeletePoint)' /\ d'.back = "v_undone")
    BY <1>1 DEF Within, At, RewritePoint, SearchPoint, HeaderPoint, DeletePoint
  <2>2. WriteCall'
    BY <1>1 DEF WriteCall, Writing, Within, At, RewritePoint
  <2> QED
    BY <1>1, <2>1, <2>2, NotRewriting
<1>2. ASSUME NEW mode, NEW key, Find(mode, key)
      PROVE  WInv'
  <2>1. pc' = "s_block" /\ s'.back = "done" /\ call'.op = "find"
    BY <1>2 DEF Find, Search, NoSearch, NoCall
  <2> QED
    BY <1>1, <2>1
<1>3. ASSUME NEW key, DeleteData(key)
      PROVE  WInv'
  <2>1. pc' = "d_block" /\ d'.back = "done" /\ call'.op = "delete"
    BY <1>3 DEF DeleteData, Delete, NoDelete, NoCall
  <2> QED
    BY <1>1, <2>1
<1>4. \A addr, len : Load(addr, len) => WInv'
  BY <1>1 DEF Load, Enter, Refuse, Return, NoCall
<1>5. \A addr : ClearAddress(addr) => WInv'
  BY <1>1 DEF ClearAddress, Enter, NoCall
<1>6. Format => WInv'
  BY <1>1 DEF Format, Enter, NoCall
<1>7. \A addr, key, val, len :
        Save(addr, key, val, len) \/ Rewrite(addr, key, val, len) => WInv'
  <2> SUFFICES ASSUME NEW addr, NEW key, NEW val, NEW len,
                      Save(addr, key, val, len) \/ Rewrite(addr, key, val, len)
               PROVE  WInv'
    OBVIOUS
  <2>1. \/ pc' = "done" /\ st' = "OOM"
        \/ pc' \in {"v_start", "w_start"}
    BY DEF Save, Rewrite, Write, Enter, Refuse, Return
  <2> QED
    BY <1>1, <2>1
<1> QED
  BY <1>2, <1>4, <1>5, <1>6, <1>7, <1>3 DEF Request

\* Nor does anything remain of a call that has ended.
LEMMA ForgetWrite ==
  ASSUME Forget
  PROVE  WInv'
<1>1. pc' = "idle" /\ call'.op \notin {"save", "rewrite"}
  BY DEF Forget, NoCall
<1>2. /\ ~Within(RewritePoint \ {"w_start"})' /\ ~At(DeletePoint)'
  BY <1>1 DEF Within, At, RewritePoint, SearchPoint, HeaderPoint, DeletePoint
<1>3. WriteCall'
  BY <1>1 DEF WriteCall
<1> QED
  BY <1>1, <1>2, <1>3, NotRewriting

\* Every step of a healthy drive keeps what is true of a record.
LEMMA NextWInv ==
  ASSUME WriteStep, [Next]_vars
  PROVE  WInv'
<1>1. CASE Request
  BY <1>1, RequestWrite
<1>2. CASE DataNext
  <2>1. CASE RewriteEraseNext
    BY <2>1, RewriteStartWrite, RewriteDeletedWrite, RewriteHeaderWrite,
      RewriteTargetWrite, RewriteEraseWrite, RewriteRestWrite DEF RewriteEraseNext
  <2>2. CASE RewriteWriteNext
    BY <2>2, RewriteNextWrite, RewriteFoundWrite, RewriteSwitchWrite,
      RewriteReloadWrite, RewritePageWrite, RewriteEndWrite DEF RewriteWriteNext
  <2> QED
    BY <1>2, <2>1, <2>2, HeaderWrite, SearchWrite, DeleteWrite, SaveWrite, OtherWrite
      DEF DataNext
<1>3. CASE FormatNext
  BY <1>3, OtherWrite
<1>4. CASE Answer \/ Crash
  BY <1>4, ForgetWrite DEF Answer, Crash
<1>5. CASE Drive
  BY <1>5, HealthyDrive DEF Drive, WriteStep, HealthyStep, IInv, TypeOK
<1>6. CASE UNCHANGED vars
  <2>1. /\ mem' = mem /\ pc' = pc /\ st' = st /\ h' = h /\ s' = s /\ call' = call
        /\ d' = d /\ w' = w
    BY <1>6 DEF vars, device, control, frames
  <2>2. HeadersThere'
    BY <2>1 DEF WriteStep, WInv, HeadersThere, Within, At
  <2>3. \A p : Erases(p) => Erases(p)'
    BY <2>1 DEF Erases, Rising, TablesListOnly, ListsOnly, BatchPages
  <2>4. ErasePlan'
    BY <2>1, <2>3 DEF WriteStep, WInv, ErasePlan, Within, At, ErasingAt, BatchPages
  <2>5. \A p : Writes(p) => Writes(p)'
    BY <2>1 DEF Writes, Rising, TablesListOnly, ListsOnly, ListsAll, TableInUse,
      Parts, IsLastPage, At
  <2>6. WritePlan'
    BY <2>1, <2>5 DEF WriteStep, WInv, WritePlan, Within, At, WritingAt,
      HeaderIsOfOther
  <2>7. RecordWritten' /\ WriteCall'
    BY <2>1 DEF WriteStep, WInv, RecordWritten, WriteCall, Writing, Within, At,
      Written, Rising, Parts, TablesListOnly, ListsOnly
  <2> QED
    BY <2>2, <2>7, <2>4, <2>6 DEF WInv
<1> QED
  BY <1>1, <1>2, <1>3, <1>4, <1>5, <1>6 DEF Next, Library

-----------------------------------------------------------------------------
(* What is true in every behaviour.                                        *)

\* The invariant of a healthy drive, with that of a record that is written.
VInv == HInv /\ (Healthy => HeaderIsTable /\ EmptySearch /\ WInv)

\* A library on a drive that is all erased satisfies it,
LEMMA InitVInv == Init => VInv
<1> SUFFICES ASSUME Init PROVE VInv
  OBVIOUS
<1>1. pc = "idle" /\ call.op \notin {"save", "rewrite"}
  BY DEF Init, HeaderInit, NoCall
<1>2. /\ \A P : P \subseteq Point \ {"idle", "done"} => ~At(P) /\ ~Within(P)
      /\ ~At(SearchPoint) /\ ~At(DeletePoint)
  BY <1>1 DEF Within, At, SearchPoint, HeaderPoint, DeletePoint, Point
<1>3. HeaderIsTable /\ EmptySearch
  BY <1>1 DEF HeaderIsTable, EmptySearch, At, LoadPoint, HeaderPoint, SearchPoint
<1>4. ErasePlan /\ WritePlan /\ HeadersThere
  BY <1>1 DEF ErasePlan, WritePlan, HeadersThere, ErasingAt, WritingAt, Within, At,
    RewritePoint, HeaderPoint, SearchPoint
<1>5. RecordWritten /\ WriteCall
  BY <1>1, <1>2 DEF RecordWritten, WriteCall
<1> QED
  BY <1>3, <1>4, <1>5, InitHInv DEF VInv, WInv

\* and every step preserves it.
LEMMA NextVInv == VInv /\ [Next]_vars => VInv'
<1> SUFFICES ASSUME VInv, [Next]_vars PROVE VInv'
  OBVIOUS
<1>1. HInv' /\ (Healthy' => Healthy)
  BY NextHInv, HealthyBefore DEF VInv, HInv, IInv, TypeOK
<1>2. ASSUME Healthy' PROVE HeaderIsTable' /\ EmptySearch' /\ WInv'
  <2>1. /\ HealthyStep /\ IInv' /\ DeleteClears /\ DeleteClears' /\ Layout /\ Layout'
        /\ HeaderIsTable /\ EmptySearch /\ WInv
    BY <1>1, <1>2 DEF VInv, HInv, HealthyStep
  <2>2. HeaderIsTable' /\ EmptySearch'
    BY <2>1, NextHeaderIsTable, NextEmptySearch
  <2> QED
    BY <2>1, <2>2, NextWInv DEF WriteStep
<1> QED
  BY <1>1, <1>2 DEF VInv

\* So it holds in every behaviour.
LEMMA WriteInductive == Spec => []VInv
BY InitVInv, NextVInv, PTL DEF Spec

\* rewrite writes a page only after it has erased it (StorageData.cpp rewrite):
\* the loop over the pages to write looks again for each page, in tables it has
\* changed and saved meanwhile, and finds the page that the loop over the pages
\* to erase has found there.
THEOREM WrittenPagesAreErased == Spec => [](Healthy => WritesErased)
<1>1. VInv => (Healthy => WritesErased)
  <2> SUFFICES ASSUME VInv, Healthy, pc = "w_page" PROVE mem[w.cur] = Bad
    BY DEF WritesErased
  <2>1. PICK p \in [0 .. MaxLen -> DataAddr] : Writes(p)
    BY DEF VInv, WInv, WritePlan, WritingAt, Within, At
  <2>2. w.n < call.len
    BY DEF VInv, HInv, IInv, LoopsBounded, Within, At
  <2>3. w.n \in w.n .. call.len - 1
    <3>1. w \in RewriteFrame /\ call \in Call
      BY DEF VInv, HInv, IInv, TypeOK, DataType
    <3>2. w.n \in 0 .. MaxLen /\ call.len \in 0 .. MaxLen
      BY <3>1 DEF RewriteFrame, Call
    <3> QED
      BY <2>2, <3>2, DataAssumption
  <2> QED
    BY <2>1, <2>2, <2>3 DEF Writes
<1> QED
  BY <1>1, WriteInductive, PTL
=============================================================================
