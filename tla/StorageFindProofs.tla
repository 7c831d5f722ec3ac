-------------------------- MODULE StorageFindProofs --------------------------
(***************************************************************************)
(* What find answers on a drive that has had no fault but losses of power: *)
(* the key that its mode asks for, among those of all macroblocks, and     *)
(* STORAGE_NOT_FOUND when there is none or it has the id that the search   *)
(* starts with.                                                            *)
(***************************************************************************)
EXTENDS StorageHealthyProofs

-----------------------------------------------------------------------------
(* What holds while a client searches for a key.                           *)

\* The pages a search with a prefix may find.
Hits(m, prefix) ==
  {a \in Listed(m, "OK") :
     /\ LoadsAsStart(m, a)
     /\ prefix = Blank \/ ListedKey(m, a).prefix = prefix}

\* The search has got past a page.
Passed(a) ==
  \/ MacroblockIndex(a) < s.mb
  \/ pc = "s_unit" /\ MacroblockIndex(a) = s.mb /\ PageIndex(a) < s.i

\* None of the pages of a set would be preferred to the last result.
NoneBetter(S) ==
  \A a \in S : ~IsIdFound(s.mode, ListedKey(mem, a).id, s.prevId, s.key.id)

\* The last result of a search is a page it may find, better than none.
ResultIsHit ==
  /\ s.found \in Hits(mem, s.key.prefix)
  /\ ListedKey(mem, s.found).id = s.prevId
  /\ IsIdFound(s.mode, s.prevId, StartCmpId(s.mode), s.key.id)
  /\ \/ MacroblockIndex(s.found) < s.mb
     \/ pc \in {"s_unit", "done"} /\ MacroblockIndex(s.found) = s.mb

\* A search of a client that is not one for an empty page.
Finding == call.op = "find" /\ call.mode # "EMPTY"

\* It is the search that was asked for, at a point of its own.
FindFrame ==
  /\ s.mode = call.mode /\ s.key = call.key /\ s.from = 0 /\ s.back = "done"
  /\ pc \in SearchPoint \cup {"done"} \/ (pc \in HeaderPoint /\ h.back = "s_header")
  /\ At({"s_header", "s_unit"}) => h.mb = s.mb
  /\ pc = "s_header" => st = "OK"

\* The table it scans is that of the drive, and those it has scanned are saved.
FindTables ==
  /\ pc \in {"s_header", "s_unit"} =>
       ValidCopies(mem, s.mb) # {} /\ h.page.toc = Table(mem, s.mb)
  /\ \A b \in Searched : b < s.mb => ValidCopies(mem, b) # {}

\* Its result is the best of the pages it has got past, in the end of all.
FindResult ==
  /\ s.found = None => s.prevId = StartCmpId(s.mode)
  /\ s.found # None => ResultIsHit /\ (s.mode = "EQUAL" => pc = "done")
  /\ pc # "done" => NoneBetter({a \in Hits(mem, s.key.prefix) : Passed(a)})
  /\ pc = "done" =>
       /\ st = IF s.found = None THEN "NOT_FOUND" ELSE "OK"
       /\ ~(s.mode = "EQUAL" /\ s.found # None) => NoneBetter(Hits(mem, s.key.prefix))

\* find goes through the tables of all macroblocks, each as it is on the
\* drive, and keeps the best of the pages it has got past.
FindPasses == Finding => FindFrame /\ FindTables /\ FindResult

-----------------------------------------------------------------------------
(* The comparison of ids.                                                  *)

\* What is better than a better id is better.
LEMMA IdFoundTransitive ==
  ASSUME NEW mode \in SearchMode, NEW x \in Nat, NEW y \in Nat, NEW z \in Nat,
         NEW target \in Nat,
         IsIdFound(mode, x, y, target), IsIdFound(mode, y, z, target)
  PROVE  IsIdFound(mode, x, z, target)
BY DEF IsIdFound

\* No id is better than itself, but that FIND_MODE_EQUAL takes any.
LEMMA IdFoundIrreflexive ==
  ASSUME NEW mode \in SearchMode, NEW x \in Nat, NEW target \in Nat,
         mode # "EQUAL"
  PROVE  ~IsIdFound(mode, x, x, target)
BY DEF IsIdFound

-----------------------------------------------------------------------------
(* The pages a search may find.                                            *)

\* A page of data is that of its macroblock and index.
LEMMA AddressOfPlace ==
  ASSUME NEW a \in DataAddr
  PROVE  a = PageAddress(MacroblockIndex(a), PageIndex(a))
<1>1. a \in Nat /\ ~IsMacroblockAddress(a)
  BY Geometry DEF DataAddr, Addr
<1>2. /\ a = PerBlock * (a \div PerBlock) + (a % PerBlock)
      /\ a \div PerBlock \in Nat /\ a % PerBlock \in Nat
  BY <1>1, Geometry, DivMod
<1> QED
  BY <1>1, <1>2, Geometry DEF PageAddress, MacroblockAddress, MacroblockIndex,
    PageIndex

\* A page of a table is where the table says it is.
LEMMA HitOfTable ==
  ASSUME NEW m, NEW b \in Searched, NEW i \in Index, NEW prefix,
         Table(m, b)[i].st = "OK", LoadsAsStart(m, PageAddress(b, i)),
         prefix = Blank \/ Table(m, b)[i].key.prefix = prefix
  PROVE  /\ PageAddress(b, i) \in Hits(m, prefix)
         /\ ListedKey(m, PageAddress(b, i)) = Table(m, b)[i].key
         /\ MacroblockIndex(PageAddress(b, i)) = b
<1>1. b \in Nat /\ b < MacroblocksCount
  BY MacroblockInRange DEF Searched
<1>2. /\ PageAddress(b, i) \in DataAddr
      /\ MacroblockIndex(PageAddress(b, i)) = b
      /\ PageIndex(PageAddress(b, i)) = i
  BY <1>1, AddressRoundTrip
<1> QED
  BY <1>2 DEF Hits, Listed, ListedKey

\* What is known of a page that a search may find.
LEMMA HitFacts ==
  ASSUME NEW m, NEW prefix, NEW a \in Hits(m, prefix)
  PROVE  /\ a \in DataAddr /\ LoadsAsStart(m, a)
         /\ MacroblockIndex(a) \in Searched /\ PageIndex(a) \in Index
         /\ MacroblockIndex(a) \in Nat /\ MacroblockIndex(a) < MacroblocksCount
         /\ Table(m, MacroblockIndex(a))[PageIndex(a)].st = "OK"
         /\ Table(m, MacroblockIndex(a))[PageIndex(a)].key = ListedKey(m, a)
         /\ prefix = Blank \/ ListedKey(m, a).prefix = prefix
BY SearchedPage DEF Hits, Listed, ListedKey

\* A header that is saved as the first copy changes nothing of the pages in
\* the other macroblocks that have one.
LEMMA HitsKept ==
  ASSUME NEW m, NEW n, NEW c \in Nat,
         \A a \in Addr : a # HeaderAddress(c, 0) => n[a] = m[a],
         NEW a, MacroblockIndex(a) # c,
         MacroblockIndex(a) \in Searched => ValidCopies(m, MacroblockIndex(a)) # {},
         NEW prefix
  PROVE  /\ a \in Hits(m, prefix) <=> a \in Hits(n, prefix)
         /\ a \in Hits(m, prefix) => ListedKey(n, a) = ListedKey(m, a)
<1>1. ASSUME a \in DataAddr, MacroblockIndex(a) \in Searched
      PROVE  /\ Table(n, MacroblockIndex(a)) = Table(m, MacroblockIndex(a))
             /\ LoadsAsStart(n, a) <=> LoadsAsStart(m, a)
  <2>1. Table(n, MacroblockIndex(a)) = Table(m, MacroblockIndex(a))
    BY <1>1, OtherTablesKept, SearchedIsMacroblock
  <2>2. 0 \in Copy /\ a # HeaderAddress(c, 0)
    BY <1>1, Geometry, HeaderIsNotData DEF Copy
  <2>3. n[a] = m[a]
    BY <1>1, <2>2 DEF DataAddr
  <2> QED
    BY <2>1, <2>3 DEF LoadsAsStart, Readable, IsStart
<1> QED
  BY <1>1 DEF Hits, Listed, ListedKey

\* The table of a macroblock is a table.
LEMMA TableType ==
  ASSUME NEW m \in Image, NEW b \in Nat
  PROVE  Table(m, b) \in Toc
<1>1. CASE ValidCopies(m, b) = {}
  BY <1>1, CreatedTocType DEF Table
<1>2. CASE ValidCopies(m, b) # {}
  <2>1. ValidCopies(m, b) \in SUBSET Nat
    BY Geometry DEF ValidCopies, Copy
  <2>2. PICK i \in FirstCopy(m, b) : TRUE
    BY <1>2, <2>1, LeastExists DEF FirstCopy
  <2>3. i \in ValidCopies(m, b) /\ Table(m, b) = m[HeaderAddress(b, i)].toc
    BY <2>2, FirstCopyUnique
  <2>4. m[HeaderAddress(b, i)] \in Page
    BY <2>3 DEF ValidCopies, Readable, Image
  <2> QED
    BY <2>3, <2>4 DEF Page
<1> QED
  BY <1>1, <1>2

\* So the keys it lists are keys.
LEMMA HitKey ==
  ASSUME NEW m \in Image, NEW prefix, NEW a \in Hits(m, prefix)
  PROVE  ListedKey(m, a) \in Key /\ ListedKey(m, a).id \in Nat
<1>1. Table(m, MacroblockIndex(a)) \in Toc /\ PageIndex(a) \in Index
  BY HitFacts, TableType
<1>2. ListedKey(m, a) \in Key
  BY <1>1 DEF ListedKey, Toc, Unit
<1> QED
  BY <1>2, DataAssumption DEF Key

-----------------------------------------------------------------------------
(* The steps of a find.                                                    *)

\* The context of a step of a find.
FindStepOf ==
  HealthyStep /\ DeleteClears /\ FindPasses /\ Finding /\ UNCHANGED call

\* The search of a find, by its type.
LEMMA FindTypes ==
  ASSUME FindStepOf
  PROVE  /\ s \in SearchFrame /\ s.mb \in Nat /\ s.i \in Nat /\ s.prevId \in Nat
         /\ s.mode \in SearchMode \ {"EMPTY"} /\ s.key \in Key /\ s.key.id \in Nat
         /\ mem \in Image /\ h \in HeaderFrame /\ h.page \in Page /\ ~busy
         /\ FindFrame /\ FindTables /\ FindResult /\ Finding'
<1>1. s \in SearchFrame /\ mem \in Image /\ h \in HeaderFrame
  BY DEF FindStepOf, HealthyStep, IInv, TypeOK, SearchType, DeviceType, HeaderType
<1>2. /\ s.mb \in Nat /\ s.i \in Nat /\ s.prevId \in Nat /\ s.key \in Key
      /\ s.mode \in SearchMode
  BY <1>1, Geometry, DataAssumption DEF SearchFrame, DataPages
<1>3. s.key.id \in Nat
  BY <1>2, DataAssumption DEF Key
<1>4. FindFrame /\ FindTables /\ FindResult /\ Finding'
  BY DEF FindStepOf, FindPasses, Finding
<1>5. ~busy
  BY DEF FindStepOf, HealthyStep, BusyCounted, Healthy
<1>6. s.mode # "EMPTY"
  BY <1>4 DEF FindStepOf, Finding, FindFrame
<1>7. h.page \in Page
  BY <1>1 DEF HeaderFrame
<1> QED
  BY <1>1, <1>2, <1>3, <1>4, <1>5, <1>6, <1>7

\* Loading the header of the macroblock the search is at.
LEMMA FindHeaderLoad ==
  ASSUME FindStepOf, HeaderLoad, UNCHANGED <<s, call, d, w, l>>
  PROVE  FindPasses'
<1> USE FindTypes
<1>1. /\ mem' = mem /\ h'.mb = h.mb /\ h'.back = h.back
      /\ h'.page.toc = Table(mem, h.mb)
      /\ \/ pc' = h.back /\ st' = "OK" /\ ValidCopies(mem, h.mb) # {}
         \/ pc' = "h_save"
  BY HealthyHeaderLoad DEF FindStepOf, HealthyStep
<1>2. pc = "h_load" /\ h.back = "s_header" /\ h.mb = s.mb
  BY DEF HeaderLoad, FindFrame, At, SearchPoint, HeaderPoint
<1>3. FindFrame'
  BY <1>1, <1>2 DEF FindFrame, At, SearchPoint, HeaderPoint
<1>4. FindTables'
  BY <1>1, <1>2 DEF FindTables, Table, CreatedToc, ValidCopies
<1>5. FindResult'
  BY <1>1, <1>2 DEF FindResult, ResultIsHit, NoneBetter, Passed
<1> QED
  BY <1>3, <1>4, <1>5 DEF FindPasses

\* Saving the header that was created for it.
LEMMA FindHeaderSave ==
  ASSUME FindStepOf, HeaderSave, UNCHANGED <<s, call, d, w, l>>
  PROVE  FindPasses'
<1> USE FindTypes
<1>1. pc = "h_save" /\ h.back = "s_header" /\ h.mb = s.mb /\ h.copy = 0
  BY DEF HeaderSave, FindFrame, At, SearchPoint, HeaderPoint, FindStepOf,
    DeleteClears
<1>2. /\ mem' = [mem EXCEPT ![HeaderAddress(s.mb, 0)] = h.page]
      /\ pc' = "s_header" /\ st' = "OK" /\ h' = h
  BY <1>1, HealthyHeaderSave DEF FindStepOf, HealthyStep, IInv, TypeOK
<1>3. s.mb < MacroblocksCount /\ s.mb \in Searched
  BY <1>1, MacroblockInRange DEF FindStepOf, HealthyStep, IInv, LoopsBounded,
    At, HeaderPoint, Searched
<1>4. /\ mem'[HeaderAddress(s.mb, 0)] = h.page
      /\ \A a \in Addr : a # HeaderAddress(s.mb, 0) => mem'[a] = mem[a]
  <2>1. HeaderAddress(s.mb, 0) \in Addr
    BY <1>3, Geometry, HeaderInStorage, SearchedIsMacroblock DEF Copy
  <2> QED
    BY <1>2, <2>1 DEF Image
<1>5. FindFrame'
  BY <1>1, <1>2 DEF FindFrame, At, SearchPoint, HeaderPoint
<1>6. FindTables'
  <2>1. ValidCopies(mem', s.mb) # {} /\ Table(mem', s.mb) = h.page.toc
    BY <1>3, <1>4, TableSaved, SearchedIsMacroblock
  <2>2. ASSUME NEW b \in Searched, b < s.mb
        PROVE  ValidCopies(mem', b) # {}
    BY <1>4, <2>2, OtherTablesKept, SearchedIsMacroblock DEF FindTables
  <2> QED
    BY <1>2, <2>1, <2>2 DEF FindTables
<1>7. ASSUME NEW a, MacroblockIndex(a) < s.mb
      PROVE  /\ a \in Hits(mem, s.key.prefix) <=> a \in Hits(mem', s.key.prefix)
             /\ a \in Hits(mem, s.key.prefix) => ListedKey(mem', a) = ListedKey(mem, a)
  <2>1. MacroblockIndex(a) \in Searched => MacroblockIndex(a) # s.mb
    BY <1>7, MacroblockInRange DEF Searched
  <2>2. MacroblockIndex(a) \in Searched => ValidCopies(mem, MacroblockIndex(a)) # {}
    BY <1>7 DEF FindTables
  <2>3. CASE MacroblockIndex(a) \in Searched
    BY <1>4, <2>1, <2>2, <2>3, HitsKept
  <2>4. CASE MacroblockIndex(a) \notin Searched
    BY <2>4 DEF Hits, Listed
  <2> QED
    BY <2>3, <2>4
<1>8. FindResult'
  <2>1. s.found # None => ResultIsHit'
    BY <1>1, <1>2, <1>7 DEF FindResult, ResultIsHit
  <2>2. NoneBetter({a \in Hits(mem, s.key.prefix) : Passed(a)})'
    BY <1>1, <1>2, <1>7 DEF FindResult, NoneBetter, Passed
  <2> QED
    BY <1>1, <1>2, <2>1, <2>2 DEF FindResult
<1> QED
  BY <1>5, <1>6, <1>8 DEF FindPasses

\* The next macroblock, or the end of the search.
LEMMA FindSearchBlock ==
  ASSUME FindStepOf, SearchBlock, UNCHANGED <<call, d, w, l>>
  PROVE  FindPasses'
<1> USE FindTypes
<1>1. pc = "s_block" /\ mem' = mem /\ s' = s
  BY DEF SearchBlock, device
<1>2. CASE s.mb < MacroblocksCount /\ LoadHeader(s.mb, "s_header")
  <2>1. pc' = "h_load" /\ h'.mb = s.mb /\ h'.back = "s_header"
    BY <1>2 DEF LoadHeader, NoHeader
  <2> QED
    BY <1>1, <2>1 DEF FindPasses, FindFrame, FindTables, FindResult,
      ResultIsHit, NoneBetter, Passed, At, SearchPoint, HeaderPoint
<1>3. CASE /\ s.mb >= MacroblocksCount
           /\ Return(IF s.found = None THEN "NOT_FOUND" ELSE "OK", s.back)
  <2>1. pc' = "done" /\ st' = IF s.found = None THEN "NOT_FOUND" ELSE "OK"
    BY <1>3 DEF Return, FindFrame
  <2>2. \A a \in Hits(mem, s.key.prefix) : Passed(a)
    BY <1>3, HitFacts, MacroblockInRange DEF Passed
  <2>3. NoneBetter(Hits(mem, s.key.prefix))
    BY <1>1, <2>2 DEF FindResult, NoneBetter
  <2>4. FindResult'
    BY <1>1, <2>1, <2>3 DEF FindResult, ResultIsHit, NoneBetter
  <2> QED
    BY <1>1, <2>1, <2>4 DEF FindPasses, FindFrame, FindTables, At, SearchPoint,
      HeaderPoint
<1> QED
  BY <1>2, <1>3 DEF SearchBlock

\* The scan of a table starts at its first page.
LEMMA FindSearchHeader ==
  ASSUME FindStepOf, SearchHeader, UNCHANGED <<call, d, w, l>>
  PROVE  FindPasses'
<1> USE FindTypes
<1>1. /\ pc = "s_header" /\ mem' = mem /\ h' = h /\ st' = st
      /\ s' = [s EXCEPT !.i = ScanFrom] /\ pc' = "s_unit"
  BY DEF SearchHeader, FindFrame, Goto, device
<1>2. ScanFrom = 0
  <2>1. 0 % PerBlock = 0
    <3>1. (0 * PerBlock + 0) % PerBlock = 0
      BY Geometry, DivUnique
    <3> QED
      BY <3>1, Geometry
  <2> QED
    BY <2>1, Geometry DEF ScanFrom, PageIndex, IsMacroblockAddress, FindFrame
<1>3. /\ s'.mode = s.mode /\ s'.key = s.key /\ s'.from = s.from /\ s'.mb = s.mb
      /\ s'.found = s.found /\ s'.prevId = s.prevId /\ s'.back = s.back /\ s'.i = 0
  BY <1>1, <1>2 DEF SearchFrame
<1>4. FindFrame' /\ FindTables'
  BY <1>1, <1>3 DEF FindFrame, FindTables, At, SearchPoint, HeaderPoint
<1>5. ASSUME NEW a \in Hits(mem, s.key.prefix), Passed(a)'
      PROVE  Passed(a)
  BY <1>1, <1>3, <1>5, HitFacts, Geometry DEF Passed, Index
<1>6. FindResult'
  BY <1>1, <1>3, <1>5 DEF FindResult, ResultIsHit, NoneBetter
<1> QED
  BY <1>4, <1>6 DEF FindPasses

\* The scan of a table goes on to the next page that is better than the best
\* so far.
LEMMA FindSearchUnit ==
  ASSUME FindStepOf, SearchUnit, UNCHANGED <<call, d, w, l>>
  PROVE  FindPasses'
<1> USE FindTypes
<1> DEFINE toc  == Table(mem, s.mb)
           H    == Hits(mem, s.key.prefix)
           id(a) == ListedKey(mem, a).id
<1>1. /\ pc = "s_unit" /\ mem' = mem /\ h' = h
      /\ h.page.toc = toc /\ h.mb = s.mb /\ toc \in Toc
      /\ s.mb < MacroblocksCount /\ s.mb \in Searched
      /\ s.found # None => ResultIsHit /\ s.mode # "EQUAL"
      /\ s.found = None => s.prevId = StartCmpId(s.mode)
      /\ s.back = "done" /\ ValidCopies(mem, s.mb) # {}
  <2>1. pc = "s_unit" /\ mem' = mem /\ h' = h
    BY DEF SearchUnit, device
  <2>2. s.mb < MacroblocksCount
    BY <2>1 DEF FindStepOf, HealthyStep, IInv, LoopsBounded, At
  <2> QED
    BY <2>1, <2>2, TableType, MacroblockInRange DEF FindFrame, FindTables,
      FindResult, At, Searched
\* A page the scan is over, or passes now, is not better than the best so far.
<1>2. ASSUME NEW a \in H, Passed(a)
      PROVE  ~IsIdFound(s.mode, id(a), s.prevId, s.key.id)
  BY <1>1, <1>2 DEF FindResult, NoneBetter
<1>3. ASSUME NEW a \in H, MacroblockIndex(a) = s.mb, PageIndex(a) >= s.i,
             PageIndex(a) \notin Candidates
      PROVE  ~IsIdFound(s.mode, id(a), s.prevId, s.key.id)
  <2>1. /\ PageIndex(a) \in Index /\ toc[PageIndex(a)].st = "OK"
        /\ toc[PageIndex(a)].key = ListedKey(mem, a)
        /\ s.key.prefix = Blank \/ ListedKey(mem, a).prefix = s.key.prefix
    BY <1>3, HitFacts
  <2> QED
    BY <1>1, <1>3, <2>1 DEF Candidates
<1>4. ASSUME NEW a \in H, MacroblockIndex(a) = s.mb,
             PageIndex(a) >= s.i => PageIndex(a) \notin Candidates
      PROVE  ~IsIdFound(s.mode, id(a), s.prevId, s.key.id)
  <2>1. PageIndex(a) \in Nat
    BY HitFacts, Geometry DEF Index, DataPages
  <2>2. CASE PageIndex(a) < s.i
    BY <1>1, <1>2, <1>4, <2>2 DEF Passed
  <2> QED
    BY <1>3, <1>4, <2>1, <2>2
<1>5. CASE Candidates = {}
  <2>1. s' = [s EXCEPT !.mb = @ + 1] /\ pc' = "s_block"
    BY <1>5 DEF SearchUnit, Least, Goto
  <2>2. /\ s'.mode = s.mode /\ s'.key = s.key /\ s'.from = s.from
        /\ s'.mb = s.mb + 1 /\ s'.found = s.found /\ s'.prevId = s.prevId
        /\ s'.back = s.back
    BY <2>1 DEF SearchFrame
  <2>3. FindFrame'
    BY <2>1, <2>2 DEF FindFrame, At, SearchPoint, HeaderPoint
  <2>4. FindTables'
    BY <1>1, <2>1, <2>2, MacroblockInRange DEF FindTables, Searched
  <2>5. ASSUME s.found # None
        PROVE  ResultIsHit'
    <3>1. ResultIsHit /\ MacroblockIndex(s.found) \in Nat
      BY <1>1, <2>5, HitFacts DEF ResultIsHit
    <3>2. MacroblockIndex(s.found) < s.mb + 1
      BY <1>1, <3>1 DEF ResultIsHit
    <3> QED
      BY <1>1, <2>1, <2>2, <3>1, <3>2 DEF ResultIsHit
  <2>6. ASSUME NEW a \in H, Passed(a)'
        PROVE  ~IsIdFound(s.mode, id(a), s.prevId, s.key.id)
    <3>1. MacroblockIndex(a) \in Nat /\ MacroblockIndex(a) < s.mb + 1
      BY <2>1, <2>2, <2>6, HitFacts DEF Passed
    <3>2. CASE MacroblockIndex(a) < s.mb
      BY <1>2, <3>2 DEF Passed
    <3>3. CASE MacroblockIndex(a) = s.mb
      BY <1>4, <1>5, <3>3
    <3> QED
      BY <3>1, <3>2, <3>3
  <2>7. FindResult'
    BY <1>1, <2>1, <2>2, <2>5, <2>6 DEF FindResult, NoneBetter
  <2> QED
    BY <2>3, <2>4, <2>7 DEF FindPasses
<1>6. ASSUME NEW i \in Least(Candidates)
      PROVE  /\ i \in Index /\ i \in Nat /\ i >= s.i /\ toc[i].st = "OK"
             /\ toc[i].key \in Key /\ toc[i].key.id \in Nat
             /\ s.key.prefix = Blank \/ toc[i].key.prefix = s.key.prefix
             /\ IsIdFound(s.mode, toc[i].key.id, s.prevId, s.key.id)
             /\ \A j \in Index : s.i <= j /\ j < i => j \notin Candidates
  <2>1. i \in Candidates /\ \A j \in Candidates : i <= j
    BY <1>6 DEF Least
  <2>2. /\ i \in Index /\ i >= s.i /\ toc[i].st = "OK"
        /\ s.key.prefix = Blank \/ toc[i].key.prefix = s.key.prefix
        /\ IsIdFound(s.mode, toc[i].key.id, s.prevId, s.key.id)
    BY <1>1, <2>1 DEF Candidates
  <2>3. i \in Nat /\ Index \subseteq Nat
    BY <2>2, Geometry DEF Index, DataPages
  <2>4. toc[i].key \in Key
    BY <1>1, <2>2 DEF Toc, Unit
  <2>5. toc[i].key.id \in Nat
    BY <2>4, DataAssumption DEF Key
  <2>6. \A j \in Index : s.i <= j /\ j < i => j \notin Candidates
    BY <2>1, <2>3
  <2> QED
    BY <2>2, <2>3, <2>4, <2>5, <2>6
\* The page of the candidate is a hit exactly when it loads.
<1>7. ASSUME NEW i \in Least(Candidates), NEW a \in H,
             MacroblockIndex(a) < s.mb
               \/ (MacroblockIndex(a) = s.mb /\ PageIndex(a) < i + 1)
      PROVE  \/ a = PageAddress(s.mb, i)
             \/ ~IsIdFound(s.mode, id(a), s.prevId, s.key.id)
  <2>1. PageIndex(a) \in Index /\ PageIndex(a) \in Nat /\ a \in DataAddr
    BY HitFacts, Geometry DEF Index, DataPages
  <2>2. CASE MacroblockIndex(a) < s.mb
    BY <1>2, <2>2 DEF Passed
  <2>3. CASE MacroblockIndex(a) = s.mb /\ PageIndex(a) < i
    BY <1>4, <1>6, <2>1, <2>3
  <2>4. CASE MacroblockIndex(a) = s.mb /\ PageIndex(a) = i
    BY <2>1, <2>4, AddressOfPlace
  <2> QED
    BY <1>6, <1>7, <2>1, <2>2, <2>3, <2>4
<1>8. ASSUME NEW i \in Least(Candidates), ~LoadsAsStart(mem, PageAddress(s.mb, i)),
             s' = [s EXCEPT !.i = i + 1], UNCHANGED control
      PROVE  FindPasses'
  <2>1. /\ s'.mode = s.mode /\ s'.key = s.key /\ s'.from = s.from
        /\ s'.mb = s.mb /\ s'.found = s.found /\ s'.prevId = s.prevId
        /\ s'.back = s.back /\ s'.i = i + 1 /\ pc' = "s_unit" /\ st' = st
    BY <1>1, <1>8 DEF SearchFrame, control
  <2>2. FindFrame' /\ FindTables'
    BY <1>1, <2>1 DEF FindFrame, FindTables, At, SearchPoint, HeaderPoint
  <2>3. s.found # None => ResultIsHit'
    BY <1>1, <2>1 DEF ResultIsHit
  <2>4. ASSUME NEW a \in H, Passed(a)'
        PROVE  ~IsIdFound(s.mode, id(a), s.prevId, s.key.id)
    BY <1>7, <1>8, <2>1, <2>4, HitFacts DEF Passed
  <2>5. FindResult'
    BY <1>1, <2>1, <2>3, <2>4 DEF FindResult, NoneBetter
  <2> QED
    BY <2>2, <2>5 DEF FindPasses
<1>9. ASSUME NEW i \in Least(Candidates), LoadsAsStart(mem, PageAddress(s.mb, i)),
             s' = [s EXCEPT !.found = PageAddress(s.mb, i), !.i = i + 1,
                            !.prevId = h.page.toc[i].key.id],
             IF IsNeededFirstResult(s.mode) THEN Return("OK", s.back)
                                            ELSE UNCHANGED control
      PROVE  FindPasses'
  <2> DEFINE f == PageAddress(s.mb, i)
  <2>1. /\ s'.mode = s.mode /\ s'.key = s.key /\ s'.from = s.from
        /\ s'.mb = s.mb /\ s'.found = f /\ s'.prevId = toc[i].key.id
        /\ s'.back = s.back /\ s'.i = i + 1
    BY <1>1, <1>9 DEF SearchFrame
  <2>2. IF s.mode = "EQUAL" THEN pc' = "done" /\ st' = "OK"
                            ELSE pc' = "s_unit" /\ st' = st
    BY <1>1, <1>9 DEF IsNeededFirstResult, Return, control
  <2>3. FindFrame' /\ FindTables'
    BY <1>1, <2>1, <2>2 DEF FindFrame, FindTables, At, SearchPoint, HeaderPoint
  <2>4. /\ f \in H /\ ListedKey(mem, f) = toc[i].key /\ MacroblockIndex(f) = s.mb
    BY <1>1, <1>6, <1>9, HitOfTable
  <2>5. f # None
    BY <2>4, HitFacts, NoneAssumption, Geometry DEF DataAddr, Addr
  \* It is better than what the search started from, through the best so far.
  <2>6. IsIdFound(s.mode, toc[i].key.id, StartCmpId(s.mode), s.key.id)
    <3>1. StartCmpId(s.mode) \in Nat
      BY DataAssumption DEF StartCmpId
    <3>2. s.found # None => IsIdFound(s.mode, s.prevId, StartCmpId(s.mode), s.key.id)
      BY <1>1 DEF ResultIsHit
    <3> QED
      BY <1>1, <1>6, <3>1, <3>2, IdFoundTransitive
  <2>7. ResultIsHit'
    BY <1>1, <2>1, <2>2, <2>4, <2>6 DEF ResultIsHit
  <2>8. ASSUME NEW a \in H, Passed(a)', s.mode # "EQUAL"
        PROVE  ~IsIdFound(s.mode, id(a), toc[i].key.id, s.key.id)
    <3>1. id(a) \in Nat
      BY HitKey
    <3>2. CASE a = f
      BY <1>6, <2>4, <2>8, <3>2, IdFoundIrreflexive
    <3>3. CASE ~IsIdFound(s.mode, id(a), s.prevId, s.key.id)
      BY <1>6, <3>1, <3>3, IdFoundTransitive
    <3> QED
      BY <1>7, <2>1, <2>8, <3>2, <3>3, HitFacts DEF Passed
  <2>9. FindResult'
    BY <1>1, <2>1, <2>2, <2>5, <2>7, <2>8 DEF FindResult, NoneBetter
  <2> QED
    BY <2>3, <2>9 DEF FindPasses
<1> QED
  BY <1>5, <1>8, <1>9 DEF SearchUnit

\* A find that starts has passed no page.
LEMMA FindStarts ==
  ASSUME HealthyStep, NEW mode \in SearchMode, NEW key \in Key, Find(mode, key)
  PROVE  FindPasses'
<1>1. /\ call'.op = "find" /\ call'.mode = mode /\ call'.key = key
      /\ pc' = "s_block" /\ mem' = mem
      /\ s' = [NoSearch EXCEPT !.mode = mode, !.key = key, !.from = 0,
                               !.mb = MacroblockIndex(0),
                               !.prevId = StartCmpId(mode), !.back = "done"]
  BY DEF Find, Search, NoCall, device
<1>2. MacroblockIndex(0) = 0
  <2>1. (0 * PerBlock + 0) \div PerBlock = 0
    BY Geometry, DivUnique
  <2> QED
    BY <2>1, Geometry DEF MacroblockIndex
<1>3. /\ s'.mode = mode /\ s'.key = key /\ s'.from = 0 /\ s'.mb = 0
      /\ s'.found = None /\ s'.prevId = StartCmpId(mode) /\ s'.back = "done"
  BY <1>1, <1>2 DEF NoSearch
<1>4. FindFrame' /\ FindTables'
  BY <1>1, <1>3, MacroblockInRange DEF FindFrame, FindTables, At, SearchPoint,
    HeaderPoint, Searched
<1>5. \A a \in Hits(mem, key.prefix) : ~(MacroblockIndex(a) < 0)
  BY HitFacts
<1>6. FindResult'
  BY <1>1, <1>3, <1>5 DEF FindResult, NoneBetter, Passed
<1> QED
  BY <1>4, <1>6 DEF FindPasses

\* No other call of the client is a find.
LEMMA FindRequest ==
  ASSUME HealthyStep, Request
  PROVE  FindPasses'
<1>1. ASSUME call'.op # "find" \/ call'.mode = "EMPTY"
      PROVE  FindPasses'
  BY <1>1 DEF FindPasses, Finding
<1>2. ASSUME NEW mode \in SearchMode \ {"EMPTY"}, NEW key \in Key, Find(mode, key)
      PROVE  FindPasses'
  BY <1>2, FindStarts
<1>3. ASSUME Find("EMPTY", NoKey)
      PROVE  FindPasses'
  BY <1>1, <1>3 DEF Find, NoCall
<1>4. ASSUME NEW addr, NEW len, Load(addr, len)
      PROVE  FindPasses'
  BY <1>1, <1>4 DEF Load, Enter, Refuse, NoCall
<1>5. ASSUME NEW op \in {"save", "rewrite"}, NEW addr, NEW key, NEW val,
             NEW len, NEW point, Write(op, addr, key, val, len, point)
      PROVE  FindPasses'
  BY <1>1, <1>5 DEF Write, Enter, Refuse, NoCall
<1>6. ASSUME NEW key, DeleteData(key)
      PROVE  FindPasses'
  BY <1>1, <1>6 DEF DeleteData, NoCall
<1>7. ASSUME NEW addr, ClearAddress(addr)
      PROVE  FindPasses'
  BY <1>1, <1>7 DEF ClearAddress, Enter, NoCall
<1>8. ASSUME Format
      PROVE  FindPasses'
  BY <1>1, <1>8 DEF Format, Enter, NoCall
<1> QED
  BY <1>2, <1>3, <1>4, <1>5, <1>6, <1>7, <1>8 DEF Request, Save, Rewrite

\* Every step of a healthy drive preserves the invariant.
LEMMA NextFind ==
  ASSUME HealthyStep, DeleteClears, FindPasses, [Next]_vars
  PROVE  FindPasses'
<1>1. CASE Request
  BY <1>1, FindRequest
<1>2. CASE DataNext
  <2>1. call' = call
    BY <1>2 DEF DataNext, DeleteNext, DeleteBlock, DeleteHeader, DeleteSaved,
      DeleteErase, RewriteEraseNext, RewriteStart, RewriteDeleted,
      RewriteHeader, RewriteTarget, RewriteErase, RewriteRest,
      RewriteWriteNext, RewriteNext, RewriteFound, RewriteSwitch,
      RewriteReload, RewritePage, RewriteEnd, SaveNext, SaveStart, SaveCheck,
      SaveRewritten, SaveUndone, LoadNext, LoadStart, LoadCopy, LoadDeleted,
      ClearNext, ClearStart, ClearLoad
  <2>2. CASE ~Finding
    BY <2>1, <2>2 DEF FindPasses, Finding
  <2>3. CASE Finding
    <3>1. FindStepOf
      BY <2>1, <2>3 DEF FindStepOf
    <3>2. pc \in SearchPoint \cup HeaderPoint \cup {"done"}
      BY <2>3 DEF FindPasses, FindFrame
    <3>3. \/ HeaderNext /\ UNCHANGED <<s, call, d, w, l>>
          \/ SearchNext /\ UNCHANGED <<call, d, w, l>>
      BY <1>2, <3>2 DEF DataNext, DeleteNext, DeleteBlock, DeleteHeader,
        DeleteSaved, DeleteErase, RewriteEraseNext, RewriteStart,
        RewriteDeleted, RewriteHeader, RewriteTarget, RewriteErase,
        RewriteRest, RewriteWriteNext, RewriteNext, RewriteFound,
        RewriteSwitch, RewriteReload, RewritePage, RewriteEnd, SaveNext,
        SaveStart, SaveCheck, SaveRewritten, SaveUndone, LoadNext, LoadStart,
        LoadCopy, LoadDeleted, ClearNext, ClearStart, ClearLoad, SearchPoint,
        HeaderPoint
    <3> QED
      BY <3>1, <3>3, FindHeaderLoad, FindHeaderSave, FindSearchBlock,
        FindSearchHeader, FindSearchUnit DEF HeaderNext, SearchNext
  <2> QED
    BY <2>2, <2>3
<1>3. CASE FormatNext
  <2>1. pc \in FormatPoint /\ call' = call
    BY <1>3 DEF FormatNext, FormatBlock, FormatHeader, FormatSaved,
      FormatErase, FormatPoint
  <2>2. ~Finding
    BY <2>1 DEF FindPasses, FindFrame, SearchPoint, HeaderPoint, FormatPoint
  <2> QED
    BY <2>1, <2>2 DEF FindPasses, Finding
<1>4. CASE Answer \/ Crash
  BY <1>4 DEF Answer, Crash, Forget, NoCall, FindPasses, Finding
<1>5. CASE Drive
  BY <1>5, HealthyDrive DEF Drive, HealthyStep, IInv, TypeOK
<1>6. CASE UNCHANGED vars
  <2>1. mem' = mem /\ pc' = pc /\ st' = st /\ h' = h /\ s' = s /\ call' = call
    BY <1>6 DEF vars, device, control, frames
  <2> QED
    BY <2>1 DEF FindPasses, Finding, FindFrame, FindTables, FindResult,
      ResultIsHit, NoneBetter, Passed, At
<1> QED
  BY <1>1, <1>2, <1>3, <1>4, <1>5, <1>6 DEF Next, Library

\* The invariant of a healthy drive, with that of a find.
FInv == HInv /\ (Healthy => FindPasses)

\* It holds in every behaviour.
LEMMA FindInductive == Spec => []FInv
<1>1. Init => FInv
  BY InitHInv DEF Init, NoCall, FindPasses, Finding, FInv
<1>2. FInv /\ [Next]_vars => FInv'
  <2> SUFFICES ASSUME FInv, [Next]_vars PROVE FInv'
    OBVIOUS
  <2>1. HInv' /\ (Healthy' => Healthy)
    BY NextHInv, HealthyBefore DEF FInv, HInv, IInv, TypeOK
  <2>2. Healthy' => FindPasses'
    BY <2>1, NextFind DEF FInv, HInv, HealthyStep
  <2> QED
    BY <2>1, <2>2 DEF FInv
<1> QED
  BY <1>1, <1>2, PTL DEF Spec

-----------------------------------------------------------------------------
(* The answer.                                                             *)

\* The tables of a drive in its layout list keys of clients.
LEMMA TableIsUser ==
  ASSUME MemLayout, NEW b \in Nat
  PROVE  UserTable(Table(mem, b))
<1>1. CASE ValidCopies(mem, b) = {}
  BY <1>1, CreatedIsTable DEF Table, IsTable, HeaderPage
<1>2. CASE ValidCopies(mem, b) # {}
  <2>1. ValidCopies(mem, b) \in SUBSET Nat
    BY Geometry DEF ValidCopies, Copy
  <2>2. PICK i \in FirstCopy(mem, b) : TRUE
    BY <1>2, <2>1, LeastExists DEF FirstCopy
  <2>3. i \in ValidCopies(mem, b) /\ Table(mem, b) = mem[HeaderAddress(b, i)].toc
    BY <2>2, FirstCopyUnique
  <2>4. i \in Copy /\ HeaderAddress(b, i) \in Addr /\ mem[HeaderAddress(b, i)] # Bad
    BY <2>3 DEF ValidCopies, Readable
  <2>5. IsMacroblockAddress(HeaderAddress(b, i))
    BY <2>4, HeaderIsHeader
  <2> QED
    BY <2>3, <2>4, <2>5 DEF MemLayout, IsTable
<1> QED
  BY <1>1, <1>2

\* A page that a search may find is one at which a key it looks for is found.
LEMMA HitIsFound ==
  ASSUME MemLayout, NEW prefix, NEW a \in Hits(mem, prefix)
  PROVE  /\ a \in FoundAt(mem, ListedKey(mem, a))
         /\ ListedKey(mem, a) \in Matching(prefix)
<1>1. ListedKey(mem, a) \in UserKey
  BY HitFacts, TableIsUser DEF UserTable
<1>2. a \in FoundAt(mem, ListedKey(mem, a))
  BY DEF Hits, FoundAt
<1> QED
  BY <1>1, <1>2, HitFacts DEF Matching

\* The other way round, a key that it looks for has such a page.
LEMMA FoundIsHit ==
  ASSUME NEW prefix, NEW k \in Matching(prefix)
  PROVE  \E a \in Hits(mem, prefix) : ListedKey(mem, a) = k
<1>1. PICK a \in FoundAt(mem, k) : TRUE
  BY DEF Matching
<1> QED
  BY <1>1 DEF FoundAt, Hits, Matching

\* find answers with the key its mode asks for, unless that has the id that the
\* search starts with, the largest one for MIN and NEXT and 0 for MAX: the one
\* given, or the one of the next id, the smallest or the largest among those of
\* its prefix (StorageSearch.cpp StorageSearchBase::searchPageAddress and
\* isIdFound), whatever tables and pages earlier calls and losses of power have
\* left.  Of a key with that id it says STORAGE_NOT_FOUND.
THEOREM FoundIsRight == Spec => [](Healthy => FindInBounds)
<1>1. FInv => (Healthy => FindInBounds)
  <2> SUFFICES ASSUME FInv, Healthy, pc = "done", Finding
               PROVE  LET answers == Answers(call.mode, call.key)
                      IN  IF answers = {} THEN st = "NOT_FOUND"
                          ELSE st = "OK" /\ \E k \in answers : s.found \in FoundAt(mem, k)
    BY DEF FindInBounds, Finding
  <2> DEFINE H == Hits(mem, s.key.prefix)
             M == Matching(call.key.prefix)
             A == Answers(call.mode, call.key)
             better(id) == IsIdFound(s.mode, id, s.prevId, s.key.id)
  <2>1. /\ s.mode = call.mode /\ s.key = call.key /\ MemLayout /\ mem \in Image
        /\ st = IF s.found = None THEN "NOT_FOUND" ELSE "OK"
        /\ s.found = None => s.prevId = StartCmpId(s.mode)
        /\ s.found # None => ResultIsHit
        /\ ~(s.mode = "EQUAL" /\ s.found # None) => NoneBetter(H)
    BY DEF FInv, HInv, Layout, FindPasses, FindFrame, FindResult, IInv, TypeOK,
      DeviceType
  <2>2. /\ s.mode \in {"EQUAL", "NEXT", "MIN", "MAX"} /\ s.prevId \in Nat
        /\ s.key.id \in Nat /\ s.prevId <= MaxId
    <3>1. s \in SearchFrame
      BY DEF FInv, HInv, IInv, TypeOK, SearchType
    <3>2. s.key \in Key /\ s.prevId \in 0 .. MaxId /\ s.mode \in SearchMode
      BY <3>1 DEF SearchFrame
    <3> QED
      BY <2>1, <3>2, DataAssumption DEF Key, SearchMode, Finding
  <2>3. \A k \in M : k.id \in Nat /\ k.id <= MaxId
    BY DataAssumption DEF Matching, UserKey
  \* What was found is a key of the right prefix, by the id the search kept.
  <2>4. ASSUME s.found # None
        PROVE  \E k \in M : /\ s.found \in FoundAt(mem, k) /\ k.id = s.prevId
                            /\ IsIdFound(s.mode, k.id, StartCmpId(s.mode), s.key.id)
    BY <2>1, <2>4, HitIsFound DEF ResultIsHit
  \* None of the keys of that prefix is better.
  <2>5. ASSUME ~(s.mode = "EQUAL" /\ s.found # None), NEW k \in M
        PROVE  ~better(k.id)
    <3>1. PICK a \in H : ListedKey(mem, a) = k
      BY <2>1, FoundIsHit
    <3> QED
      BY <2>1, <2>5, <3>1 DEF NoneBetter
  <2>6. CASE s.found = None
    <3>1. \A k \in M : ~IsIdFound(s.mode, k.id, StartCmpId(s.mode), s.key.id)
      BY <2>1, <2>5, <2>6
    <3>2. A = {}
      <4> SUFFICES ASSUME NEW k \in A PROVE FALSE
        OBVIOUS
      <4>1. k \in M /\ (s.mode = "EQUAL" \/ k.id # StartCmpId(s.mode))
        BY <2>1, <2>2 DEF Answers, Searches, Smallest, Largest
      <4>2. CASE s.mode = "EQUAL"
        BY <2>1, <3>1, <4>2 DEF Answers, Searches, IsIdFound
      <4>3. CASE s.mode = "NEXT"
        <5>1. k.id > s.key.id
          BY <2>1, <4>3 DEF Answers, Searches, Smallest
        <5> QED
          BY <2>2, <2>3, <3>1, <4>1, <4>3, <5>1, DataAssumption DEF IsIdFound, StartCmpId
      <4>4. CASE s.mode \in {"MIN", "MAX"}
        BY <2>2, <2>3, <3>1, <4>1, <4>4, DataAssumption DEF IsIdFound, StartCmpId
      <4> QED
        BY <2>2, <4>2, <4>3, <4>4
    <3> QED
      BY <2>1, <2>6, <3>2
  <2>7. CASE s.found # None
    <3>1. PICK k \in M : /\ s.found \in FoundAt(mem, k) /\ k.id = s.prevId
                         /\ IsIdFound(s.mode, k.id, StartCmpId(s.mode), s.key.id)
      BY <2>4, <2>7
    <3>2. k \in A
      <4>1. CASE s.mode = "EQUAL"
        BY <2>1, <3>1, <4>1 DEF Answers, Searches, IsIdFound
      <4>2. CASE s.mode # "EQUAL"
        <5>1. \A j \in M : ~IsIdFound(s.mode, j.id, k.id, s.key.id)
          BY <2>5, <3>1, <4>2
        <5>2. k.id # StartCmpId(s.mode)
          BY <2>2, <2>3, <3>1, <4>2, DataAssumption DEF IsIdFound, StartCmpId
        <5>3. k \in Searches(s.mode, s.key)
          <6>1. CASE s.mode = "NEXT"
            BY <2>1, <2>2, <2>3, <3>1, <5>1, <6>1, DataAssumption DEF Searches,
              Smallest, IsIdFound, StartCmpId
          <6>2. CASE s.mode = "MIN"
            BY <2>1, <2>2, <2>3, <3>1, <5>1, <6>2, DataAssumption DEF Searches,
              Smallest, IsIdFound
          <6>3. CASE s.mode = "MAX"
            BY <2>1, <2>2, <2>3, <3>1, <5>1, <6>3, DataAssumption DEF Searches,
              Largest, IsIdFound
          <6> QED
            BY <2>2, <4>2, <6>1, <6>2, <6>3
        <5> QED
          BY <2>1, <5>2, <5>3 DEF Answers
      <4> QED
        BY <4>1, <4>2
    <3> QED
      BY <2>1, <2>7, <3>1, <3>2
  <2> QED
    BY <2>6, <2>7
<1> QED
  BY <1>1, FindInductive, PTL
=============================================================================
