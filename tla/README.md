# A TLA+ verification of StorageAT

StorageAT is a C++ library that keeps records, each under a three-character prefix and a
numeric id, on a paged flash drive without a file system.  This directory models the library
and the drive under it as TLA+ modules, model-checks them with TLC on small instances, and
proves with TLAPS that its invariants hold on every instance, and that the library implements an
abstract record store.

Paths below are relative to the root of the repository.

## 1. The system

### Components

| Component | Code | State it keeps | Operations |
|---|---|---|---|
| Vocabulary | `StorageAT/include/StorageType.h` | none | statuses, constants |
| Pages | `StorageAT/src/StoragePage.cpp` (`Page`) | one page in memory: magic, version, key, `prev_addr`, `next_addr`, payload, CRC | `load`, `save`, `loadPrev`, `loadNext`, `isStart`, `isEnd`, `validate`, `repair` |
| Header of a macroblock | `StorageAT/src/StoragePage.cpp` (`Header`), `StorageMacroblock.cpp` | a page whose payload is a table of contents: a key and two status bits for each page of data | `load`, `create`, `save`, `loadHeader`, `formatMacroblock` |
| Address arithmetic | `StorageAT/src/StorageMacroblock.cpp` | none | address, macroblock and index of a page from one another |
| Search | `StorageAT/src/StorageSearch.cpp` | start address, last address and id found | `searchPageAddress` in five modes |
| Records | `StorageAT/src/StorageData.cpp` | start address of the record | `load`, `save`, `rewrite`, `deleteData`, `clearAddress`, `findStartAddress`, `findEndAddress` |
| API | `StorageAT/src/StorageAT.cpp` | number of pages, minimal erase size, the driver | `find`, `load`, `save`, `rewrite`, `deleteData`, `clearAddress`, `format`, `setPagesCount` |
| Drive (outside the library) | `IStorageDriver` in `StorageAT.h`; the emulator of the tests, `test/StorageEmulator.cpp` | the bytes of the drive, busy and blocked pages | `read`, `write`, `erase` |

### How they interact

A storage is an array of pages cut into macroblocks.  The first pages of a macroblock hold
copies of its header; each of the others holds a piece of a record.  The pages of a record are
linked in both directions and carry its key; the table in the header carries the key again, and
the status of the page (OK, EMPTY, BLOCKED).  So every fact about a record is on the drive
*twice*, in a table and in a chain of pages, and is written in several separate writes.

The API constructs the object an operation needs and calls it; the objects call one another as
nested functions in one thread.  Nothing is kept in memory between two calls, except the
geometry.  All shared state is on the drive, and the drive is the only part that acts by
itself: each read, write and erase may be answered OK, BUSY or ERROR.

### What is hard

* **Several writes for one change.**  `rewrite` deletes the old record in all tables, erases
  pages, writes pages, and saves the headers last.  Power may be lost between (or in) any two.
* **Failures in the middle.**  A worn page fails a write or an erase; a header copy fails and
  the next one is tried; the drive turns busy at any call, and the library gives up there,
  or undoes what it did with a delete that can fail too.
* **Two loops that must agree.**  `rewrite` chooses the pages to erase in one loop and the
  pages to write in another, by separate searches.
* **Stale pages.**  A delete frees the unit in the table and leaves the page readable.
* **Rebuilding.**  When no header copy validates, a table is made from the pages themselves,
  stale ones included.
* **Upgrading.**  A page that version 5 wrote is rewritten in place the first time it is loaded,
  in the middle of whatever call loads it, and the status of that write is ignored.
* **Resizing.**  `setPagesCount` changes the geometry under the records on the drive.
* **Boundaries.**  Lengths in bytes of payload are added to addresses in bytes of pages.  Records
  across macroblocks and erase sectors, pages that do not fill a macroblock, ids 0 and the
  largest, the end of a chain.

There is no concurrency in the library, hence no interleaving of callers is modelled; what
interleaves with it is the drive and the loss of power.

### What makes each component correct

* Pages and chains: links lead forward, so walks end (`ChainsForward`).
* Tables: they list every page of every record that is found, under its key (`TablesCoverRecords`).
* Address arithmetic: address ↔ (macroblock, index) is one to one (`AddressRoundTrip`).
* Search: the right key, in the direction of the scan (`FindInBounds`, `FindEmptyExact`,
  `SearchForward`).
* Records: a client gets whole records only (`LoadWhole`), what OK means
  (`SaveStores`, `DeleteRemoves`), no effect on other records (`OthersUntouched`), no page
  written unless erased (`WritesErased`), and altogether the record store of `RecordStore`.
* API: every call returns (`CallReturns`), each of its steps bringing it nearer to its end
  (`CallsAdvance`); the test for the end of the storage admits what fits
  (`GuardExact`); a size set between two calls costs no record (`ResizeStores`,
  `ResizeKeepsOthers`, `PayloadExact`).
* Status bits: they hold the table of statuses (`StatusesExact`).
* Upgrade: it is invisible to clients (`UpgradeKeepsPromise`).

## 2. The modules

Down to `StorageInvariants` each module EXTENDS the one before it; the others say what they
extend.

| Module | Models | Correspondence with the code |
|---|---|---|
| `StorageType` | `StorageType.h`, structures of `StoragePage.h` | keys, pages, tables, statuses; constants of the geometry |
| `StorageMacroblock` | `StorageMacroblock.cpp` | address arithmetic, counted in pages |
| `StoragePage` | `StoragePage.cpp` | pure operators of an image of the drive: what loads, where a chain starts and ends, the table `Header::create` makes; operations on tables |
| `StorageDevice` | the drive (external) | `mem`, `busy`, `worn`; a save and an erase of pages with each status; busy periods, wear, decay, loss of power |
| `StorageHeader` | `loadHeader`, `Header::load/create/save` | `h`, one step per load and one per copy saved; the program counter `pc` and last status `st` |
| `StorageSearch` | `StorageSearch.cpp` | `s`; one step per header and per candidate unit |
| `StorageData` | `StorageData.cpp` | `d` (deleteData), `w` (rewrite), `l` (load, clearAddress), `call` (arguments); a step per header access, batch of erases, page written |
| `StorageAT` | `StorageAT.cpp`, `formatMacroblock` | the API, `fmt` (format), the end of a call, the loss of power; `Init`, `Next`, `Spec` |
| `StorageProperties` | what the library promises | the records a client can get, read off the drive; the properties; the refinement mapping; what a call has left |
| `StorageInvariants` | what is true while a call runs | the bounds of loops, the order of searches, and the points at which a loss of power leaves records whole |
| `StorageClaims` | statements of the documentation that the code does not meet (EXTENDS `StorageInvariants`) | one definition each, with the line quoted |
| `StorageBytes` | the status bits of `StoragePage.cpp` and the guards of `StorageAT.cpp` (EXTENDS `StorageProperties`) | pure operators on bytes, and their agreement with tables and pages |
| `StorageResize` | `setPagesCount`, `getPayloadPagesCount` (EXTENDS `StorageProperties`) | `size`; the library at two sizes, the smaller one an INSTANCE of the same modules on the same drive |
| `StorageUpgrade` | `Page::repair` (EXTENDS `StorageProperties`) | `old`, the pages of version 5; one step per page repaired, before the step of the library that loads it |
| `MCStorageAT`, `MCStorageResize`, `MCStorageUpgrade` | constants of the instances | |

`RecordStore` is the abstract specification: a table from keys to records.  A record is a
sequence of parts and a set of pages.  A call changes, in whole records only, the records it
names, and the status of its reply is justified by the table (`Justified`): a save that returns
OK has stored the record, at its address, on pages of its own.  `StorageProperties` instantiates
it (`Promise`) with `store` computed from the drive, and `KeepsPromise` is `Promise!Spec`.

### The library as a state machine

The code is one thread of nested calls.  `pc` is the point it is at; a function in progress is a
frame (`h`, `s`, `d`, `w`, `l`, `fmt`), whose `back` is where it returns to, and `st` is the
status it returns.  No function is ever in progress twice, so one frame for each is enough.  A
frame is reset when its function is over.

A step ends wherever the drive may act, that is at a mutation of the drive or at a read whose
result the code branches on.  Reads that nothing separates but more reads are one step: the
drive answers BUSY to all of them or to none, and a load of a header, the walks along a chain
and `Header::create` return BUSY, having changed nothing, wherever in them the drive turns busy.
What this leaves out: in the fallback of `deleteData`, which loads every page of a macroblock and
skips those that do not load, a drive that is busy for some of these loads and ready again for
the erase that follows.

**The upgrade under it.**  `StorageUpgrade` leaves the library as it is and adds the steps of
`Page::repair`.  `Loads` names the pages that the next step of the library calls `Page::load`
for; each of them that is of version 5 is repaired, or its repair is refused, in a step of its
own, and only then does the library take its step.  So power can be lost between the upgrades of
two pages of one walk, and in one of them (`CrashUpgrading`).  A repair that is refused has two
outcomes, as `Page::repair` looks at neither status: the read after it finds the page as it is,
which does not validate (`RepairFails`), or is refused too, and the page in memory is the one that
was to be written, which does (`RepairUnseen`).  In the second case the library goes on as if the
page were upgraded while the drive holds version 5: the page is in `mem` for this one step, and
`Fade` takes it out again before the next.

### What is abstracted

* **Units.**  Addresses and lengths are counted in pages.  In the code the test
  `address + len >= getStorageSize()` adds a length in bytes of payload (234 to a page) to an
  address in bytes (256 to a page).  It may refuse or admit a record that ends with the storage,
  and it admits a record one page too long when its last page is little used; `BeyondStorage` and
  `Admitted` allow exactly that, which `GuardExact` states and the theorem `GuardIsExact` proves.
  Records have up to eleven pages (`MaxLen`): with longer ones the difference between the two
  units adds up to a second page.
* **A page** is its key, links, and payload; the payload is a pair (value, part of the record)
  when it is read as user data and a table when it is read as a header.  CRC, magic and version
  are one fact: the page validates, or it is `Bad`.
* **Header pages** are in the same memory as data, so that an erase or a load at a header
  address does there what the code does there.
* **Arguments.**  Null pointers and misaligned addresses are not given.  The code refuses them
  before any state is touched, with three exceptions: `deleteData` and `find` in mode EMPTY do not
  test the prefix for null, and `clearAddress` does not test the address for alignment.  Addresses
  beyond the storage are given in `resize`, where the storage becomes smaller between two calls.

## 3. What is checked

Passing runs.  All check deadlock: some step is always possible.

| Run | Instance | Operations | Properties | Shows |
|---|---|---|---|---|
| `records` | 2 macroblocks of 3 pages, 2 keys, records of 1 and 2 pages, no faults; addresses 0 (a header), 2, 4 and 5 (the last page) | all but find | `TypeOK`, `SaveStores`, `DeleteRemoves`, `TablesCoverRecords`, `LoadWhole`, `StatusesExact`, `GuardExact`, `KeepsPromise` | replies are true, tables list every page, and the library implements `RecordStore` |
| `crash` | same geometry, ids 0 and 2 (the largest) under one prefix, id 1 under another, records of 2 pages within a macroblock, 2 values, two losses of power that tear pages of data | save, delete, find | `FoundOnce`, `KeepsWithin`, `FindInBounds`, `FindEmptyExact`, `CutsAreClean`, `KeepsPromise` | nothing is written over a page listed under another key; tables list no page of a record that is not complete; what a key gives after a restart is one save or none, and never a mixture of two; find answers the key of its mode, but for the ids it starts with |
| `torn` | same geometry, records of 1, 3 and 4 pages (the whole storage), one loss of power that may tear headers too | save, rewrite, delete, clear | `SaveStores`, `DeleteRemoves`, `WritesErased`, `BatchFits` | calls after the loss do what they say, on tables rebuilt from whatever is left; the two loops of `rewrite` choose the same pages, in batches within a sector |
| `busy` | same geometry, records within a macroblock, one busy period that starts and ends anywhere | save, delete, load, clear, format | `OthersUntouched` | a save or delete that fails with BUSY, and the undo of a save, leave other records alone |
| `faults` | 1 macroblock of 5 pages, 2 of them header copies, 2 pages may wear, one may decay, one busy period, one key | save, find, load, clear, format | `ChainsForward`, `LoopsBounded`, `SearchForward`, `CallReturns`, `CallsAdvance` | bounds and order survive failures, every call returns, and none of its loops takes a step back |
| `resize` | 8 pages in macroblocks of 4, of which the library uses all or 7 (one macroblock, a header and two pages after it), two prefixes | setPagesCount, save, delete, load, clear; addresses 3, 5, 6, and 7, which is beyond the small size | `ResizeStores`, `PayloadExact`, `ResizeKeepsOthers` | no size set between two calls costs a record of another key, and what is saved is found, and nothing else, at the size in use |
| `upgrade` | 4 drives of version 5; two busy periods, each of which may be a refused repair, and one loss of power that tears pages of data, the one that is being upgraded among them | save, delete, load | `LoadWhole`, `UpgradeKeepsPromise` | the upgrade is invisible in the records, but for the one whose page is torn in it |

**Bounds, and why they are enough.**  Two macroblocks are needed for a record that crosses from
one to another, for a header that is replaced by another in the loop of `rewrite`, and for the
header page between them.  Two keys are needed for one record to harm another; a third would be
another "other".  In `crash` there are three, for the searches: the ids that they start with, 0 and
the largest, are under one prefix, and the one between them is under the other, so that a search
must pass over a prefix that does not match and over ids that do not.  Two-page records have a
first and a last page and a link between them; three- and four-page records (`torn`) have pages
with neither role.  Four pages of data and two records of two pages fill the storage, so that "no
empty page" happens.  Sectors of two pages do not line up with macroblocks of three, so batches end
in their middle and at their end.  One busy period and two worn pages each happen at every point;
two losses of power (`crash`) may both fall in the calls for one key.  Values are one in the runs
where only keys and parts are told apart, and two in `crash`, where all records have two pages so
that any mixture of two saves shows.  `faults` has one key, because its properties are about
addresses alone.  In `resize` the smaller size ends inside the second macroblock, so that the same
page is one a search looks at, or one of the pages after the last whole macroblock; there are two
of these, so that a record may be saved at one of them when an older one of its key is at the
other.  The drives of `upgrade` are: records of two pages and of one in different macroblocks, a
full drive, a record beside the stale pages of a deleted one, and a drive that lost a header and
lists one-page records only.

**Symmetry.**  `crash` takes states that differ by an exchange of the two values as one, and
`resize` those that differ by an exchange of the two prefixes.  Both are sound: no definition of
the instance chooses one of them by name, what a client may ask for is closed under the exchange,
and neither run checks liveness.  (`FindKeys` of `crash` does choose a prefix, which is why only
the values are exchanged there.)

**Tearing.**  In `crash` a loss of power tears pages of data, never a header page (`Tearable`).
In `torn` any page is torn: then records are lost, and `KeepsPromise` and `FoundOnce` fail, since
a table is rebuilt from stale pages too.  What does hold is that the calls after the restart do
what they say.  That no record is *lost* by a crash therefore assumes that the drive writes a
header page, of 256 bytes, atomically.

**Records over two macroblocks.**  They are committed by one save of a header per macroblock.
`crash` and `busy` give their clients addresses from which a record stays in a macroblock; the
run `crash_save` below shows what is wrong with the others.  A loss of power is not needed for it:
a drive that turns busy between the two saves of headers, and stays so through the delete that
undoes the save, leaves the same state, and `OthersUntouched` is false there as well.  Without
faults such records are in `records`, and with a torn header in `torn`.

**What is left out of a run because the code fails there.**  `crash` and `resize` give no
`rewrite` to their clients; `busy` says nothing of the status of a delete; `SaveStores` and
`DeleteRemoves` are checked on drives without worn pages; `UpgradeKeepsPromise` says nothing
of steps after a busy period began; `FindInBounds` leaves out the ids that the searches start
with.  The lists below say what happens there.

**Fairness.**  `WF_vars(Library)`: a call that can take a step takes one.  The library is a
thread that runs; it never waits for the drive, which always answers, with BUSY if need be.
Nothing is assumed of the drive, of the client, or of which alternative is taken: `CallReturns`
holds even on a drive that stays busy for ever.

**The end of every call.**  `CallReturns` says that a call ends; `CallsAdvance` says why, of every
step.  `Left` is seven numbers: the stage of the call, the rounds its loop has left, the points
left of a round, then the macroblocks, points and pages that a search or a delete inside it has
left, then the copies left of a header inside that.  A step of the call makes the first of them
that changes smaller; a step of the drive changes none.

**Mutants.**  Each property has a mutated form of one operator of the model, named in
`PROJECT.json` and kept beside the operator with a comment ("Mutant: ..."), under which TLC finds
the property violated.

### Where the code differs from its documentation

Each run checks one statement of the documentation, and TLC finds the shortest behaviour against
it.

| Run | What the code does |
|---|---|
| `end_address` | `findEndAddress` loads the page it ended at *as a start page*, which fails for all records of two pages or more; a rebuilt table forgets them |
| `clear_other` | `clearAddress` of a stale page deletes the record that now has its key, elsewhere |
| `erase_failed` | after an erase failed, `rewrite` goes on to erase address 0, a header |
| `find_ids` | `FIND_MODE_MAX` never answers with id 0, and `FIND_MODE_MIN` and `FIND_MODE_NEXT` never with the largest id: a search starts with that id and takes only what is beyond it, and answers `STORAGE_NOT_FOUND` with the record in place |
| `crash_save` | power lost between the two header saves of a record over two macroblocks leaves it whole and found, with a page that a save of another key may overwrite |

Also met while modelling, in `StorageData.cpp` unless another file is named; the model does what
the code does in each, and no run is kept for it:

* `load` of more bytes than a one-page record holds deletes the record (line 56): the end of a
  chain is compared only after a link was followed.
* A save to a full storage answers `STORAGE_NOT_FOUND`, not `STORAGE_OOM` (line 140).
* `clearAddress` of a page outside any chain goes on with address 0, whose key is that of zeros;
  deleting it frees the units that were blocked before they held a record (line 302).
* Pages after the last whole macroblock can be saved to and are never found at that size
  (`StorageMacroblock.cpp:29`), though `getPayloadPagesCount` counts them.
* A save at a small size leaves an older record of its key in the pages after the last whole
  macroblock, since the delete does not come there.  At the large size both are listed, and
  `find` answers the one at the lower address, which may be the old one.
* A save that meets a worn page of data after its first page answers OK for a record that cannot
  be loaded: the part goes to the next page, but the page before is written already, with a link
  to the one that is blocked (line 256).  No run checks what OK means there.
* When the last page of a record is blocked and no page after it is empty, the write goes on at the
  address after it (line 205), whatever is there: at the end of a macroblock a page of the record
  replaces the header of the next one.  `faults` has one macroblock, where the loop ends instead.
* A save whose last header could not be written returns OK (line 280).
* `format` returns OK when the header and the pages of a macroblock could not be emptied
  (`StorageAT.cpp:143`).
* Power lost in a `rewrite` over a record of another key leaves that key leading to the new
  record until it is saved again (line 248).
* A delete that was answered BUSY when it saved a header, and again when it loads the pages,
  returns OK with the record in place (line 330).
* When the write of `Page::repair` is refused (`StoragePage.cpp:251`) and the read after it is not,
  the page counts as one that does not validate for that load: a header rebuilt at this moment
  lists such pages as empty, a table whose header was refused forgets records longer than a page,
  and a load of such a record deletes it.  When the read is refused too (line 252) the page counts
  as upgraded, and the drive still holds the old version.  A torn write of an upgrade loses the
  record, as it is written in place.
* After a loss of power between two header saves, a save at a smaller size may also reuse the
  pages of the record that spans the macroblocks.

## 4. What is proved

The theorems are for all values of the constants that satisfy the named assumptions: a
macroblock has at least one header copy and one page of data, the storage at least one
macroblock, and the pages after the last whole macroblock are none or more than a header
(`GeometryAssumption`, `TailAssumption`); model values are distinct from data
(`DataAssumption`, `NoneAssumption`, `BadAssumption`, `MisreadAssumption`); fault bounds are
numbers and the client's arguments are in range (`FaultAssumption`, `ClientAssumption`).  Any
number of macroblocks, of header copies, of pages, keys and values, any length of records up to
`MaxLen`, any bound on the faults.

| Module | Theorems |
|---|---|
| `StorageATProofs` | `AddressRoundTrip`: address, macroblock and index determine each other, and a page of data is never a header page; `TypeCorrect`: `Spec => []TypeOK`; `LinksForward`: `Spec => []ChainsForward`; `LoopsStayInside`: `Spec => []LoopsBounded`; `SearchesGoForward`: `Spec => []SearchForward`; `BatchStaysInSector`: `Spec => []BatchFits`; `CallsGoForward`: `Spec => CallsAdvance`; `CallsAreFinite`: what a call has left is always seven natural numbers, and no sequence of such goes down for ever |
| `StorageBytesProofs` | `StatusesAreExact`: `Spec => []StatusesExact`; `GuardIsExact`: `Spec => []GuardExact` |
| `StorageResizeProofs` | `PayloadIsExact`: `ResizeSpec => []PayloadExact`, for every smaller size |
| `StorageHealthyProofs` | `DeletedIsGone`: `Spec => [](Healthy => DeleteRemoves)` |
| `StorageFindProofs` | `FoundIsRight`: `Spec => [](Healthy => FindInBounds)` |
| `StorageWriteProofs` | `WrittenPagesAreErased`: `Spec => [](Healthy => WritesErased)` |
| `StorageRecordProofs` | `SavedIsStored`: `Spec => [](Healthy /\ call.len > 0 /\ MacroblockIndex(call.addr) \in Searched => SaveStores)`: for records of a page or more (a record of no page is none) that start in a whole macroblock (no search finds one after the last); `EmptyIsRight`, `KeyIsFoundOnce`, `LoadedIsWhole`, `RecordsAreCovered`: `Spec => [](Uncut => P)` for `FindEmptyExact`, `FoundOnce`, `LoadWhole`, `TablesCoverRecords` |
| `StoragePromiseProofs` | `OthersAreKept`: `Spec /\ CleanLosses => OthersUntouched`; `RecordsSurviveCuts`: `Spec /\ CleanLosses => [](FoundOnce /\ TablesCoverRecords /\ LoadWhole /\ FindEmptyExact)`; `PromiseIsKept`: `Spec /\ CleanLosses => KeepsPromise`, the refinement of `RecordStore`, for clients that fit (`ClientsFit`): their records have a page or more and start in a whole macroblock (the other ones are those `SavedIsStored` leaves out, for the same reasons), as those of `records` and `crash` do; `CutsAreCleanWithin`: `Spec /\ []Healthy /\ []KeepsWithin => CutsAreClean`, where no header can tear; `PromiseSurvivesCuts`: `Spec /\ []KeepsWithin => KeepsPromise`, where no header can tear and the bounds of all other faults are 0 (`NoFaults`), for clients that fit; `RecordsKeepWithin`: `Spec => []KeepsWithin`, in that setting, for clients that write by save only, records with room for them (`ClientsApart`); `PromiseToClients`: for these, `Spec` implies `KeepsPromise`, `CutsAreClean`, `OthersUntouched` and the four invariants of `RecordsSurviveCuts` |

Each module EXTENDS the one above it, but `StorageBytesProofs` and `StorageResizeProofs`,
which only need `StorageATProofs`, and `StorageHealthyProofs`, which needs neither of these two.
Invariants that no run needs by themselves are defined in the first module whose proofs use them.

**What is assumed of the drive.**  Nothing in the first three modules of the table: crashes,
torn pages, busy periods, worn pages and decay are steps of `Spec`.  The others are about a
drive that is
`Healthy`: never busy, with no worn page and no page that decayed, but losing power in any step
and tearing pages as often as it likes; what such losses leave is what the next calls start
from.  Without this the properties are false: a delete that is answered BUSY when it saves a
header, and again when it loads the pages, answers OK with the record in place, and a save whose
last header could not be written answers OK (section 3).

What is said of *all* records at once needs more, since not every loss of power leaves them in
order: a table rebuilt from the pages takes in stale ones (section 3, tearing), a record over two
macroblocks is listed in one table before it is in the other (`crash_save`), and a rewrite over a
record of another key that was cut leaves two keys for one page.  `Uncut` says that no power was
lost in the middle of a call.  `CleanLosses` excludes those three cases and nothing else: losses
of power may come at any point and as often as they like, and tear pages of data, but they leave
the header pages as they are and do not come, once a page of a record is written, between the
saves of the first and of the last header that list it, nor while its rewrite has taken a page
listed under another key (`CleanCut`).  Behaviours that are `Uncut` are a special case
(`UncutIsClean`).

Where no header can tear, the last two happen only to records over two macroblocks and to rewrites
over another key: `CutsAreCleanWithin` proves that losses of power are clean as long as what is
written keeps to the macroblock of the header in use and to pages that are not listed under another
key: neither the one at the address of the call, nor the one to be written next (`KeepsWithin`, of
every state).  That is a fact about clients: `RecordsKeepWithin` proves it
for those that call no `rewrite` and save at addresses with room for the pages of every length they
ask for, before the next address and before the end of the macroblock (`ClientsApart`).  They may
call every other operation, format included, and overwrite a record by one of another length.
So nothing is assumed of the states any more: `PromiseToClients` says that on the parameters alone
the library implements `RecordStore`, and its assumptions are those that the constants of `crash`
satisfy, at any size and with any number of losses.  Clients of `rewrite` are left out because
`KeepsWithin` is false of them: nothing in `rewrite` looks at whose page it is given.  The mutants
of `crash` show that the first of the two properties it checks, `KeepsWithin` and `CutsAreClean`,
is false once a save may take pages of other records, and the second once `rewrite` saves its
header earlier.  `busy` checks `OthersUntouched` with a busy drive too, which no theorem covers.

**The argument for chains and loops** (`StorageATProofs`).  None of the first two is inductive by
itself.  That `rewrite` writes a page with links that lead forward (`ChainsForward`) needs that
the page it is at lies between its neighbours; this comes from the search for the next page,
which starts at the page after it, and from a search never going back (`SearchForward`).  The
page found is in the storage, and so is every address given to the drive (`TypeOK`), because the
loops have not ended at the points inside them (`LoopsBounded`), and by the arithmetic.  The
conjunction of the four, `IInv`, is inductive: one lemma per action shows that it is preserved,
and `NextIInv` combines them.  The lemmas about pieces of steps (`SearchStep`, `DeleteStep`,
`EraseMoreStep`, `TargetedStep`, `SavePageStep`, ...) are cited by the steps that share them.
`QuietStep` covers the steps to points that `LoopsBounded` and `SearchForward` say nothing of.

**The argument for batches.**  Nothing in the code compares the count of `eraseAddrs` with its
size.  The array does not overflow because its pages go up within one sector: each is found by a
search that starts after the last one (`s.from = w.erase + 1`) and never goes back
(`SearchForward`), and joins the array only if it is in the sector of the last one.  So the array
is no longer than the place of its last page in the sector: that is `BatchInSector`, inductive
together with `IInv`; `LaterInSector` is the lemma on the sectors.

**The argument for the end of every call** (`StorageATProofs`).  There is a lemma for each
function of the code, and what is not plain in them is that two of its loops end.  The loop of
`rewrite` has no bound on the pages it tries: it ends because a page that cannot be written is
blocked and the loop goes on to the page its search found, which is later (`SearchForward`), so that
the addresses ahead of it become fewer with every round, written or not.  The loop of `load` ends
because the page it goes on to is one of data whose link again leads to a page of data that is not
before it (`LinksToData`): links of data lead ahead, and never to a header page, whose link could
lead back.  That is one more invariant: a page is written with the address of a page that a search
returned (`FoundInData`), or with its own, and the drive can take a page but not change a link.
`CallsAreFinite` adds that the seven numbers are natural ones, by `LoopsBounded`, and that the
order is well-founded, by the theorems of the library on lexicographic orders.

**The argument for bytes.**  A byte is four codes (`FourIsByte`); setting one changes its term
and no other (`SetStatusInByte`), pages of one byte have different places in it
(`PlacesDiffer`), and every table has bytes, given page by page (`TableHasBytes`).  For the
guards, the bytes of a length of n pages are those from 234 (n - 1) + 1 to 234 n, and the
comparison with the storage is linear in them once n is at most eleven (`Refused`,
`AdmittedSome`).  Both theorems follow from `TypeCorrect`.

**The argument for the count of payload pages** (`StorageResizeProofs`).  `NthPage` numbers the
pages of data in order of address; a page of data is before the end of the storage just when its
number is below the count (`NthPageIsCounted`), by comparing macroblocks first, so that `NthPage`
is a bijection from the numbers below the count to the pages of data.

**The argument for deletes** (`StorageHealthyProofs`).  The invariant is `DeleteClears`: the
macroblocks that the loop of `deleteData` has passed list no page under the key (`NoRecord`), and
the header about to be saved does not either.  A header that is on the drive stays what it is
when another is saved, and saving it makes it the one the next search uses, because a copy is
saved only once the ones before it are refused (`MemLayout`, `Layout`: header pages hold tables,
and pages of data never load as headers).

**The argument for find** (`StorageFindProofs`).  `FindPasses` says what a search has seen: in the
macroblocks it has passed and in the units of the header it is at, none of the keys its mode asks
for is better than its result, and the result is found at its address.  At the end nothing is
left to pass, so the result is the answer of the reference definition `Answers`: the key that the
documentation of the mode names (`Searches`), unless its id is the one the search starts with.
That the code leaves this id out is the finding of `find_ids`; the theorem says that it leaves out
nothing else.

**The argument for writes** (`StorageWriteProofs`).  The two loops of `rewrite` agree because both
are determined by the tables: the page a search for EMPTY returns is the next one that the tables
list so (`EmptySearch`).  The erasing loop takes a rising sequence of pages, `Erases(p)`; the
writing loop saves headers between its searches, but what it changes in them is the status of
pages it has written, all before the one it searches from, so it takes the same sequence
(`WritePlan`), and what is at its pages is what the erase has left.  `HeadersThere` and
`HeaderIsTable` say that every macroblock they look at has a header, and that the header in
memory is the table on the drive.

**The argument for saved records** (`StorageRecordProofs`).  `WritePlan` also says that the pages
written so far hold the parts in order and that the tables list these under the key and no other
page, so that at the end the call has `Written(p)` for some sequence of pages p
(`RecordWritten`).  What `Stored` reads off the drive is defined by recursion over hops; that it
is `p` is proved by counting the hops down from the last page (`CountDown`, `RecordTail`,
`RecordChain`, `RecordContent`), without induction over data: the recursive function is unfolded
a step at a time (`HopValue`).

**The argument for all records.**  While no call is cut short the pages listed under a key form
one record, but for the key being written: the pages that are listed under a key and hold it
(`Held`) lead on to each other part by part (`PagesLead`), only one of them is a start
(`OneStart`), pages are listed under the key they hold (`KeysAgree`), and no page is listed
before all macroblocks have a header (`HeadersFirst`).  `TablesShrink` and `TakesEmpty` say what
the operations change: a delete removes units of its key, format all, and a rewrite writes, after
its first page, only pages that are listed as empty.  `RecordsWhole` is their conjunction,
inductive in `RInv` with the invariants above; `LoadFollows` and `EmptyAnswer` are its companions
for `load` and for `find`.

**The argument for other records** (`StoragePromiseProofs`).  `TakesOwn`: a save goes on past its
guard only at an address that is listed under its own key or none, what it erases is that address
and pages listed as empty, and what undoes it is a delete of its own key.  Then a step that
changes the drive changes neither the units of another key nor the pages in its chain, which are
all listed under it (`ChainIsHeld`), and chains on the same pages are the same (`SameHops`).

**The argument for the promise** (`StoragePromiseProofs`).  The refinement maps each step of the
library to `Begin`, `Step`, `End` or a stutter (`CallGoesOn`, `StepPromised`), and a loss of power
to `Abort` (`CutPromised`).  That such a step is `Allowed` is shown page by page.  At
every point of every call the pages of a key, but the one being written and one whose place a
rewrite is taking (`CleanKeys`), are `Clean`: they have one start, and the key is found there and
nowhere before.  Hence a record that loses pages in a step is kept as it is or
gone as a whole: without its start it is not found, and a chain that is complete on the pages left
is the chain it was (`KeptOrGone`, by `SameWholeHops`).  It is gone only if a page of its own is
(`KeptUnless`).  `StepSpares` says which pages a step may take: a save or delete those of its
key, a rewrite also the page at its address, load and clear those of the one key they delete.
The chain being written has no end before its last page is (`WritingBreaksOff`), so its key has no
record at all or the one that was asked for (`OwnSaved`).  The statuses are justified by what is
true where they are set: `NamesCall` and `PlainCalls` tie the call to the point it is at,
`EmptyHanded` says that a write that answers NOT_FOUND leaves no page of its key in any table and
that format leaves none at all, and `StartsFirst` that the start of a record is its first page.
These four with the invariants above are `PInv`, which is inductive.

**The argument for losses of power** (`StoragePromiseProofs`).  All that a call knows is lost
(`CutForgets`), so only what is on the drive matters, and of that a clean loss takes just pages
that were being erased (`CutTears`: a page that is written has been erased before).  These are
pages of the call's own key, the page at the address of a rewrite, and pages that no table lists
as taken (`CutSpares`).  What has to be seen is that the pages of the key in progress are those of
one record in the state that is left, where nothing excepts it any more: while `rewrite` writes,
no table lists them, or all are written and lead on to each other (`LeadsAtCut`); the losses that
are not clean are those in between.  From there the order of all records carries over
(`CutLeads`, `CutAgrees`, `CutInOrder`), and a record that lost a page is gone as a whole
(`CutKeeps`), as it is for any other step.

That losses are clean where records keep to a macroblock is an invariant of its own, `ListedLast`:
the delete has cleared the tables of the key, and no header is saved before the last page, since
`rewrite` saves one only to load that of another macroblock (`NextSwitch`, `NextUnlisted`).

That records of clients that save apart do keep to a macroblock needs two more.  `Apart`: a table
lists a page as empty, or under the key of the first page of the one record that may take it; a
delete clears the pages of that record together, and a table that is created or formatted is all
empty.  `InARow`: the page `rewrite` is at is the address of the call plus the pages written.  The
next page is always the next empty one, since no other record may take it, and one of the same key
has been deleted and is not listed before all pages are written (`ListedLast`).  So every page has
the header of the first, and is listed as empty until all are written (`OwnUnlisted`).

Every part of these invariants was checked by TLC as an invariant on small instances before it
was proved.

**Only model-checked.**  `CallReturns` is liveness.  What is proved of it is that no call goes on
without an end; what is left to TLC is that no call is stuck before its end, which is a matter of
ENABLED and of fairness, out of reach of the prover.

`ResizeStores` and `ResizeKeepsOthers` are about two sizes of one drive.  The proofs are about one:
for the smaller size `mem` has pages beyond the storage, so that even `TypeOK` is false of it, and
the larger size may find a macroblock without a header after the smaller one has saved a record.
They would need the modules stated over any drive that holds the storage, and the proofs again.

`UpgradeKeepsPromise` and `LoadWhole` across upgrades interleave the repair of pages with the walks
along chains, which are recursive functions of the drive: the proof that a walk on a half upgraded
chain is the walk on the one before it is by induction over data, out of reach as well.

## 5. Not modelled, and why

* CRC16, magic and version: only whether a page validates matters to the rest.
* `Header::validate`: it is called once no copy of a header could be loaded or saved, and both its
  answers lead to `STORAGE_HEADER_ERROR` there (a header is never partly outside the storage,
  `TailAssumption`).
* `getPayloadSize`: the count of payload pages times a constant.
* Additions that reach 2^32 in the guards: addresses and lengths of instances are far below.
* `isEmptyAddress` and `erasePage` of `StorageData.cpp`: nothing calls them.
* The upgrade of pages on a drive with worn pages.
* Request counters of the emulator, the build, the tests.

## 6. Plan

Done: the vocabulary, geometry, pages, drive, headers, search, records and API (every operation
of the library that changes the drive), the upgrade of pages, the change of the size, status bits
and guards in bytes; the abstract store and the refinement checked, also across upgrades; torn
headers; all invariants of `StorageProperties` and `StorageInvariants` proved, their action
properties, and the refinement of `RecordStore`, across losses of power and from assumptions on
the client's arguments alone; that no call goes on without an end.

What remains, in this order:

1. `ResizeStores` and `ResizeKeepsOthers`: the modules over a drive larger than the storage, and
   the invariants of section 4 at two sizes at once.
2. `OthersUntouched` on a busy drive, for records within a macroblock.
3. What a save on a drive with worn pages of data leaves of the records of *other* keys, over
   more than one macroblock.
4. The upgrade together with worn pages.
