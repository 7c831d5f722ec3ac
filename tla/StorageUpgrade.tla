---------------------------- MODULE StorageUpgrade ----------------------------
(***************************************************************************)
(* The library on a drive that version 5 of it has written.  Page::load    *)
(* upgrades a page of version 5 in place the first time it meets it        *)
(* (Page::repair), so the upgrade runs page by page under the calls of     *)
(* clients.                                                                *)
(*                                                                         *)
(* A page of version 5 is Bad in mem, its contents are in old: until it is *)
(* repaired it is a page that does not validate.  The pages that the next  *)
(* step of the library is about to load are repaired first, one by one.    *)
(* When the write of a repair is refused, the step goes on with what the   *)
(* read after it left in memory: the page as it is, which does not         *)
(* validate, or, when the read is refused too, the page as it was to be    *)
(* written.  A drive that is busy answers BUSY to the step before any page *)
(* is repaired.  Worn and decaying pages are not combined with the upgrade.*)
(***************************************************************************)
EXTENDS StorageProperties

CONSTANT Drives   \* the images a drive of version 5 may start with

ASSUME UpgradeAssumption ==
  Drives \subseteq Image /\ MaxWorn = 0 /\ MaxDecay = 0

VARIABLES
  old,     \* the pages of version 5: their contents, or Bad
  failed   \* the pages whose repair was refused at this point

OldPages == {a \in Addr : old[a] # Bad}

\* Those that a load would repair now.
Repairable == IF busy THEN {} ELSE OldPages \ failed

\* All the pages the drive holds, of either version, that can ever be loaded.
Held == [a \in Addr |-> IF a \in OldPages THEN old[a] ELSE mem[a]]

UpgradeInit == Init /\ old \in Drives /\ failed = {}

-----------------------------------------------------------------------------
(* The pages that the next step loads.                                     *)

\* findStartAddress, and findEndAddress: the pages of a walk, and the one it
\* breaks off at.
WalkBack(a) ==
  LET hop[n \in 0 .. PagesCount, b \in Addr] ==
        {b} \cup IF n = 0 \/ ~Readable(mem, b) \/ IsStart(mem, b) THEN {}
                 ELSE IF Linked(mem, b, mem[b].prev) THEN hop[n - 1, mem[b].prev]
                 ELSE {mem[b].prev}
  IN  IF a \in Addr THEN hop[PagesCount, a] ELSE {}

WalkAhead(a) ==
  LET hop[n \in 0 .. PagesCount, b \in Addr] ==
        {b} \cup IF n = 0 \/ ~Readable(mem, b) \/ IsEnd(mem, b) THEN {}
                 ELSE IF Linked(mem, b, mem[b].next) THEN hop[n - 1, mem[b].next]
                 ELSE {mem[b].next}
  IN  IF a \in Addr THEN hop[PagesCount, a] ELSE {}

\* Header::load: the copies up to the first that validates, or may once it is
\* repaired; and for Header::create, when none does, the walks from every page.
HeaderLoads(mb) ==
  LET loads == {i \in Copy : Readable(mem, HeaderAddress(mb, i))
                               \/ HeaderAddress(mb, i) \in Repairable}
  IN  {HeaderAddress(mb, i) : i \in {j \in Copy : \A k \in loads : j <= k}}
        \cup IF loads # {} THEN {}
             ELSE UNION {WalkBack(a) \cup WalkAhead(StartOfChain(mem, a)) :
                           a \in {PageAddress(mb, i) : i \in Index} \cap Addr}

\* The pages that Page::load is called for at this point.
Loads ==
  CASE pc = "h_load"  -> HeaderLoads(h.mb)
    [] pc = "h_save"  -> {HeaderAddress(h.mb, h.copy)}
    [] pc = "s_unit"  -> {PageAddress(s.mb, i) : i \in Least(Candidates)}
    [] pc = "d_saved" -> IF st = "OK" THEN {} ELSE {PageAddress(d.mb, i) : i \in Index}
    [] pc = "w_page"  -> {w.cur}
    [] pc = "v_check" -> IF h.page.toc[PageIndex(call.addr)].key = call.key
                         THEN WalkBack(call.addr) ELSE {}
    [] pc = "l_start" -> {call.addr} \ {a \in Addr : IsMacroblockAddress(a)}
    [] pc = "l_copy"  -> {l.page.next}
    [] pc = "c_start" -> WalkBack(call.addr) \ {a \in Addr : IsMacroblockAddress(a)}
    [] pc = "c_load"  -> {l.at}
    [] OTHER          -> {}

ToRepair == Loads \cap Repairable

-----------------------------------------------------------------------------

\* Mutant: the page is written with the links of a fresh Page.
RepairedAlone(a) == [old[a] EXCEPT !.prev = a, !.next = a]

\* The version is all that changes.
Repaired(a) == old[a]

\* Page::repair of a page that is about to be loaded, and the read that
\* follows it.
Repair(a) ==
  /\ a \in ToRepair
  /\ mem' = [mem EXCEPT ![a] = Repaired(a)]
  /\ old' = [old EXCEPT ![a] = Bad]
  /\ UNCHANGED <<busy, worn, spent, control, frames, failed>>

\* A repair that is refused, because the drive is busy, leaves the page as it is
\* on the drive; its status is not looked at.
RepairRefused(a) ==
  /\ a \in ToRepair
  /\ spent.busy < MaxBusy
  /\ spent' = [spent EXCEPT !.busy = @ + 1]
  /\ failed' = failed \cup {a}
  /\ UNCHANGED <<old, busy, worn, control, frames>>

\* The drive is ready again for the read: the page does not validate.
RepairFails(a) == RepairRefused(a) /\ UNCHANGED mem

\* The drive is busy for the read too: this step has the page as it was to be
\* written, and takes it for loaded.
RepairUnseen(a) == RepairRefused(a) /\ mem' = [mem EXCEPT ![a] = Repaired(a)]

\* Such pages are in mem for this one step.
Fading == {a \in OldPages \ failed : mem[a] # Bad}

Fade ==
  /\ Fading # {}
  /\ mem' = Erased(mem, Fading)
  /\ UNCHANGED <<busy, worn, spent, control, frames, old, failed>>

\* The pages that a step erases, when it does.
Erasing == CASE pc \in {"w_erase", "w_rest"} -> BatchPages
             [] pc = "d_erase" -> d.victims
             [] pc = "m_erase" -> FormatPages
             [] OTHER -> {}

\* The page that a step saves, when it does.
Saving == CASE pc = "h_save" -> {HeaderAddress(h.mb, h.copy)}
            [] pc = "w_page" -> {w.cur}
            [] OTHER -> {}

\* What a step leaves of the pages of version 5: those that are not gone and
\* that it did not write.
Overwrites(gone) ==
  old' = [a \in Addr |-> IF a \in gone \/ mem'[a] # mem[a] THEN Bad ELSE old[a]]

\* A step of the library, once no page it loads is left to repair.  A page that
\* held what was to be saved is repaired by the load after it.
LibraryUpgraded ==
  /\ ToRepair = {}
  /\ Library
  /\ Overwrites(IF busy THEN {}
                ELSE Erasing \cup IF st' = "OK" THEN Saving ELSE {})
  /\ failed' = {}

\* Power is lost, in the middle of the write of a page to repair if there is one.
CrashUpgrading ==
  /\ Crash
  /\ \/ /\ ToRepair # {} /\ UNCHANGED mem
        /\ \E torn \in {{}} \cup {{a} : a \in ToRepair \cap Tearable} :
             Overwrites(torn)
     \/ /\ ToRepair = {}
        /\ \E torn \in SUBSET {a \in InMutation \cap Tearable : mem'[a] = Bad} :
             Overwrites(torn)
  /\ failed' = {}

UpgradeNext ==
  \/ Fade
  \/ /\ Fading = {}
     /\ \/ (Request \/ Drive) /\ UNCHANGED <<old, failed>>
        \/ \E a \in Addr : Repair(a) \/ RepairFails(a) \/ RepairUnseen(a)
        \/ LibraryUpgraded
        \/ CrashUpgrading

UpgradeSpec == UpgradeInit /\ [][UpgradeNext]_<<vars, old, failed>>

-----------------------------------------------------------------------------

\* RecordStore, of the records on pages of both versions.
Upgraded ==
  INSTANCE RecordStore WITH
    Keys     <- ClientKeys,
    Requests <- Call,
    Idle     <- NoCall,
    store    <- [k \in ClientKeys |-> Stored(Held, k)],
    request  <- call,
    reply    <- IF pc = "done" THEN st ELSE "none"

\* Power is lost while a page is upgraded, and the page with it: every key has
\* the record it had, or had it on that page and has none.
TornUpgrade ==
  /\ spent'.crash > spent.crash
  /\ \E a \in ToRepair \cap Tearable :
       /\ old'[a] = Bad /\ mem'[a] = Bad
       /\ \A k \in ClientKeys :
            \/ Stored(Held', k) = Stored(Held, k)
            \/ a \in Stored(Held, k).pages /\ Stored(Held', k).pages = {}

\* The upgrade is invisible as long as no write of it is refused: whatever
\* pages have been upgraded so far, every step is one of RecordStore with the
\* records version 5 has left, unless power is lost in the write of a page.
UpgradeKeepsPromise ==
  [][spent.busy = 0 /\ spent'.busy = 0 =>
       Upgraded!Next \/ TornUpgrade]_(Upgraded!vars)
=============================================================================
