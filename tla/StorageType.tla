----------------------------- MODULE StorageType -----------------------------
(***************************************************************************)
(* The vocabulary of StorageAT: the geometry of the storage, the statuses  *)
(* of the library, keys, pages and the table of contents of a macroblock.  *)
(*                                                                         *)
(* Addresses and lengths are counted in pages.  A data length of n pages   *)
(* stands for n full payloads (n * STORAGE_PAGE_PAYLOAD_SIZE bytes).       *)
(* CRC, magic and version are abstracted to one fact per page: it          *)
(* validates, or it is Bad.                                                *)
(***************************************************************************)
EXTENDS Integers, FiniteSets, Sequences

CONSTANTS
  PagesCount,   \* m_pagesCount: pages of the physical drive
  PerBlock,     \* StorageMacroblock::PAGES_COUNT: pages of a macroblock
  Reserved,     \* RESERVED_PAGES_COUNT: copies of its header, at its start
  SectorPages,  \* m_minEraseSize / STORAGE_PAGE_SIZE
  Prefixes,     \* the prefixes a client gives to its records
  Blank,        \* the prefix of zero bytes
  MaxId,        \* the largest id (0xFFFFFFFF)
  Values,       \* the contents a client saves
  Junk,         \* what a payload that is not user data reads as
  MaxLen,       \* bound: pages of the longest record a client saves (see StorageBytes)
  Bad,          \* a page that does not validate (erased, torn, decayed)
  Misread,      \* the table a payload of user data reads as
  None          \* no address

ASSUME GeometryAssumption ==
  /\ PagesCount \in Nat /\ PerBlock \in Nat /\ Reserved \in Nat
  /\ Reserved > 0
  /\ Reserved < PerBlock
  /\ PerBlock <= PagesCount
  /\ SectorPages \in Nat \ {0}

\* The pages left after the last whole macroblock are none, or hold at least
\* a whole header and one page of data.
ASSUME TailAssumption ==
  PagesCount % PerBlock = 0 \/ PagesCount % PerBlock > Reserved

ASSUME DataAssumption ==
  /\ MaxId \in Nat
  /\ MaxLen \in 0 .. 11
  /\ Blank \notin Prefixes
  /\ Junk \notin Values

Addr    == 0 .. PagesCount - 1
ASSUME NoneAssumption == None \notin Nat

Status == {"OK", "ERROR", "BUSY", "OOM", "NOT_FOUND", "DATA_EXISTS",
           "HEADER_ERROR"}

\* storage_at_data_success: a header that could not be written is no failure.
Success(st) == st \in {"OK", "HEADER_ERROR"}

Key     == [prefix : Prefixes \cup {Blank}, id : 0 .. MaxId]
NoKey   == [prefix |-> Blank, id |-> 0]
UserKey == [prefix : Prefixes, id : 0 .. MaxId]

DataPages == PerBlock - Reserved          \* Header::PAGES_COUNT
Index     == 0 .. DataPages - 1

\* A unit of the table: MetaUnit and the two status bits of the page.
Unit == [key : Key, st : {"OK", "EMPTY", "BLOCKED", "VOID"}]
Toc  == [Index -> Unit]

EmptyUnit   == [key |-> NoKey, st |-> "EMPTY"]
BlockedUnit == [key |-> NoKey, st |-> "BLOCKED"]
EmptyToc    == [i \in Index |-> EmptyUnit]

ASSUME MisreadAssumption == Misread \in Toc

\* One payload, two readings: as user data (val, the part of a record it
\* holds) and as a table of contents (toc).
Page == [key : Key, prev : Nat, next : Nat,
         val : Values \cup {Junk}, part : 0 .. MaxLen, toc : Toc]

DataPage(key, prev, next, val, part) ==
  [key |-> key, prev |-> prev, next |-> next, val |-> val, part |-> part,
   toc |-> Misread]

HeaderPage(toc) ==
  [key |-> NoKey, prev |-> 0, next |-> 0, val |-> Junk, part |-> 0,
   toc |-> toc]

ASSUME BadAssumption == Bad \notin Page

Image == [Addr -> Page \cup {Bad}]
=============================================================================
