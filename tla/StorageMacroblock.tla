-------------------------- MODULE StorageMacroblock --------------------------
(***************************************************************************)
(* The address arithmetic of a macroblock: Reserved copies of its header,  *)
(* then DataPages pages of data.                                           *)
(***************************************************************************)
EXTENDS StorageType

MacroblocksCount == PagesCount \div PerBlock

MacroblockAddress(mb)  == mb * PerBlock
MacroblockIndex(a)     == a \div PerBlock
IsMacroblockAddress(a) == a % PerBlock < Reserved

PageAddress(mb, i) == MacroblockAddress(mb) + Reserved + i

\* The index of a header page is that of the first page of data.
PageIndex(a) == IF IsMacroblockAddress(a) THEN 0 ELSE (a % PerBlock) - Reserved

Macroblock == 0 .. MacroblockIndex(PagesCount - 1)
DataAddr   == {a \in Addr : ~IsMacroblockAddress(a)}

\* The copies of the header of macroblock mb.
HeaderAddress(mb, i) == MacroblockAddress(mb) + i
Copy == 0 .. Reserved - 1

Sector(a) == a \div SectorPages
=============================================================================
