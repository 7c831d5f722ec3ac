------------------------- MODULE StorageResizeProofs -------------------------
(***************************************************************************)
(* The pages of data of a storage, in order, are as many as                *)
(* getPayloadPagesCount says: the k-th one is the page of index            *)
(* k % DataPages of macroblock k \div DataPages, and the last macroblock,  *)
(* if it is not whole, has those that its headers leave.                   *)
(***************************************************************************)
EXTENDS StorageResize, StorageATProofs, FiniteSetTheorems

\* The pages of data among the first pages of a drive.
DataPagesOf(pages) == {a \in 0 .. pages - 1 : ~IsMacroblockAddress(a)}

\* The k-th page of data.
NthPage(k) == PageAddress(k \div DataPages, k % DataPages)

\* Its macroblock and its index.
Block(k) == k \div DataPages
Place(k) == k % DataPages

\* They determine its address, and are determined by it.
LEMMA NthPageParts ==
  ASSUME NEW k \in Nat
  PROVE  /\ Block(k) \in Nat /\ Place(k) \in Nat /\ Place(k) < DataPages
         /\ k = Block(k) * DataPages + Place(k)
         /\ NthPage(k) = Block(k) * PerBlock + (Reserved + Place(k))
         /\ NthPage(k) \in Nat
         /\ NthPage(k) \div PerBlock = Block(k)
         /\ NthPage(k) % PerBlock = Reserved + Place(k)
<1>1. /\ Block(k) \in Nat /\ Place(k) \in Nat /\ Place(k) < DataPages
      /\ k = DataPages * Block(k) + Place(k)
  BY Geometry, DivMod DEF Block, Place
<1>2. DataPages * Block(k) = Block(k) * DataPages /\ Block(k) * PerBlock \in Nat
  BY <1>1, Geometry
<1>3. Reserved + Place(k) \in Nat /\ Reserved + Place(k) < PerBlock
  BY <1>1, Geometry DEF DataPages
<1>4. NthPage(k) = Block(k) * PerBlock + (Reserved + Place(k))
  <2>1. NthPage(k) = Block(k) * PerBlock + Reserved + Place(k)
    BY DEF NthPage, PageAddress, MacroblockAddress, Block, Place
  <2> QED
    BY <1>1, <1>2, <2>1, Geometry
<1>5. NthPage(k) \div PerBlock = Block(k) /\ NthPage(k) % PerBlock = Reserved + Place(k)
  <2>1. /\ (Block(k) * PerBlock + (Reserved + Place(k))) \div PerBlock = Block(k)
        /\ (Block(k) * PerBlock + (Reserved + Place(k))) % PerBlock = Reserved + Place(k)
    <3> DEFINE q == Block(k)
               r == Reserved + Place(k)
    <3>1. q \in Nat /\ r \in Nat /\ r < PerBlock /\ PerBlock \in Nat
      BY <1>1, <1>3, Geometry
    <3> HIDE DEF q, r
    <3>2. (q * PerBlock + r) \div PerBlock = q /\ (q * PerBlock + r) % PerBlock = r
      BY <3>1, DivUnique
    <3> QED
      BY <3>2 DEF q, r
  <2> QED
    BY <1>4, <2>1
<1>6. NthPage(k) \in Nat
  BY <1>2, <1>3, <1>4
<1>7. k = Block(k) * DataPages + Place(k)
  BY <1>1, <1>2
<1> QED
  BY <1>1, <1>4, <1>5, <1>6, <1>7

\* The pages of data of a drive are as many as getPayloadPagesCount says.
LEMMA NthPageIsCounted ==
  ASSUME NEW n \in Nat, NEW k \in Nat
  PROVE  k < PayloadPages(n) <=> NthPage(k) < n
<1> DEFINE q == n \div PerBlock
           r == n % PerBlock
           t == IF r > Reserved THEN r - Reserved ELSE 0
           x == Block(k)
           y == Place(k)
<1>1. /\ q \in Nat /\ r \in Nat /\ r < PerBlock /\ n = PerBlock * q + r
      /\ PerBlock * q = q * PerBlock
  BY Geometry, DivMod
<1>2. PayloadPages(n) = q * DataPages + t /\ t \in Nat /\ t < DataPages
  BY <1>1, Geometry DEF PayloadPages, DataPages
<1>3. /\ x \in Nat /\ y \in Nat /\ y < DataPages
      /\ k = x * DataPages + y
      /\ NthPage(k) = x * PerBlock + (Reserved + y)
  BY NthPageParts
<1>4. y < t <=> Reserved + y < r
  BY <1>1, <1>3, Geometry
<1> HIDE DEF q, r, t, x, y
<1>5. CASE x = q
  BY <1>1, <1>2, <1>3, <1>4, <1>5, Geometry
<1>6. CASE x < q
  <2>1. (x + 1) * DataPages <= q * DataPages /\ (x + 1) * PerBlock <= q * PerBlock
    BY <1>1, <1>3, <1>6, Geometry, ProductMonotone
  <2>2. (x + 1) * DataPages = x * DataPages + DataPages
        /\ (x + 1) * PerBlock = x * PerBlock + PerBlock
    BY <1>3, Geometry
  <2>3. x * DataPages \in Nat /\ x * PerBlock \in Nat
        /\ q * DataPages \in Nat /\ q * PerBlock \in Nat
    BY <1>1, <1>3, Geometry
  <2>4. k < q * DataPages + t
    BY <1>2, <1>3, <2>1, <2>2, <2>3, Geometry
  <2>5. Reserved + y < PerBlock
    BY <1>3, Geometry DEF DataPages
  <2>6. NthPage(k) < n
    BY <1>1, <1>3, <2>1, <2>2, <2>3, <2>5, Geometry
  <2> QED
    BY <1>2, <2>4, <2>6
<1>7. CASE q < x
  <2>1. (q + 1) * DataPages <= x * DataPages /\ (q + 1) * PerBlock <= x * PerBlock
    BY <1>1, <1>3, <1>7, Geometry, ProductMonotone
  <2>2. (q + 1) * DataPages = q * DataPages + DataPages
        /\ (q + 1) * PerBlock = q * PerBlock + PerBlock
    BY <1>1, Geometry
  <2>3. x * DataPages \in Nat /\ x * PerBlock \in Nat
        /\ q * DataPages \in Nat /\ q * PerBlock \in Nat
    BY <1>1, <1>3, Geometry
  <2>4. ~(k < q * DataPages + t)
    BY <1>2, <1>3, <2>1, <2>2, <2>3, Geometry
  <2>5. ~(NthPage(k) < n)
    BY <1>1, <1>3, <2>1, <2>2, <2>3, Geometry
  <2> QED
    BY <1>2, <2>4, <2>5
<1> QED
  BY <1>1, <1>3, <1>5, <1>6, <1>7

\* Every page of data has its place in the count.
LEMMA PageHasPlace ==
  ASSUME NEW a \in Nat, ~IsMacroblockAddress(a)
  PROVE  \E k \in Nat : NthPage(k) = a
<1> DEFINE x == a \div PerBlock
           y == (a % PerBlock) - Reserved
           k == x * DataPages + y
<1>1. x \in Nat /\ a % PerBlock \in Nat /\ a % PerBlock < PerBlock
      /\ a = PerBlock * x + (a % PerBlock)
  BY Geometry, DivMod
<1>2. y \in Nat /\ y < DataPages
  BY <1>1, Geometry DEF IsMacroblockAddress, DataPages
<1>3. k \in Nat /\ k \div DataPages = x /\ k % DataPages = y
  <2> HIDE DEF x, y
  <2>1. x * DataPages \in Nat
    BY <1>1, Geometry
  <2>2. DataPages \in Nat
    BY Geometry
  <2>3. (x * DataPages + y) \div DataPages = x /\ (x * DataPages + y) % DataPages = y
    BY <1>1, <1>2, <2>2, DivUnique
  <2> QED
    BY <1>2, <2>1, <2>3
<1>4. PerBlock * x = x * PerBlock
  BY <1>1, Geometry
<1>5. NthPage(k) = a
  <2>1. NthPage(k) = x * PerBlock + Reserved + y
    BY <1>3 DEF NthPage, PageAddress, MacroblockAddress
  <2> QED
    BY <1>1, <1>2, <1>4, <2>1, Geometry
<1> QED
  BY <1>3, <1>5

\* getPayloadPagesCount counts the pages of data, for every size.
LEMMA PayloadCount ==
  ASSUME NEW n \in Nat
  PROVE  PayloadPages(n) = Cardinality(DataPagesOf(n))
<1> DEFINE N == PayloadPages(n)
           S == 0 .. N - 1
           T == DataPagesOf(n)
           f == [k \in S |-> NthPage(k)]
<1>1. N \in Nat
  <2>1. n \div PerBlock \in Nat /\ n % PerBlock \in Nat
    BY Geometry, DivMod
  <2>2. (n \div PerBlock) * DataPages \in Nat
    BY <2>1, Geometry
  <2> QED
    BY <2>1, <2>2, Geometry DEF PayloadPages
<1>2. ASSUME NEW k \in S
      PROVE  f[k] \in T
  <2>1. k \in Nat /\ k < N
    BY <1>1
  <2>2. NthPage(k) \in Nat /\ NthPage(k) < n
    BY <2>1, NthPageIsCounted, NthPageParts
  <2>3. NthPage(k) % PerBlock = Reserved + Place(k) /\ Place(k) \in Nat
    BY <2>1, NthPageParts
  <2>4. ~IsMacroblockAddress(NthPage(k))
    BY <2>3, Geometry DEF IsMacroblockAddress
  <2> QED
    BY <2>2, <2>4 DEF DataPagesOf
<1>3. ASSUME NEW i \in S, NEW j \in S, f[i] = f[j]
      PROVE  i = j
  <2>1. i \in Nat /\ j \in Nat /\ NthPage(i) = NthPage(j)
    BY <1>1, <1>3
  <2>2. Block(i) = Block(j) /\ Reserved + Place(i) = Reserved + Place(j)
    BY <2>1, NthPageParts
  <2>3. Place(i) \in Nat /\ Place(j) \in Nat /\ Reserved \in Nat
    BY <2>1, NthPageParts, Geometry
  <2>4. Place(i) = Place(j)
    BY <2>2, <2>3
  <2> QED
    BY <2>1, <2>2, <2>4, NthPageParts
<1>4. ASSUME NEW a \in T
      PROVE  \E k \in S : f[k] = a
  <2>1. a \in Nat /\ a < n /\ ~IsMacroblockAddress(a)
    BY DEF DataPagesOf
  <2>2. PICK k \in Nat : NthPage(k) = a
    BY <2>1, PageHasPlace
  <2>3. k < N
    BY <2>1, <2>2, NthPageIsCounted
  <2> QED
    BY <1>1, <2>2, <2>3
<1> HIDE DEF N
<1>5. f \in Bijection(S, T)
  <2>1. f \in [S -> T]
    BY <1>2
  <2>2. \A i, j \in S : f[i] = f[j] => i = j
    BY <1>3
  <2>3. \A a \in T : \E k \in S : f[k] = a
    BY <1>4
  <2> HIDE DEF f, S, T
  <2> QED
    BY <2>1, <2>2, <2>3 DEF Bijection, Injection, Surjection, IsInjective
<1>6. IsFiniteSet(S) /\ Cardinality(S) = N
  BY <1>1, FS_Interval
<1> HIDE DEF f, S, T
<1>7. Cardinality(T) = Cardinality(S)
  BY <1>5, <1>6, FS_Bijection DEF ExistsBijection
<1> QED
  BY <1>6, <1>7 DEF N, T

\* The library uses one of two sizes.
LEMMA SizeIsKept == ResizeSpec => [](size \in {SmallCount, PagesCount})
<1>1. ResizeInit => size \in {SmallCount, PagesCount}
  BY DEF ResizeInit
<1>2. size \in {SmallCount, PagesCount} /\ [ResizeNext]_<<vars, size>> =>
        (size \in {SmallCount, PagesCount})'
  BY DEF ResizeNext, SetPagesCount
<1> QED
  BY <1>1, <1>2, PTL DEF ResizeSpec

\* getPayloadPagesCount (StorageAT.cpp) is the number of pages that are no header,
\* at whatever size setPagesCount has set.
THEOREM PayloadIsExact == ResizeSpec => []PayloadExact
<1>1. size \in {SmallCount, PagesCount} => PayloadExact
  <2> SUFFICES ASSUME size \in {SmallCount, PagesCount} PROVE PayloadExact
    OBVIOUS
  <2>1. size \in Nat
    BY Geometry, SmallAssumption
  <2> QED
    BY <2>1, PayloadCount DEF PayloadExact, DataPagesOf
<1> QED
  BY <1>1, SizeIsKept, PTL
=============================================================================
