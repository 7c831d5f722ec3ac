-------------------------- MODULE StorageBytesProofs --------------------------
(***************************************************************************)
(* The bytes of a status table and of a length are what the other modules  *)
(* take them for, for every geometry of the storage.                       *)
(***************************************************************************)
EXTENDS StorageBytes, StorageATProofs

\* The byte of four codes.
Four(b0, b1, b2, b3) == b0 + 4 * b1 + 16 * b2 + 64 * b3

\* The place of the bits of a page in their byte.
Place(i) == i % ByteStatuses

\* Every byte holds four codes.
LEMMA Codes ==
  ASSUME NEW byte \in 0 .. 255
  PROVE  \E b0, b1, b2, b3 \in 0 .. 3 : byte = Four(b0, b1, b2, b3)
<1> DEFINE b0 == byte % 4
           b1 == (byte \div 4) % 4
           b2 == (byte \div 16) % 4
           b3 == byte \div 64
<1>1. b0 \in 0 .. 3 /\ b1 \in 0 .. 3 /\ b2 \in 0 .. 3 /\ b3 \in 0 .. 3
  BY SMT
<1>2. /\ byte = b0 + 4 * (byte \div 4)
      /\ byte \div 4 = b1 + 4 * ((byte \div 4) \div 4)
  BY SMT
<1>3. /\ (byte \div 4) \div 4 = byte \div 16
      /\ byte \div 16 = b2 + 4 * ((byte \div 16) \div 4)
      /\ (byte \div 16) \div 4 = b3
  BY SMT
<1> HIDE DEF b0, b1, b2, b3
<1>4. byte = Four(b0, b1, b2, b3)
  BY <1>1, <1>2, <1>3 DEF Four
<1> QED
  BY <1>1, <1>4

\* The bits of a page are at one of four places in their byte.
LEMMA Offsets ==
  ASSUME NEW i \in Nat
  PROVE  /\ Place(i) \in 0 .. 3
         /\ Place(i) = 0 => Offset(i) = 1
         /\ Place(i) = 1 => Offset(i) = 4
         /\ Place(i) = 2 => Offset(i) = 16
         /\ Place(i) = 3 => Offset(i) = 64
  BY DEF Offset, Place, ByteStatuses, StatusBits

\* Four codes make a byte.
LEMMA FourIsByte ==
  \A b0, b1, b2, b3 \in 0 .. 3 : Four(b0, b1, b2, b3) \in 0 .. 255
  BY DEF Four

\* getStatus reads the code at the place of the page: one lemma for each place.
LEMMA GetStatus0 ==
  \A b0, b1, b2, b3 \in 0 .. 3, i \in Nat :
    Place(i) = 0 => GetStatus(Four(b0, b1, b2, b3), i) = b0
<1> SUFFICES ASSUME NEW b0 \in 0 .. 3, NEW b1 \in 0 .. 3, NEW b2 \in 0 .. 3,
                    NEW b3 \in 0 .. 3, NEW i \in Nat, Place(i) = 0
             PROVE  GetStatus(Four(b0, b1, b2, b3), i) = b0
  OBVIOUS
<1>1. Four(b0, b1, b2, b3) \div 1 = b0 + 4 * (b1 + 4 * b2 + 16 * b3)
  BY DEF Four
<1>2. (b0 + 4 * (b1 + 4 * b2 + 16 * b3)) % 4 = b0
  BY SMT
<1>3. Offset(i) = 1
  BY Offsets
<1> QED
  BY <1>1, <1>2, <1>3 DEF GetStatus

\* The second code of a byte is the one read for a page at that place.
LEMMA GetStatus1 ==
  \A b0, b1, b2, b3 \in 0 .. 3, i \in Nat :
    Place(i) = 1 => GetStatus(Four(b0, b1, b2, b3), i) = b1
<1> SUFFICES ASSUME NEW b0 \in 0 .. 3, NEW b1 \in 0 .. 3, NEW b2 \in 0 .. 3,
                    NEW b3 \in 0 .. 3, NEW i \in Nat, Place(i) = 1
             PROVE  GetStatus(Four(b0, b1, b2, b3), i) = b1
  OBVIOUS
<1>1. Four(b0, b1, b2, b3) \div 4 = b1 + 4 * (b2 + 4 * b3)
  BY DEF Four
<1>2. (b1 + 4 * (b2 + 4 * b3)) % 4 = b1
  BY SMT
<1>3. Offset(i) = 4
  BY Offsets
<1> QED
  BY <1>1, <1>2, <1>3 DEF GetStatus

\* The third code of a byte is the one read for a page at that place.
LEMMA GetStatus2 ==
  \A b0, b1, b2, b3 \in 0 .. 3, i \in Nat :
    Place(i) = 2 => GetStatus(Four(b0, b1, b2, b3), i) = b2
<1> SUFFICES ASSUME NEW b0 \in 0 .. 3, NEW b1 \in 0 .. 3, NEW b2 \in 0 .. 3,
                    NEW b3 \in 0 .. 3, NEW i \in Nat, Place(i) = 2
             PROVE  GetStatus(Four(b0, b1, b2, b3), i) = b2
  OBVIOUS
<1>1. Four(b0, b1, b2, b3) \div 16 = b2 + 4 * b3
  BY DEF Four
<1>2. (b2 + 4 * b3) % 4 = b2
  BY SMT
<1>3. Offset(i) = 16
  BY Offsets
<1> QED
  BY <1>1, <1>2, <1>3 DEF GetStatus

\* The fourth code of a byte is the one read for a page at that place.
LEMMA GetStatus3 ==
  \A b0, b1, b2, b3 \in 0 .. 3, i \in Nat :
    Place(i) = 3 => GetStatus(Four(b0, b1, b2, b3), i) = b3
<1> SUFFICES ASSUME NEW b0 \in 0 .. 3, NEW b1 \in 0 .. 3, NEW b2 \in 0 .. 3,
                    NEW b3 \in 0 .. 3, NEW i \in Nat, Place(i) = 3
             PROVE  GetStatus(Four(b0, b1, b2, b3), i) = b3
  OBVIOUS
<1>1. Four(b0, b1, b2, b3) \div 64 = b3
  BY DEF Four
<1>2. (b3) % 4 = b3
  BY SMT
<1>3. Offset(i) = 64
  BY Offsets
<1> QED
  BY <1>1, <1>2, <1>3 DEF GetStatus

\* A byte with the bits of a page set reads as the code there, and as before
\* at the three other places (setStatus, getStatus).
LEMMA SetStatusInByte ==
  \A byte \in 0 .. 255, i \in Nat, code \in 1 .. 3 :
    /\ SetStatus(byte, i, code) \in 0 .. 255
    /\ GetStatus(SetStatus(byte, i, code), i) = code
    /\ \A j \in Nat : Place(j) # Place(i) =>
         GetStatus(SetStatus(byte, i, code), j) = GetStatus(byte, j)
<1> SUFFICES ASSUME NEW byte \in 0 .. 255, NEW i \in Nat, NEW code \in 1 .. 3
             PROVE  /\ SetStatus(byte, i, code) \in 0 .. 255
                    /\ GetStatus(SetStatus(byte, i, code), i) = code
                    /\ \A j \in Nat : Place(j) # Place(i) =>
                         GetStatus(SetStatus(byte, i, code), j) = GetStatus(byte, j)
  OBVIOUS
<1>1. PICK b0, b1, b2, b3 \in 0 .. 3 : byte = Four(b0, b1, b2, b3)
  BY Codes
<1>2. Place(i) \in 0 .. 3 /\ code \in 0 .. 3
  BY Offsets
<1>3. \A j \in Nat : Place(j) \in 0 .. 3
  BY Offsets
<1>4. CASE Place(i) = 0
  <2>1. GetStatus(byte, i) = b0
    BY <1>1, <1>4, GetStatus0
  <2>2. Offset(i) = 1
    BY <1>4, Offsets
  <2>3. SetStatus(byte, i, code) = Four(code, b1, b2, b3)
    BY <1>1, <2>1, <2>2 DEF SetStatus, Four
  <2>4. Four(code, b1, b2, b3) \in 0 .. 255
    BY <1>2, FourIsByte
  <2>5. GetStatus(Four(code, b1, b2, b3), i) = code
    BY <1>2, <1>4, GetStatus0
  <2>6. \A j \in Nat : Place(j) = 1 =>
          GetStatus(Four(code, b1, b2, b3), j) = GetStatus(byte, j)
    BY <1>1, <1>2, GetStatus1
  <2>7. \A j \in Nat : Place(j) = 2 =>
          GetStatus(Four(code, b1, b2, b3), j) = GetStatus(byte, j)
    BY <1>1, <1>2, GetStatus2
  <2>8. \A j \in Nat : Place(j) = 3 =>
          GetStatus(Four(code, b1, b2, b3), j) = GetStatus(byte, j)
    BY <1>1, <1>2, GetStatus3
  <2> QED
    BY <1>3, <1>4, <2>3, <2>4, <2>5, <2>6, <2>7, <2>8
<1>5. CASE Place(i) = 1
  <2>1. GetStatus(byte, i) = b1
    BY <1>1, <1>5, GetStatus1
  <2>2. Offset(i) = 4
    BY <1>5, Offsets
  <2>3. SetStatus(byte, i, code) = Four(b0, code, b2, b3)
    BY <1>1, <2>1, <2>2 DEF SetStatus, Four
  <2>4. Four(b0, code, b2, b3) \in 0 .. 255
    BY <1>2, FourIsByte
  <2>5. GetStatus(Four(b0, code, b2, b3), i) = code
    BY <1>2, <1>5, GetStatus1
  <2>6. \A j \in Nat : Place(j) = 0 =>
          GetStatus(Four(b0, code, b2, b3), j) = GetStatus(byte, j)
    BY <1>1, <1>2, GetStatus0
  <2>7. \A j \in Nat : Place(j) = 2 =>
          GetStatus(Four(b0, code, b2, b3), j) = GetStatus(byte, j)
    BY <1>1, <1>2, GetStatus2
  <2>8. \A j \in Nat : Place(j) = 3 =>
          GetStatus(Four(b0, code, b2, b3), j) = GetStatus(byte, j)
    BY <1>1, <1>2, GetStatus3
  <2> QED
    BY <1>3, <1>5, <2>3, <2>4, <2>5, <2>6, <2>7, <2>8
<1>6. CASE Place(i) = 2
  <2>1. GetStatus(byte, i) = b2
    BY <1>1, <1>6, GetStatus2
  <2>2. Offset(i) = 16
    BY <1>6, Offsets
  <2>3. SetStatus(byte, i, code) = Four(b0, b1, code, b3)
    BY <1>1, <2>1, <2>2 DEF SetStatus, Four
  <2>4. Four(b0, b1, code, b3) \in 0 .. 255
    BY <1>2, FourIsByte
  <2>5. GetStatus(Four(b0, b1, code, b3), i) = code
    BY <1>2, <1>6, GetStatus2
  <2>6. \A j \in Nat : Place(j) = 0 =>
          GetStatus(Four(b0, b1, code, b3), j) = GetStatus(byte, j)
    BY <1>1, <1>2, GetStatus0
  <2>7. \A j \in Nat : Place(j) = 1 =>
          GetStatus(Four(b0, b1, code, b3), j) = GetStatus(byte, j)
    BY <1>1, <1>2, GetStatus1
  <2>8. \A j \in Nat : Place(j) = 3 =>
          GetStatus(Four(b0, b1, code, b3), j) = GetStatus(byte, j)
    BY <1>1, <1>2, GetStatus3
  <2> QED
    BY <1>3, <1>6, <2>3, <2>4, <2>5, <2>6, <2>7, <2>8
<1>7. CASE Place(i) = 3
  <2>1. GetStatus(byte, i) = b3
    BY <1>1, <1>7, GetStatus3
  <2>2. Offset(i) = 64
    BY <1>7, Offsets
  <2>3. SetStatus(byte, i, code) = Four(b0, b1, b2, code)
    BY <1>1, <2>1, <2>2 DEF SetStatus, Four
  <2>4. Four(b0, b1, b2, code) \in 0 .. 255
    BY <1>2, FourIsByte
  <2>5. GetStatus(Four(b0, b1, b2, code), i) = code
    BY <1>2, <1>7, GetStatus3
  <2>6. \A j \in Nat : Place(j) = 0 =>
          GetStatus(Four(b0, b1, b2, code), j) = GetStatus(byte, j)
    BY <1>1, <1>2, GetStatus0
  <2>7. \A j \in Nat : Place(j) = 1 =>
          GetStatus(Four(b0, b1, b2, code), j) = GetStatus(byte, j)
    BY <1>1, <1>2, GetStatus1
  <2>8. \A j \in Nat : Place(j) = 2 =>
          GetStatus(Four(b0, b1, b2, code), j) = GetStatus(byte, j)
    BY <1>1, <1>2, GetStatus2
  <2> QED
    BY <1>3, <1>7, <2>3, <2>4, <2>5, <2>6, <2>7, <2>8
<1> QED
  BY <1>2, <1>4, <1>5, <1>6, <1>7

-----------------------------------------------------------------------------

\* The byte and the place in it tell two pages of a macroblock apart.
LEMMA PlacesDiffer ==
  ASSUME NEW i \in Nat, NEW j \in Nat, i # j,
         i \div ByteStatuses = j \div ByteStatuses
  PROVE  Place(i) # Place(j)
  BY DEF Place, ByteStatuses, StatusBits

\* The byte of every page is one of the table.
LEMMA ByteOfPage ==
  ASSUME NEW i \in Index
  PROVE  i \in Nat /\ i < DataPages /\ i \div ByteStatuses \in 0 .. StatusesCount - 1
<1>1. DataPages \in Nat /\ i \in Nat /\ i < DataPages
  BY GeometryAssumption DEF DataPages, Index
<1> QED
  BY <1>1 DEF StatusesCount, ByteStatuses, StatusBits

\* A code is that of the status it stands for.
LEMMA CodesOfStatuses ==
  \A status \in {"OK", "EMPTY", "BLOCKED"} :
    /\ Code(status) \in 1 .. 3
    /\ \A code \in 0 .. 3 : code = Code(status) <=> StatusOf(code) = status
  BY DEF Code, StatusOf

\* What a page is set to is what the table has of it.
LEMMA SetPageStatusBytes ==
  \A bytes \in MetaStatuses, i \in Index, code \in 1 .. 3 :
    /\ SetPageStatus(bytes, i, code) \in MetaStatuses
    /\ GetStatus(SetPageStatus(bytes, i, code)[i \div ByteStatuses], i) = code
    /\ \A j \in Index \ {i} :
         GetStatus(SetPageStatus(bytes, i, code)[j \div ByteStatuses], j)
           = GetStatus(bytes[j \div ByteStatuses], j)
<1> TAKE bytes \in MetaStatuses, i \in Index, code \in 1 .. 3
<1> DEFINE at(j) == j \div ByteStatuses
           byte  == bytes[at(i)]
           new   == SetStatus(byte, i, code)
           all   == SetPageStatus(bytes, i, code)
<1>1. i \in Nat /\ i < DataPages /\ at(i) \in 0 .. StatusesCount - 1
  BY ByteOfPage
<1>2. byte \in 0 .. 255
  BY <1>1 DEF MetaStatuses
<1>3. ~ i >= DataPages
  BY <1>1, GeometryAssumption DEF DataPages
<1>4. all = [bytes EXCEPT ![at(i)] = new]
  BY <1>3 DEF SetPageStatus
<1> HIDE DEF byte, all
<1>5. /\ new \in 0 .. 255
      /\ GetStatus(new, i) = code
      /\ \A j \in Nat : Place(j) # Place(i) => GetStatus(new, j) = GetStatus(byte, j)
  BY <1>1, <1>2, SetStatusInByte, ZenonT(20) DEF new
<1> HIDE DEF new
<1>6. all \in MetaStatuses
  BY <1>1, <1>4, <1>5 DEF MetaStatuses
<1>7. ASSUME NEW j \in Index
      PROVE  GetStatus(all[at(j)], j) = IF j = i THEN code ELSE GetStatus(bytes[at(j)], j)
  <2>1. j \in Nat /\ at(j) \in 0 .. StatusesCount - 1
    BY ByteOfPage
  <2>2. all[at(j)] = IF at(j) = at(i) THEN new ELSE bytes[at(j)]
    BY <1>4, <2>1 DEF MetaStatuses
  <2>3. CASE j = i
    BY <1>5, <2>2, <2>3
  <2>4. CASE j # i /\ at(j) = at(i)
    <3>1. Place(j) # Place(i)
      BY <1>1, <2>1, <2>4, PlacesDiffer
    <3> QED
      BY <1>5, <2>1, <2>2, <2>4, <3>1 DEF byte
  <2>5. CASE j # i /\ at(j) # at(i)
    BY <2>2, <2>5
  <2> QED
    BY <2>3, <2>4, <2>5
<1> QED
  BY <1>6, <1>7 DEF all

\* Every two bits read as a code.
LEMMA GetStatusIsCode ==
  ASSUME NEW bytes \in MetaStatuses, NEW j \in Index
  PROVE  GetStatus(bytes[j \div ByteStatuses], j) \in 0 .. 3
<1> DEFINE byte == bytes[j \div ByteStatuses]
<1>1. j \in Nat /\ byte \in 0 .. 255
  BY ByteOfPage DEF MetaStatuses
<1>2. PICK b0, b1, b2, b3 \in 0 .. 3 : byte = Four(b0, b1, b2, b3)
  BY <1>1, Codes
<1>3. Place(j) \in 0 .. 3
  BY <1>1, Offsets
<1>4. /\ Place(j) = 0 => GetStatus(byte, j) = b0
      /\ Place(j) = 1 => GetStatus(byte, j) = b1
      /\ Place(j) = 2 => GetStatus(byte, j) = b2
      /\ Place(j) = 3 => GetStatus(byte, j) = b3
  BY <1>1, <1>2, GetStatus0, GetStatus1, GetStatus2, GetStatus3
<1> QED
  BY <1>3, <1>4

\* Setting the status of a page in the bytes of a header is setting it in the
\* table of statuses they stand for, whatever bytes these are.
LEMMA StatusesOfBytes ==
  ASSUME NEW bytes \in MetaStatuses, NEW i \in Index,
         NEW status \in {"OK", "EMPTY", "BLOCKED"}
  PROVE  /\ SetPageStatus(bytes, i, Code(status)) \in MetaStatuses
         /\ StatusTable(SetPageStatus(bytes, i, Code(status)))
              = [StatusTable(bytes) EXCEPT ![i] = status]
         /\ IsPageStatus(bytes, i, Code(status))
              <=> StatusTable(bytes)[i] = status
<1> DEFINE code == Code(status)
           all  == SetPageStatus(bytes, i, code)
           read(b, j) == GetStatus(b[j \div ByteStatuses], j)
<1>1. code \in 1 .. 3 /\ \A c \in 0 .. 3 : c = code <=> StatusOf(c) = status
  BY CodesOfStatuses
<1> HIDE DEF code
<1>2. /\ all \in MetaStatuses
      /\ \A j \in Index : read(all, j) = IF j = i THEN code ELSE read(bytes, j)
  <2>1. code \in 1 .. 3
    BY <1>1
  <2>2. all \in MetaStatuses
    BY <2>1, SetPageStatusBytes, ZenonT(20)
  <2>3. read(all, i) = code
    BY <2>1, SetPageStatusBytes, ZenonT(20)
  <2>4. ASSUME NEW j \in Index \ {i}
        PROVE  read(all, j) = read(bytes, j)
    BY <2>1, SetPageStatusBytes, ZenonT(20)
  <2> HIDE DEF all, read
  <2> QED
    BY <2>2, <2>3, <2>4
<1>3. read(bytes, i) \in 0 .. 3
  BY GetStatusIsCode
<1> HIDE DEF all
<1>4. StatusOf(code) = status
  BY <1>1
<1>5. StatusTable(all) = [StatusTable(bytes) EXCEPT ![i] = status]
  <2>1. \A j \in Index : StatusOf(read(all, j)) =
          IF j = i THEN status ELSE StatusOf(read(bytes, j))
    BY <1>2, <1>4
  <2> QED
    BY <2>1 DEF StatusTable
<1>6. IsPageStatus(bytes, i, code) <=> read(bytes, i) = code
  BY ByteOfPage DEF IsPageStatus
<1>7. StatusTable(bytes)[i] = StatusOf(read(bytes, i))
  BY DEF StatusTable
<1>8. IsPageStatus(bytes, i, code) <=> StatusTable(bytes)[i] = status
  BY <1>1, <1>3, <1>6, <1>7
<1>9. all \in MetaStatuses
  BY <1>2
<1> QED
  BY ONLY <1>5, <1>8, <1>9 DEF all, code

\* The byte of four codes, at each place of which a page has its own.
LEMMA FourReads ==
  \A c \in [0 .. 3 -> 0 .. 3], i \in Nat :
    GetStatus(Four(c[0], c[1], c[2], c[3]), i) = c[Place(i)]
<1> TAKE c \in [0 .. 3 -> 0 .. 3], i \in Nat
<1>1. c[0] \in 0 .. 3 /\ c[1] \in 0 .. 3 /\ c[2] \in 0 .. 3 /\ c[3] \in 0 .. 3
  OBVIOUS
<1>2. Place(i) \in 0 .. 3
  BY Offsets
<1>3. CASE Place(i) = 0
  BY <1>1, <1>3, GetStatus0
<1>4. CASE Place(i) = 1
  BY <1>1, <1>4, GetStatus1
<1>5. CASE Place(i) = 2
  BY <1>1, <1>5, GetStatus2
<1>6. CASE Place(i) = 3
  BY <1>1, <1>6, GetStatus3
<1> QED
  BY <1>2, <1>3, <1>4, <1>5, <1>6

\* Every table of statuses can be written in bytes: each byte takes the codes
\* of the four pages it is for.
LEMMA TableHasBytes ==
  ASSUME NEW table \in [Index -> {"OK", "EMPTY", "BLOCKED", "VOID"}]
  PROVE  \E bytes \in MetaStatuses : StatusTable(bytes) = table
<1> DEFINE code(i)  == IF i \in Index THEN Code(table[i]) ELSE 0
           codes(k) == [p \in 0 .. 3 |-> code(4 * k + p)]
           byte(k)  == Four(codes(k)[0], codes(k)[1], codes(k)[2], codes(k)[3])
           bytes    == [k \in 0 .. StatusesCount - 1 |-> byte(k)]
<1>1. \A i \in Nat : code(i) \in 0 .. 3
  BY DEF Code
<1>2. \A i \in Index : StatusOf(code(i)) = table[i]
  BY DEF Code, StatusOf
<1> HIDE DEF code
<1>3. \A k \in Nat : codes(k) \in [0 .. 3 -> 0 .. 3]
  BY <1>1
<1>4. \A k \in Nat, i \in Nat : GetStatus(byte(k), i) = code(4 * k + Place(i))
  <2> TAKE k \in Nat, i \in Nat
  <2>1. codes(k) \in [0 .. 3 -> 0 .. 3] /\ Place(i) \in 0 .. 3
    BY <1>3, Offsets
  <2>2. codes(k)[Place(i)] = code(4 * k + Place(i))
    BY <2>1
  <2> HIDE DEF codes
  <2>3. GetStatus(byte(k), i) = codes(k)[Place(i)]
    BY <2>1, FourReads
  <2> QED
    BY <2>2, <2>3
<1>5. bytes \in MetaStatuses
  <2>1. ASSUME NEW k \in 0 .. StatusesCount - 1
        PROVE  byte(k) \in 0 .. 255
    <3>1. k \in Nat
      BY <2>1
    <3>2. /\ codes(k)[0] \in 0 .. 3 /\ codes(k)[1] \in 0 .. 3
          /\ codes(k)[2] \in 0 .. 3 /\ codes(k)[3] \in 0 .. 3
      BY <1>3, <3>1
    <3> HIDE DEF codes
    <3> QED
      BY <3>2, FourIsByte
  <2> HIDE DEF byte
  <2> QED
    BY <2>1 DEF MetaStatuses
<1>6. ASSUME NEW i \in Index
      PROVE  StatusOf(GetStatus(bytes[i \div ByteStatuses], i)) = table[i]
  <2>1. i \in Nat /\ i \div ByteStatuses \in 0 .. StatusesCount - 1
    BY ByteOfPage
  <2>2. i = 4 * (i \div ByteStatuses) + Place(i) /\ i \div ByteStatuses \in Nat
    BY <2>1 DEF Place, ByteStatuses, StatusBits
  <2>3. bytes[i \div ByteStatuses] = byte(i \div ByteStatuses)
    BY <2>1
  <2> HIDE DEF bytes, byte
  <2>4. GetStatus(byte(i \div ByteStatuses), i) = code(i)
    BY <1>4, <2>1, <2>2
  <2> QED
    BY <1>2, <2>3, <2>4
<1>7. StatusTable(bytes) = table
  BY <1>6 DEF StatusTable
<1> QED
  BY <1>5, <1>7

\* Every table of contents that the library saves has bytes that stand for it,
\* and setPageStatus and isPageStatus, on whatever bytes do, are an assignment
\* to the table and a look into it, for every number of pages in a macroblock.
THEOREM StatusesAreExact == Spec => []StatusesExact
<1>1. TypeOK => StatusesExact
  <2> SUFFICES ASSUME TypeOK PROVE StatusesExact
    OBVIOUS
  <2> DEFINE table == StatusesIn(h.page.toc)
  <2>1. table \in [Index -> {"OK", "EMPTY", "BLOCKED", "VOID"}]
    BY DEF TypeOK, HeaderType, HeaderFrame, Page, Toc, Unit, StatusesIn
  <2> HIDE DEF table
  <2>2. BytesOf[table] = {bytes \in MetaStatuses : StatusTable(bytes) = table}
    BY <2>1 DEF BytesOf
  <2>3. BytesOf[table] # {}
    BY <2>1, <2>2, TableHasBytes
  <2>4. ASSUME NEW bytes \in BytesOf[table], NEW i \in Index,
               NEW status \in {"OK", "EMPTY", "BLOCKED"}
        PROVE  /\ SetPageStatus(bytes, i, Code(status))
                    \in BytesOf[[table EXCEPT ![i] = status]]
               /\ IsPageStatus(bytes, i, Code(status)) <=> table[i] = status
    <3>1. bytes \in MetaStatuses /\ StatusTable(bytes) = table
      BY <2>2
    <3> DEFINE next  == [table EXCEPT ![i] = status]
               after == SetPageStatus(bytes, i, Code(status))
    <3>2. next \in [Index -> {"OK", "EMPTY", "BLOCKED", "VOID"}]
      BY <2>1
    <3>3. /\ after \in MetaStatuses
          /\ StatusTable(after) = [StatusTable(bytes) EXCEPT ![i] = status]
          /\ IsPageStatus(bytes, i, Code(status)) <=> StatusTable(bytes)[i] = status
      BY <3>1, StatusesOfBytes
    <3> HIDE DEF after
    <3>4. StatusTable(after) = next
      BY <3>1, <3>3
    <3> HIDE DEF next
    <3>5. BytesOf[next] = {b \in MetaStatuses : StatusTable(b) = next}
      BY <3>2 DEF BytesOf
    <3>6. after \in BytesOf[next]
      BY <3>3, <3>4, <3>5
    <3> QED
      BY <3>1, <3>3, <3>6 DEF next, after
  <2> QED
    BY <2>3, <2>4 DEF StatusesExact, table
<1> QED
  BY <1>1, TypeCorrect, PTL

-----------------------------------------------------------------------------

\* The loop over payloads takes the pages of whole ones, and one for the rest.
LEMMA PagesOfLength ==
  ASSUME NEW len \in Nat \ {0}
  PROVE  /\ PagesTaken(len) \in Nat \ {0}
         /\ 234 * (PagesTaken(len) - 1) < len
         /\ len <= 234 * PagesTaken(len)
  BY DEF PagesTaken, PayloadSize, PageSize

\* The test for the end of the storage, in pages.
LEMMA OutOfStorageInPages ==
  ASSUME NEW a \in Addr, NEW len \in Nat
  PROVE  OutOfStorage(a * PageSize, len) <=> len >= 256 * (PagesCount - a)
  BY GeometryAssumption DEF OutOfStorage, PageSize, Addr

\* A record of n pages, of at most eleven, is refused for some length when its
\* pages do not fit, and for no other.
LEMMA Refused ==
  ASSUME NEW a \in Addr, NEW n \in 1 .. MaxLen
  PROVE  BeyondStorage(a, n) <=>
           \E len \in LengthsOf[n] : OutOfStorage(a * PageSize, len)
<1> DEFINE k    == PagesCount - a
           full == 234 * n
<1>1. k \in Nat \ {0} /\ a \in Nat /\ PagesCount = a + k
  BY GeometryAssumption DEF Addr
<1>2. n \in Nat \ {0} /\ n <= 11 /\ n <= MaxLen /\ MaxLen \in 0 .. 11
  BY DataAssumption
<1>3. LengthsOf[n] = {len \in 1 .. MaxLen * PayloadSize : PagesTaken(len) = n}
  BY DEF LengthsOf
<1>4. full \in LengthsOf[n]
  <2>1. full \in 1 .. MaxLen * PayloadSize
    BY <1>2 DEF PayloadSize, PageSize
  <2>2. PagesTaken(full) = n
    BY <1>2 DEF PagesTaken, PayloadSize, PageSize
  <2> QED
    BY <1>3, <2>1, <2>2
<1>5. full \in Nat /\ (OutOfStorage(a * PageSize, full) <=> full >= 256 * k)
  BY <1>2, OutOfStorageInPages
<1> HIDE DEF k
<1>6. BeyondStorage(a, n) => full >= 256 * k
  BY <1>1, <1>2 DEF BeyondStorage
<1>7. ASSUME NEW len \in LengthsOf[n], OutOfStorage(a * PageSize, len)
      PROVE  BeyondStorage(a, n)
  <2>1. len \in Nat \ {0} /\ PagesTaken(len) = n
    BY <1>2, <1>3 DEF PayloadSize, PageSize
  <2>2. len <= 234 * n
    BY <2>1, PagesOfLength
  <2>3. len >= 256 * k
    BY <1>7, <2>1, OutOfStorageInPages DEF k
  <2>4. n > k
    BY <1>1, <1>2, <2>1, <2>2, <2>3
  <2> QED
    BY <1>1, <1>2, <2>4 DEF BeyondStorage
<1> HIDE DEF full
<1> QED
  BY <1>4, <1>5, <1>6, <1>7

\* It is admitted for some length when its pages fit, or one of several is too
\* many, and for no other.
LEMMA AdmittedSome ==
  ASSUME NEW a \in Addr, NEW n \in 1 .. MaxLen
  PROVE  Admitted(a, n) <=>
           \E len \in LengthsOf[n] : ~OutOfStorage(a * PageSize, len)
<1> DEFINE k   == PagesCount - a
           one == 234 * (n - 1) + 1
<1>1. k \in Nat \ {0} /\ a \in Nat /\ PagesCount = a + k
  BY GeometryAssumption DEF Addr
<1>2. n \in Nat \ {0} /\ n <= 11 /\ n <= MaxLen /\ MaxLen \in 0 .. 11
  BY DataAssumption
<1>3. LengthsOf[n] = {len \in 1 .. MaxLen * PayloadSize : PagesTaken(len) = n}
  BY DEF LengthsOf
<1>4. one \in LengthsOf[n]
  <2>1. one \in 1 .. MaxLen * PayloadSize
    BY <1>2 DEF PayloadSize, PageSize
  <2>2. PagesTaken(one) = n
    BY <1>2 DEF PagesTaken, PayloadSize, PageSize
  <2> QED
    BY <1>3, <2>1, <2>2
<1>5. one \in Nat /\ (OutOfStorage(a * PageSize, one) <=> one >= 256 * k)
  BY <1>2, OutOfStorageInPages
<1> HIDE DEF k
<1>6. Admitted(a, n) => ~ one >= 256 * k
  BY <1>1, <1>2 DEF Admitted
<1>7. ASSUME NEW len \in LengthsOf[n], ~OutOfStorage(a * PageSize, len)
      PROVE  Admitted(a, n)
  <2>1. len \in Nat \ {0} /\ PagesTaken(len) = n
    BY <1>2, <1>3 DEF PayloadSize, PageSize
  <2>2. 234 * (n - 1) < len
    BY <2>1, PagesOfLength
  <2>3. ~ len >= 256 * k
    BY <1>7, <2>1, OutOfStorageInPages DEF k
  <2>4. n <= k + 1
    BY <1>1, <1>2, <2>1, <2>2, <2>3
  <2> QED
    BY <1>1, <1>2, <2>4 DEF Admitted
<1> HIDE DEF one
<1> QED
  BY <1>4, <1>5, <1>6, <1>7

\* The test for the end of the storage refuses a record only when its pages do
\* not fit, and admits at most one page too many; a model that refuses and
\* admits just what the code may leaves out no length and adds none, for
\* storages of every size and records of up to eleven pages.
THEOREM GuardIsExact == Spec => []GuardExact
<1>1. TypeOK => GuardExact
  <2> SUFFICES ASSUME TypeOK, call.len > 0
               PROVE  LET refused == {len \in LengthsOf[call.len] :
                                        OutOfStorage(call.addr * PageSize, len)}
                      IN  /\ BeyondStorage(call.addr, call.len) <=> refused # {}
                          /\ Admitted(call.addr, call.len) <=>
                               refused # LengthsOf[call.len]
    BY DEF GuardExact
  <2>1. call.addr \in Addr /\ call.len \in 1 .. MaxLen
    BY DataAssumption DEF TypeOK, DataType, Call
  <2>2. BeyondStorage(call.addr, call.len) <=>
          \E len \in LengthsOf[call.len] : OutOfStorage(call.addr * PageSize, len)
    BY <2>1, Refused
  <2>3. Admitted(call.addr, call.len) <=>
          \E len \in LengthsOf[call.len] : ~OutOfStorage(call.addr * PageSize, len)
    BY <2>1, AdmittedSome
  <2> QED
    BY <2>2, <2>3
<1> QED
  BY <1>1, TypeCorrect, PTL
=============================================================================
