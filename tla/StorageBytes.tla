----------------------------- MODULE StorageBytes -----------------------------
(***************************************************************************)
(* The bytes behind what the other modules count in pages and statuses:    *)
(* the two status bits of a page in the table of a header, and the test    *)
(* for the end of the storage.  Additions do not reach 2^32.               *)
(***************************************************************************)
EXTENDS StorageProperties

StatusBits   == 2                  \* STATUS_BITS_COUNT
ByteStatuses == 8 \div StatusBits  \* BYTE_STATUSES_COUNT

\* 1 << offset, for the offset of the bits of page i in their byte.
Offset(i) == LET k == i % ByteStatuses
             IN  CASE k = 0 -> 1 [] k = 1 -> 4 [] k = 2 -> 16 [] OTHER -> 64

\* PageStatus; zero is no status.
Code(status)       == CASE status = "OK" -> 1 [] status = "EMPTY" -> 2
                    [] status = "BLOCKED" -> 3 [] OTHER -> 0
StatusOf(code) == CASE code = 1 -> "OK" [] code = 2 -> "EMPTY"
                    [] code = 3 -> "BLOCKED" [] OTHER -> "VOID"

\* MetaStatus::getStatus.
GetStatus(byte, i) == (byte \div Offset(i)) % 4

\* Mutant: the bits are not masked out before those of the code are set.
SetStatusUnmasked(byte, i, code) ==
  LET was == GetStatus(byte, i)
  IN  byte + Offset(i) * (IF was = 0 THEN code
                          ELSE IF was = code THEN 0 ELSE 3 - was)

\* MetaStatus::setStatus: the two bits are masked out, and set to the code.
SetStatus(byte, i, code) ==
  byte + Offset(i) * (code - GetStatus(byte, i))

\* STATUSES_COUNT: the bytes that hold the statuses of a macroblock.
StatusesCount ==
  DataPages \div ByteStatuses + IF DataPages % ByteStatuses = 0 THEN 0 ELSE 1

\* metaStatuses: what these bytes can be.
MetaStatuses == [0 .. StatusesCount - 1 -> 0 .. 255]

SetPageStatus(bytes, i, code) ==
  IF i >= DataPages THEN bytes
  ELSE [bytes EXCEPT ![i \div ByteStatuses] = SetStatus(@, i, code)]

IsPageStatus(bytes, i, code) ==
  i < DataPages /\ GetStatus(bytes[i \div ByteStatuses], i) = code

\* The statuses as the other modules have them, read from the bytes.
StatusTable(bytes) ==
  [i \in Index |-> StatusOf(GetStatus(bytes[i \div ByteStatuses], i))]

\* The bytes that may stand for a table of statuses.
BytesOf ==
  [table \in [Index -> {"OK", "EMPTY", "BLOCKED", "VOID"}] |->
     {bytes \in MetaStatuses : StatusTable(bytes) = table}]

StatusesIn(toc) == [i \in Index |-> toc[i].st]

-----------------------------------------------------------------------------

PageSize    == 256                 \* STORAGE_PAGE_SIZE
PayloadSize == PageSize - 20 - 2   \* STORAGE_PAGE_PAYLOAD_SIZE

\* Mutant: the length is left out.
OutOfStorageFrom(address, len) == address >= PagesCount * PageSize

\* The test of load, save and rewrite for the end of the storage.
OutOfStorage(address, len) == address + len >= PagesCount * PageSize

\* The pages that the loop over the payloads of a record takes.
PagesTaken(len) == (len + PayloadSize - 1) \div PayloadSize

\* The lengths in bytes that a length of pages stands for.
LengthsOf ==
  [n \in 1 .. MaxLen |-> {len \in 1 .. MaxLen * PayloadSize : PagesTaken(len) = n}]

-----------------------------------------------------------------------------

\* Every table of contents that the library saves can be written in the status
\* bits of a header, and whatever bytes stand for it, setting the status of one
\* page in them (setPageStatus) is setting it in the table and changes that of
\* no other page; isPageStatus reads the table.
StatusesExact ==
  pc = "h_save" =>
    LET table == StatusesIn(h.page.toc)
    IN  /\ BytesOf[table] # {}
        /\ \A bytes \in BytesOf[table], i \in Index,
              status \in {"OK", "EMPTY", "BLOCKED"} :
             /\ SetPageStatus(bytes, i, Code(status))
                  \in BytesOf[[table EXCEPT ![i] = status]]
             /\ IsPageStatus(bytes, i, Code(status)) <=> table[i] = status

\* For all the lengths in bytes that the length of a call stands for, the test
\* of load, save and rewrite for the end of the storage refuses a record only
\* when its pages do not fit, and admits one page too many at most: of what the
\* model allows, to refuse or to admit, each is the answer to one of them.
GuardExact ==
  pc = "done" /\ call.op \in {"load", "save", "rewrite"} /\ call.len > 0 =>
    LET refused == {len \in LengthsOf[call.len] :
                      OutOfStorage(call.addr * PageSize, len)}
    IN  /\ BeyondStorage(call.addr, call.len) <=> refused # {}
        /\ Admitted(call.addr, call.len) <=> refused # LengthsOf[call.len]
=============================================================================
