------------------------------ MODULE StorageAT ------------------------------
(***************************************************************************)
(* The library behind its API: one call at a time, on a drive that may be  *)
(* busy, worn, decaying, or lose power in the middle of a call.            *)
(*                                                                         *)
(* What the library holds in memory lives as long as a call: between calls *)
(* the drive is the whole state of the system, and a restart is the loss   *)
(* of the call in progress.                                                *)
(***************************************************************************)
EXTENDS StorageData

CONSTANTS
  ClientOps,     \* bounds on what the client of an instance asks for
  ClientAddrs,
  ClientKeys,
  ClientLens

ASSUME ClientAssumption ==
  /\ ClientOps \subseteq Operation
  /\ ClientAddrs \subseteq Addr
  /\ ClientKeys \subseteq UserKey
  /\ ClientLens \subseteq 0 .. MaxLen

VARIABLE fmt   \* format() in progress: the macroblock it is at

frames == <<h, s, call, d, w, l, fmt>>
vars   == <<device, control, frames>>

Init ==
  /\ DeviceInit
  /\ HeaderInit
  /\ s = NoSearch
  /\ call = NoCall /\ d = NoDelete /\ w = NoRewrite /\ l = NoLoad
  /\ fmt = 0

TypeOK ==
  /\ DeviceType /\ HeaderType /\ SearchType /\ DataType
  /\ fmt \in 0 .. PagesCount

-----------------------------------------------------------------------------
(* Calls of the API.                                                       *)

\* The call c enters the library at a point, or is refused with a status.
Enter(c, point) ==
  /\ call' = c
  /\ pc' = point /\ st' = "OK"
  /\ UNCHANGED <<device, h, s, d, w, l, fmt>>

Refuse(c, status) ==
  /\ call' = c
  /\ Return(status, "done")
  /\ UNCHANGED <<device, h, s, d, w, l, fmt>>

Find(mode, key) ==
  /\ pc = "idle"
  /\ call' = [NoCall EXCEPT !.op = "find", !.mode = mode, !.key = key]
  /\ Search(mode, key, 0, "done")
  /\ UNCHANGED <<device, h, d, w, l, fmt>>

\* address + len < getStorageSize(), for a length in bytes that takes len pages:
\* the storage may be a page too short for it when the last page is not full.
Admitted(addr, len) ==
  addr + len <= PagesCount \/ (len > 1 /\ addr + len = PagesCount + 1)

\* address + len >= getStorageSize(): the pages are not all in the storage.
BeyondStorage(addr, len) == addr + len > PagesCount

Load(addr, len) ==
  LET c == [NoCall EXCEPT !.op = "load", !.addr = addr, !.len = len]
  IN  /\ pc = "idle"
      /\ \/ BeyondStorage(addr, len) /\ Refuse(c, "OOM")
         \/ Admitted(addr, len) /\ Enter(c, "l_start")

Write(op, addr, key, val, len, point) ==
  LET c == [NoCall EXCEPT !.op = op, !.addr = addr, !.key = key, !.val = val,
                          !.len = len]
  IN  /\ pc = "idle"
      /\ \/ BeyondStorage(addr, len) /\ Refuse(c, "OOM")
         \/ Admitted(addr, len) /\ Enter(c, point)

Save(addr, key, val, len)    == Write("save", addr, key, val, len, "v_start")
Rewrite(addr, key, val, len) == Write("rewrite", addr, key, val, len, "w_start")

DeleteData(key) ==
  /\ pc = "idle"
  /\ call' = [NoCall EXCEPT !.op = "delete", !.key = key]
  /\ Delete(key, "done")
  /\ UNCHANGED <<device, h, s, w, l, fmt>>

ClearAddress(addr) ==
  /\ pc = "idle"
  /\ Enter([NoCall EXCEPT !.op = "clear", !.addr = addr], "c_start")

Format ==
  /\ pc = "idle"
  /\ Enter([NoCall EXCEPT !.op = "format"], "m_block")

-----------------------------------------------------------------------------
(* format: the table of every macroblock is emptied.                       *)

FormatBlock ==
  /\ pc = "m_block"
  /\ \/ fmt < MacroblocksCount /\ LoadHeader(fmt, "m_header")
     \/ fmt >= MacroblocksCount /\ Return("OK", "done") /\ UNCHANGED h
  /\ UNCHANGED <<device, s, call, d, w, l, fmt>>

FormatHeader ==
  /\ pc = "m_header"
  /\ \/ st # "OK" /\ Return(st, "done") /\ UNCHANGED h
     \/ /\ st = "OK"
        /\ SaveHeader(fmt, [h.page EXCEPT !.toc = Formatted(@)], "m_saved")
  /\ UNCHANGED <<device, s, call, d, w, l, fmt>>

\* When no copy of the header can be written the pages of data are erased.
FormatSaved ==
  /\ pc = "m_saved"
  /\ \/ st = "OK" /\ fmt' = fmt + 1 /\ Goto("m_block")
     \/ st = "BUSY" /\ Return("BUSY", "done") /\ UNCHANGED fmt
     \/ st = "HEADER_ERROR" /\ Goto("m_erase") /\ UNCHANGED fmt
  /\ UNCHANGED <<device, h, s, call, d, w, l>>

FormatPages == {PageAddress(fmt, i) : i \in Index}

\* format() goes on after every failure but BUSY.
FormatErase ==
  /\ pc = "m_erase"
  /\ \E status \in {"OK", "BUSY", "ERROR"} :
       /\ ErasePages(FormatPages, status)
       /\ \/ status = "BUSY" /\ Return("BUSY", "done") /\ UNCHANGED fmt
          \/ status # "BUSY" /\ fmt' = fmt + 1 /\ Goto("m_block")
  /\ UNCHANGED <<h, s, call, d, w, l>>

FormatNext == FormatBlock \/ FormatHeader \/ FormatSaved \/ FormatErase

-----------------------------------------------------------------------------
(* The end of a call, and the loss of power.                               *)

\* The library keeps nothing between two calls.
Forget ==
  /\ pc' = "idle" /\ st' = "OK"
  /\ h' = NoHeader /\ s' = NoSearch
  /\ call' = NoCall /\ d' = NoDelete /\ w' = NoRewrite /\ l' = NoLoad
  /\ fmt' = 0

Answer ==
  /\ pc = "done"
  /\ Forget
  /\ UNCHANGED device

\* The pages that are being written or erased at this point: a page that holds
\* its contents already is written only if the load before it was answered BUSY.
InMutation ==
  CASE pc = "h_save" -> {a \in {HeaderAddress(h.mb, h.copy)} :
                           busy \/ mem[a] # h.page}
    [] pc = "w_page" -> {a \in {w.cur} : busy \/ mem[a] # CurrentPage}
    [] pc \in {"w_erase", "w_rest"} -> BatchPages
    [] pc = "d_erase" -> d.victims
    [] pc = "m_erase" -> FormatPages
    [] OTHER -> {}

Crash ==
  /\ pc # "idle"
  /\ PowerLoss(InMutation)
  /\ Forget

-----------------------------------------------------------------------------

Request ==
  \/ /\ "find" \in ClientOps
     /\ \/ \E mode \in SearchMode \ {"EMPTY"}, key \in Key : Find(mode, key)
        \/ Find("EMPTY", NoKey)
  \/ \E addr \in ClientAddrs, len \in ClientLens :
       \/ "load" \in ClientOps /\ Load(addr, len)
       \/ \E key \in ClientKeys, val \in Values :
            \/ "save" \in ClientOps /\ Save(addr, key, val, len)
            \/ "rewrite" \in ClientOps /\ Rewrite(addr, key, val, len)
  \/ "delete" \in ClientOps /\ \E key \in ClientKeys : DeleteData(key)
  \/ "clear" \in ClientOps /\ \E addr \in ClientAddrs : ClearAddress(addr)
  \/ "format" \in ClientOps /\ Format

\* A step of the library: of the call in progress, or its end.
Library ==
  \/ DataNext /\ UNCHANGED fmt
  \/ FormatNext
  \/ Answer

\* A step of the drive.
Drive == DeviceNext /\ UNCHANGED <<control, frames>>

Next == Request \/ Library \/ Drive \/ Crash

\* The library runs: a call that can take a step takes it.
Spec == Init /\ [][Next]_vars /\ WF_vars(Library)
=============================================================================
