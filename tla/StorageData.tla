----------------------------- MODULE StorageData -----------------------------
(***************************************************************************)
(* StorageData: deleting, rewriting, saving, loading and clearing a        *)
(* record, for the arguments of the one call in progress.                  *)
(***************************************************************************)
EXTENDS StorageSearch

VARIABLES
  call,   \* the arguments of the call in progress
  d,      \* deleteData in progress
  w,      \* rewrite in progress
  l       \* load or clearAddress in progress

Operation == {"find", "load", "save", "rewrite", "delete", "clear", "format"}

Call == [op : Operation \cup {"none"}, mode : SearchMode, addr : Addr,
         key : Key, val : Values \cup {Junk}, len : 0 .. MaxLen]

NoCall == [op |-> "none", mode |-> "EMPTY", addr |-> 0, key |-> NoKey,
           val |-> Junk, len |-> 0]

\* The points that wait for a record to be deleted.
DeleteReturn == {"idle", "w_deleted", "v_undone", "l_deleted", "done"}

DeleteFrame == [key : Key, mb : 0 .. PagesCount, victims : SUBSET Addr,
                res : Status, back : DeleteReturn]

NoDelete == [key |-> NoKey, mb |-> 0, victims |-> {}, res |-> "OK",
             back |-> "idle"]

\* erase, target, batch, erased: eraseAddr, eraseNextAddr, eraseAddrs and
\* eraseLen.  header, block, loaded: header, macroblockAddress and
\* headerLoaded.  cur, prev, next, n: curAddr, prevAddr, nextAddr and curLen.
\* res: the status save() keeps while it undoes a failed rewrite.
RewriteFrame == [erase : Addr, target : Addr, batch : Seq(Addr),
                 erased : 0 .. MaxLen,
                 header : [mb : Macroblock, page : Page],
                 block : Macroblock \cup {None}, loaded : BOOLEAN,
                 cur : Nat, prev : Nat, next : Nat, n : 0 .. MaxLen,
                 res : Status]

NoRewrite == [erase |-> 0, target |-> 0, batch |-> << >>, erased |-> 0,
              header |-> [mb |-> 0, page |-> HeaderPage(EmptyToc)],
              block |-> None, loaded |-> FALSE,
              cur |-> 0, prev |-> 0, next |-> 0, n |-> 0, res |-> "OK"]

\* page: the Page object, loaded from at; got: the payloads copied so far.
LoadFrame == [at : Addr, page : Page, got : Seq(Page)]

NoLoad == [at |-> 0, page |-> HeaderPage(EmptyToc), got |-> << >>]

DataType ==
  /\ call \in Call
  /\ d \in DeleteFrame
  /\ w \in RewriteFrame
  /\ l \in LoadFrame

-----------------------------------------------------------------------------
(* deleteData                                                              *)

Delete(key, back) ==
  /\ pc' = "d_block"
  /\ d' = [NoDelete EXCEPT !.key = key, !.back = back]
  /\ UNCHANGED st

\* The next macroblock, until there is none.
DeleteBlock ==
  /\ pc = "d_block"
  /\ \/ d.mb < MacroblocksCount /\ LoadHeader(d.mb, "d_header")
     \/ /\ d.mb >= MacroblocksCount
        /\ Return(IF Success(d.res) THEN "OK" ELSE d.res, d.back)
        /\ UNCHANGED h
  /\ UNCHANGED <<device, s, call, d, w, l>>

DeleteHeader ==
  /\ pc = "d_header"
  /\ \/ st # "OK" /\ Return(st, d.back) /\ UNCHANGED h
     \/ /\ st = "OK"
        /\ SaveHeader(d.mb, [h.page EXCEPT !.toc = Cleared(@, d.key)],
                      "d_saved")
  /\ UNCHANGED <<device, s, call, d, w, l>>

\* The pages of a macroblock that load and hold the key.
PagesOf(key, mb) ==
  {a \in {PageAddress(mb, i) : i \in Index} :
     Readable(mem, a) /\ mem[a].key = key}

\* The header was saved, or the pages are to be erased instead: those that
\* load now, which are none while the drive is busy.
DeleteSaved ==
  /\ pc = "d_saved"
  /\ LET victims == IF st = "OK" \/ busy THEN {} ELSE PagesOf(d.key, d.mb)
     IN  \/ /\ victims = {}
            /\ d' = [d EXCEPT !.mb = @ + 1]
            /\ Goto("d_block")
         \/ /\ victims # {}
            /\ d' = [d EXCEPT !.victims = victims]
            /\ Goto("d_erase")
  /\ UNCHANGED <<device, h, s, call, w, l>>

DeleteErase ==
  /\ pc = "d_erase"
  /\ \E status \in {"OK", "BUSY", "ERROR"} :
       /\ ErasePages(d.victims, status)
       /\ d' = [d EXCEPT !.mb = @ + 1, !.victims = {},
                         !.res = IF Success(status) THEN @ ELSE status]
  /\ Goto("d_block")
  /\ UNCHANGED <<h, s, call, w, l>>

DeleteNext == DeleteBlock \/ DeleteHeader \/ DeleteSaved \/ DeleteErase

-----------------------------------------------------------------------------
(* rewrite: the old record is deleted, the pages of the new one are        *)
(* erased in batches of one sector, then they are written one by one.      *)

\* The caller of rewrite() is save(), or the client.
RewriteBack == IF call.op = "save" THEN "v_saved" ELSE "done"

RewriteStart ==
  /\ pc = "w_start"
  /\ \/ /\ IsMacroblockAddress(call.addr)
        /\ Return("ERROR", RewriteBack)
        /\ UNCHANGED d
     \/ /\ ~IsMacroblockAddress(call.addr)
        /\ Delete(call.key, "w_deleted")
  /\ UNCHANGED <<device, h, s, call, w, l>>

RewriteDeleted ==
  /\ pc = "w_deleted"
  /\ \/ st # "OK" /\ Return(st, RewriteBack) /\ UNCHANGED h
     \/ st = "OK" /\ LoadHeader(MacroblockIndex(call.addr), "w_header")
  /\ UNCHANGED <<device, s, call, d, w, l>>

\* Mutant: one round too many.
EraseMoreLate(f) ==
  IF f.erased <= call.len
  THEN Search("EMPTY", call.key, f.erase + 1, "w_target")
  ELSE Goto("w_rest") /\ s' = NoSearch

\* The loop over the pages to erase: another one to look for, or the rest.
EraseMore(f) ==
  IF f.erased < call.len
  THEN Search("EMPTY", call.key, f.erase + 1, "w_target")
  ELSE Goto("w_rest") /\ s' = NoSearch

RewriteHeader ==
  /\ pc = "w_header"
  /\ \/ /\ st # "OK" /\ Return(st, RewriteBack)
        /\ UNCHANGED <<s, w>>
     \/ /\ st = "OK"
        /\ w' = [NoRewrite EXCEPT !.erase = call.addr, !.batch = <<call.addr>>,
                   !.header = [mb |-> h.mb, page |-> h.page],
                   !.cur = call.addr, !.prev = call.addr, !.next = call.addr]
        /\ EraseMore(w')
  /\ UNCHANGED <<device, h, call, d, l>>

\* Mutant: the last page does not join the batch.
TargetedShort(f) ==
  [f EXCEPT !.erase = f.target, !.erased = @ + 1,
            !.batch = IF f.erased + 2 < call.len THEN Append(@, f.target)
                                                 ELSE @]

\* The page found becomes the one the loop is at, and joins the batch unless
\* the record needs no more pages.
Targeted(f) ==
  [f EXCEPT !.erase = f.target, !.erased = @ + 1,
            !.batch = IF f.erased + 1 < call.len THEN Append(@, f.target)
                                                 ELSE @]

\* Mutant: sectors are not compared.
BatchEndsOnce(f) == f.erased + 1 >= call.len

\* A batch is erased when it is complete or the next page is in another sector.
BatchEnds(f) == f.erased + 1 >= call.len \/ Sector(f.erase) # Sector(f.target)

\* The search for the next page is back.  Only the last one may fail.
RewriteTarget ==
  /\ pc = "w_target"
  /\ \/ /\ st # "OK" /\ w.erased + 1 < call.len
        /\ Return(st, RewriteBack)
        /\ s' = NoSearch
        /\ UNCHANGED w
     \/ /\ st = "OK" \/ w.erased + 1 >= call.len
        /\ LET f == [w EXCEPT !.target = IF st = "OK" THEN s.found ELSE 0]
           IN  \/ /\ BatchEnds(f)
                  /\ w' = f
                  /\ s' = NoSearch
                  /\ Goto("w_erase")
               \/ /\ ~BatchEnds(f)
                  /\ w' = Targeted(f)
                  /\ EraseMore(w')
  /\ UNCHANGED <<device, h, call, d, l>>

BatchPages == {w.batch[j] : j \in DOMAIN w.batch}

\* The array of addresses is cleared after every erase; its count is not when
\* the erase failed.
RewriteErase ==
  /\ pc = "w_erase"
  /\ \E status \in {"OK", "BUSY", "ERROR"} :
       /\ ErasePages(BatchPages, status)
       /\ \/ /\ status = "BUSY"
             /\ Return("BUSY", RewriteBack)
             /\ UNCHANGED <<s, w>>
          \/ /\ status = "ERROR"
             /\ w' = [w EXCEPT !.batch = [j \in DOMAIN @ |-> 0]]
             /\ Return("ERROR", "w_rest")
             /\ UNCHANGED s
          \/ /\ status = "OK"
             /\ w' = Targeted([w EXCEPT !.batch = << >>])
             /\ EraseMore(w')
  /\ UNCHANGED <<h, call, d, l>>

\* What the array still counts is erased after the loop.
RewriteRest ==
  /\ pc = "w_rest"
  /\ \/ /\ w.batch = << >>
        /\ Goto("w_next")
        /\ UNCHANGED device
     \/ /\ w.batch # << >>
        /\ \E status \in {"OK", "BUSY", "ERROR"} :
             /\ ErasePages(BatchPages, status)
             /\ IF status = "OK" THEN Return(status, "w_next")
                                 ELSE Return(status, RewriteBack)
  /\ UNCHANGED <<h, s, call, d, w, l>>

RewriteEraseNext ==
  \/ RewriteStart \/ RewriteDeleted \/ RewriteHeader \/ RewriteTarget
  \/ RewriteErase \/ RewriteRest

\* The loop over the pages to write: the search for the page after this one.
RewriteNext ==
  /\ pc = "w_next"
  /\ \/ /\ w.n < call.len /\ w.cur >= PagesCount
        /\ Return("OOM", RewriteBack)
        /\ UNCHANGED <<h, s>>
     \/ /\ w.n < call.len /\ w.cur < PagesCount
        /\ Search("EMPTY", call.key, w.cur + 1, "w_found")
        /\ UNCHANGED h
     \/ /\ w.n >= call.len
        /\ SaveHeader(w.header.mb, w.header.page, "w_end")
        /\ UNCHANGED s
  /\ UNCHANGED <<device, call, d, w, l>>

\* Mutant: the last page is recognised one page too late.
IsLastPageLate == w.n >= call.len

IsLastPage == w.n + 1 >= call.len

\* Mutant: the header of the first page is used for all pages.
HeaderIsOfNone == w.block = None

\* Mutant: the header is saved whenever a page has been written.
HeaderIsOfPage == w.n > 0 \/ w.block # MacroblockIndex(w.cur)

\* The header in use is that of another macroblock than the current page.
HeaderIsOfOther == w.block # MacroblockIndex(w.cur)

\* The search is back.  Only that of the last page may fail.  The header in
\* use is saved before one of another macroblock takes its place.
RewriteFound ==
  /\ pc = "w_found"
  /\ \/ /\ st # "OK" /\ ~IsLastPage
        /\ Return(st, RewriteBack)
        /\ UNCHANGED <<h, w>>
     \/ /\ st = "OK" \/ IsLastPage
        /\ w' = [w EXCEPT !.next = IF st = "OK" THEN s.found ELSE w.cur + 1]
        /\ IF w.loaded /\ HeaderIsOfOther
           THEN SaveHeader(w.header.mb, w.header.page, "w_switch")
           ELSE Return("OK", "w_switch") /\ UNCHANGED h
  /\ s' = NoSearch
  /\ UNCHANGED <<device, call, d, l>>

RewriteSwitch ==
  /\ pc = "w_switch"
  /\ \/ st = "BUSY" /\ Return(st, RewriteBack) /\ UNCHANGED h
     \/ /\ st # "BUSY" /\ HeaderIsOfOther
        /\ LoadHeader(MacroblockIndex(w.cur), "w_reload")
     \/ st # "BUSY" /\ ~HeaderIsOfOther /\ Goto("w_page") /\ UNCHANGED h
  /\ UNCHANGED <<device, s, call, d, w, l>>

RewriteReload ==
  /\ pc = "w_reload"
  /\ \/ st # "OK" /\ Return(st, RewriteBack) /\ UNCHANGED w
     \/ /\ st = "OK"
        /\ w' = [w EXCEPT !.header = [mb |-> h.mb, page |-> h.page],
                          !.block = MacroblockIndex(w.cur), !.loaded = TRUE]
        /\ Goto("w_page")
  /\ UNCHANGED <<device, h, s, call, d, l>>

\* Mutant: the payload is that of the page after this one.
CurrentPageAhead ==
  DataPage(call.key,
           IF w.n = 0 THEN w.cur ELSE w.prev,
           IF IsLastPage THEN w.cur ELSE w.next,
           call.val, w.n + 2)

\* The page of the record that goes to the current address: it links to itself
\* at the ends of the record.
CurrentPage ==
  DataPage(call.key,
           IF w.n = 0 THEN w.cur ELSE w.prev,
           IF IsLastPage THEN w.cur ELSE w.next,
           call.val, w.n + 1)

CurrentIndex == PageIndex(w.cur)

\* A page that was written is registered in the header; one that could not be
\* is blocked there, and the next page takes its part of the data.
PageWritten ==
  [w EXCEPT !.header.page.toc = Registered(@, CurrentIndex, call.key),
            !.prev = w.cur, !.cur = w.next, !.n = @ + 1]

\* Mutant: the address does not advance past a blocked page.
PageBlockedStuck ==
  [w EXCEPT !.header.page.toc = Blocked(@, CurrentIndex)]

PageBlocked ==
  [w EXCEPT !.header.page.toc = Blocked(@, CurrentIndex), !.cur = w.next]

RewritePage ==
  /\ pc = "w_page"
  /\ \E status \in {"OK", "BUSY", "ERROR"} :
       /\ SavePage(w.cur, CurrentPage, status)
       /\ \/ status = "BUSY" /\ Return(status, RewriteBack) /\ UNCHANGED w
          \/ status = "OK" /\ Return(status, "w_next") /\ w' = PageWritten
          \/ status = "ERROR" /\ Return(status, "w_next") /\ w' = PageBlocked
  /\ UNCHANGED <<h, s, call, d, l>>

\* The last header is saved.
RewriteEnd ==
  /\ pc = "w_end"
  /\ Return(IF Success(st) THEN "OK" ELSE st, RewriteBack)
  /\ UNCHANGED <<device, h, s, call, d, w, l>>

RewriteWriteNext ==
  \/ RewriteNext \/ RewriteFound \/ RewriteSwitch \/ RewriteReload
  \/ RewritePage \/ RewriteEnd

-----------------------------------------------------------------------------
(* save: rewrite, unless the address holds another record.                 *)

SaveStart ==
  /\ pc = "v_start"
  /\ \/ /\ IsMacroblockAddress(call.addr)
        /\ Return("ERROR", "done")
        /\ UNCHANGED h
     \/ /\ ~IsMacroblockAddress(call.addr)
        /\ LoadHeader(MacroblockIndex(call.addr), "v_check")
  /\ UNCHANGED <<device, s, call, d, w, l>>

\* Mutant: only blocked pages are refused.
MayBeSavedTaken(u) == u.st # "BLOCKED" \/ u.key = call.key

\* isAddressEmpty or isSameMeta.
MayBeSaved(u) == u.st = "EMPTY" \/ u.key = call.key

SaveCheck ==
  /\ pc = "v_check"
  /\ LET u == h.page.toc[PageIndex(call.addr)]
     IN  \/ st # "OK" /\ Return(st, "done")
         \/ st = "OK" /\ ~MayBeSaved(u) /\ Return("DATA_EXISTS", "done")
         \/ st = "OK" /\ MayBeSaved(u) /\ Goto("w_start")
  /\ UNCHANGED <<device, h, s, call, d, w, l>>

\* A failed rewrite is undone by a delete whose status is ignored.
SaveRewritten ==
  /\ pc = "v_saved"
  /\ \/ st = "OK" /\ Goto("done") /\ UNCHANGED <<d, w>>
     \/ /\ st # "OK"
        /\ w' = [w EXCEPT !.res = st]
        /\ Delete(call.key, "v_undone")
  /\ UNCHANGED <<device, h, s, call, l>>

SaveUndone ==
  /\ pc = "v_undone"
  /\ Return(w.res, "done")
  /\ UNCHANGED <<device, h, s, call, d, w, l>>

SaveNext == SaveStart \/ SaveCheck \/ SaveRewritten \/ SaveUndone

-----------------------------------------------------------------------------
(* load: the payloads of the chain from the address on.                    *)

LoadStart ==
  /\ pc = "l_start"
  /\ \/ /\ IsMacroblockAddress(call.addr) \/ call.len = 0
        /\ Return("ERROR", "done")
        /\ UNCHANGED l
     \/ /\ ~IsMacroblockAddress(call.addr) /\ call.len > 0
        /\ \/ busy /\ Return("BUSY", "done") /\ UNCHANGED l
           \/ /\ ~busy /\ ~LoadsAsStart(mem, call.addr)
              /\ Return("ERROR", "done")
              /\ UNCHANGED l
           \/ /\ ~busy /\ LoadsAsStart(mem, call.addr)
              /\ l' = [NoLoad EXCEPT !.at = call.addr, !.page = mem[call.addr]]
              /\ Goto("l_copy")
  /\ UNCHANGED <<device, h, s, call, d, w>>

\* Mutant: a page that links to itself is loaded again.
NextLoadsSelf == /\ Readable(mem, l.page.next)
                 /\ mem[l.page.next].key = l.page.key

\* loadNext, from the page in memory.
NextLoads == /\ l.page.next # l.at
             /\ Readable(mem, l.page.next)
             /\ mem[l.page.next].key = l.page.key

\* The page is the end of a chain that was followed to it: the loop looks at
\* the end only of the pages it reached by a link.
EndReached == l.got # << >> /\ l.page.next = l.at

\* One round of the loop.  When the chain breaks off too early, or the first
\* page has no link at all, the record of that key is deleted.
LoadCopy ==
  /\ pc = "l_copy"
  /\ LET got  == Append(l.got, l.page)
         full == Len(got) = call.len
         ends == l.page.next = l.at
     IN  \/ /\ ~full /\ ~busy /\ NextLoads
            /\ l' = [at |-> l.page.next, page |-> mem[l.page.next], got |-> got]
            /\ UNCHANGED <<control, d>>
         \/ /\ full \/ ends \/ busy \/ ~NextLoads
            /\ l' = [l EXCEPT !.got = got]
            /\ \/ full /\ Return("OK", "done") /\ UNCHANGED d
               \/ ~full /\ EndReached /\ Return("NOT_FOUND", "done") /\ UNCHANGED d
               \/ ~full /\ ~ends /\ busy /\ Return("BUSY", "done") /\ UNCHANGED d
               \/ /\ ~full /\ ~EndReached /\ (ends \/ ~busy)
                  /\ Delete(l.page.key, "l_deleted")
  /\ UNCHANGED <<device, h, s, call, w>>

LoadDeleted ==
  /\ pc = "l_deleted"
  /\ Return("NOT_FOUND", "done")
  /\ UNCHANGED <<device, h, s, call, d, w, l>>

LoadNext == LoadStart \/ LoadCopy \/ LoadDeleted

-----------------------------------------------------------------------------
(* clearAddress: deletes the record that holds a page.                     *)

\* The start of the chain the address is in, unless it is beyond the storage.
\* When there is none the object keeps the start address it was constructed
\* with, which is 0.
ClearStart ==
  /\ pc = "c_start"
  /\ \/ IsMacroblockAddress(call.addr) /\ Return("ERROR", "done") /\ UNCHANGED l
     \/ /\ ~IsMacroblockAddress(call.addr) /\ call.addr \notin Addr
        /\ Return("OOM", "done")
        /\ UNCHANGED l
     \/ /\ ~IsMacroblockAddress(call.addr) /\ call.addr \in Addr /\ busy
        /\ Return("BUSY", "done")
        /\ UNCHANGED l
     \/ /\ ~IsMacroblockAddress(call.addr) /\ call.addr \in Addr /\ ~busy
        /\ \/ FindStartAddress(mem, call.addr) = None
              /\ l' = [l EXCEPT !.at = 0]
           \/ \E start \in Addr :
                /\ start = FindStartAddress(mem, call.addr)
                /\ l' = [l EXCEPT !.at = start]
        /\ Goto("c_load")
  /\ UNCHANGED <<device, h, s, call, d, w>>

ClearLoad ==
  /\ pc = "c_load"
  /\ \/ busy /\ Return("BUSY", "done") /\ UNCHANGED d
     \/ ~busy /\ ~Readable(mem, l.at) /\ Return("ERROR", "done") /\ UNCHANGED d
     \/ ~busy /\ Readable(mem, l.at) /\ Delete(mem[l.at].key, "done")
  /\ UNCHANGED <<device, h, s, call, w, l>>

ClearNext == ClearStart \/ ClearLoad

DataNext ==
  \/ (HeaderNext /\ UNCHANGED <<s, call, d, w, l>>)
  \/ (SearchNext /\ UNCHANGED <<call, d, w, l>>)
  \/ DeleteNext \/ RewriteEraseNext \/ RewriteWriteNext
  \/ SaveNext \/ LoadNext \/ ClearNext
=============================================================================
