-------------------------- MODULE StorageInvariants --------------------------
(***************************************************************************)
(* What is true at each point of the library while a call runs: the facts  *)
(* that make its type invariant and ChainsForward inductive, and where in  *)
(* a call a loss of power leaves all records whole.                        *)
(***************************************************************************)
EXTENDS StorageProperties

\* The library is at a point of P, or loads or saves a header for one.
At(P) == pc \in P \/ (pc \in HeaderPoint /\ h.back \in P)

\* ..., or searches for one.
Within(P) == At(P) \/ (At(SearchPoint) /\ s.back \in P)

\* The loops over macroblocks, pages to erase and pages to write have not
\* ended at the points inside them, and a search that succeeded has a result.
\* These bounds keep every address the library hands to the drive inside the
\* storage: rewrite erases the pages it collects without checking them.
LoopsBounded ==
  /\ At({"s_header", "s_unit"}) => s.mb < MacroblocksCount
  /\ At({"d_header", "d_saved", "d_erase"}) => d.mb < MacroblocksCount
  /\ At({"m_header", "m_saved", "m_erase"}) => fmt < MacroblocksCount
  /\ Within({"w_target", "w_erase"}) => w.erased < call.len
  /\ Within({"w_found", "w_switch", "w_reload", "w_page"}) =>
       w.cur < PagesCount /\ w.n < call.len
  /\ pc \in {"w_target", "w_found"} /\ st = "OK" => s.found # None

\* A search never goes back, and the page that rewrite is at lies between its
\* neighbours: the next one was searched for from the page after it.
SearchForward ==
  /\ MacroblockIndex(s.from) <= s.mb
  /\ pc = "s_unit" => PageIndex(s.from) <= s.i
  /\ s.found # None => s.from <= s.found
  /\ w.prev <= w.cur /\ w.cur <= w.next
  /\ Within({"w_found"}) => s.back = "w_found" /\ s.from = w.cur + 1

\* No page of a table is listed under a key.
Unlisted(toc, key) == \A i \in Index : toc[i].st = "OK" => toc[i].key # key

\* The points of the loop over the pages to write.
WritingAt == \/ Within({"w_found", "w_switch", "w_reload", "w_page"})
             \/ pc = "w_next" \/ At({"w_end"})

\* A table does not list a page under another key than that of the call.
NotOfOther(a) ==
  LET u == Table(mem, MacroblockIndex(a))[PageIndex(a)]
  IN  u.st = "OK" => u.key = call.key

\* No table lists a page of a key.
NoneListed(key) == \A b \in Searched : Unlisted(Table(mem, b), key)

\* Power is lost without tearing a header and, once the pages of a record are
\* being written, not after the first header that lists one of them was saved
\* and before the last one is, nor over a page listed under another key.
CleanCut ==
  /\ \A a \in Addr : IsMacroblockAddress(a) => mem'[a] = mem[a]
  /\ WritingAt /\ 0 < w.n /\ pc # "w_end" => NoneListed(call.key) /\ NotOfOther(call.addr)

\* Power is lost in this way only.
CutsAreClean == [][Crash => CleanCut]_vars

\* What is written keeps to the macroblock of the header in use, and takes no page
\* listed under another key: neither the one at the address of the call nor the
\* one that is next to be written.
KeepsWithin ==
  WritingAt =>
    /\ NotOfOther(call.addr)
    /\ w.n < call.len =>
         /\ NotOfOther(w.cur)
         /\ w.loaded => w.block = MacroblockIndex(w.cur)
=============================================================================
