---------------------------- MODULE StorageSearch ----------------------------
(***************************************************************************)
(* StorageSearchBase and its five modes: a scan of the tables of contents, *)
(* macroblock by macroblock, from the one that holds the start address.    *)
(***************************************************************************)
EXTENDS StorageHeader

VARIABLE s   \* the search in progress

SearchMode == {"EQUAL", "NEXT", "MIN", "MAX", "EMPTY"}

\* The points that wait for the result of a search.
SearchReturn == {"idle", "w_target", "w_found", "done"}

\* from is startSearchAddress, found and prevId are the last result.
SearchFrame == [mode : SearchMode, key : Key, from : 0 .. PagesCount,
                mb : 0 .. PagesCount, i : 0 .. DataPages,
                found : Addr \cup {None}, prevId : 0 .. MaxId,
                back : SearchReturn]

NoSearch == [mode |-> "EMPTY", key |-> NoKey, from |-> 0, mb |-> 0, i |-> 0,
             found |-> None, prevId |-> 0, back |-> "idle"]

SearchType == s \in SearchFrame

\* getStartCmpId
StartCmpId(mode) == IF mode \in {"MIN", "NEXT"} THEN MaxId ELSE 0

\* Mutant: NEXT accepts the id it starts from.
IsIdFoundSame(mode, id, prevId, target) ==
  \/ mode = "EQUAL" /\ id = target
  \/ mode = "NEXT" /\ target <= id /\ target < prevId /\ id < prevId
  \/ mode = "MIN" /\ id < prevId
  \/ mode = "MAX" /\ prevId < id

\* isIdFound
IsIdFound(mode, id, prevId, target) ==
  \/ mode = "EQUAL" /\ id = target
  \/ mode = "NEXT" /\ target < id /\ target < prevId /\ id < prevId
  \/ mode = "MIN" /\ id < prevId
  \/ mode = "MAX" /\ prevId < id

\* isNeededFirstResult
IsNeededFirstResult(mode) == mode \in {"EQUAL", "EMPTY"}

Search(mode, key, from, back) ==
  /\ pc' = "s_block"
  /\ s' = [NoSearch EXCEPT !.mode = mode, !.key = key, !.from = from,
                           !.mb = MacroblockIndex(from),
                           !.prevId = StartCmpId(mode), !.back = back]
  /\ UNCHANGED st

-----------------------------------------------------------------------------

\* The next macroblock, until there is none.
SearchBlock ==
  /\ pc = "s_block"
  /\ \/ s.mb < MacroblocksCount /\ LoadHeader(s.mb, "s_header")
     \/ /\ s.mb >= MacroblocksCount
        /\ Return(IF s.found = None THEN "NOT_FOUND" ELSE "OK", s.back)
        /\ UNCHANGED h
  /\ UNCHANGED <<device, s>>

\* Mutant: every scan starts at the first page.
ScanFromFirst == 0

\* The index a scan starts at, in every macroblock: that of the start address.
ScanFrom == PageIndex(s.from)

SearchHeader ==
  /\ pc = "s_header"
  /\ \/ st # "OK" /\ Return(st, s.back) /\ UNCHANGED s
     \/ /\ st = "OK" /\ s.mode # "EMPTY"
        /\ s' = [s EXCEPT !.i = ScanFrom]
        /\ Goto("s_unit")
     \/ /\ st = "OK" /\ s.mode = "EMPTY"
        /\ \E i \in EmptyFrom(h.page.toc, ScanFrom) :
             s' = [s EXCEPT !.found = PageAddress(s.mb, i)]
        /\ Return("OK", s.back)
     \/ /\ st = "OK" /\ s.mode = "EMPTY"
        /\ EmptyFrom(h.page.toc, ScanFrom) = {}
        /\ s' = [s EXCEPT !.mb = @ + 1]
        /\ Goto("s_block")
  /\ UNCHANGED <<device, h>>

\* The units of the table that the mode accepts after the results so far.  A
\* blank prefix accepts every prefix.
Candidates ==
  {i \in Index :
     LET u == h.page.toc[i]
     IN  /\ i >= s.i
         /\ u.st = "OK"
         /\ s.key.prefix = Blank \/ u.key.prefix = s.key.prefix
         /\ IsIdFound(s.mode, u.key.id, s.prevId, s.key.id)}

\* One candidate: it is a result when its page loads as the start of a record.
SearchUnit ==
  /\ pc = "s_unit"
  /\ \/ \E i \in Least(Candidates) :
          LET a     == PageAddress(s.mb, i)
              found == [s EXCEPT !.found = a, !.i = i + 1,
                                 !.prevId = h.page.toc[i].key.id]
          IN  \/ /\ ~busy /\ LoadsAsStart(mem, a)
                 /\ s' = found
                 /\ IF IsNeededFirstResult(s.mode) THEN Return("OK", s.back)
                                                   ELSE UNCHANGED control
              \/ /\ busy \/ ~LoadsAsStart(mem, a)
                 /\ s' = [s EXCEPT !.i = i + 1]
                 /\ UNCHANGED control
     \/ /\ Candidates = {}
        /\ s' = [s EXCEPT !.mb = @ + 1]
        /\ Goto("s_block")
  /\ UNCHANGED <<device, h>>

SearchNext == SearchBlock \/ SearchHeader \/ SearchUnit
=============================================================================
