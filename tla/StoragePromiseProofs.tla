------------------------- MODULE StoragePromiseProofs -------------------------
(***************************************************************************)
(* Why every call of the library does what RecordStore says, on a drive    *)
(* that has no fault but losses of power that are clean (CleanLosses):     *)
(* save and deleteData leave the records of all other keys as they are, at *)
(* every step (OthersAreKept); all records are whole, found once and       *)
(* covered by the tables (RecordsSurviveCuts); and records appear, change  *)
(* and go as wholes, when the call in progress may change them             *)
(* (PromiseIsKept).  Losses of power are clean as long as records keep to  *)
(* a macroblock (CutsAreCleanWithin, PromiseSurvivesCuts), and those of    *)
(* clients that save apart from each other do (RecordsKeepWithin), which   *)
(* leaves nothing to assume of the states (PromiseToClients).              *)
(***************************************************************************)
EXTENDS StorageRecordProofs

-----------------------------------------------------------------------------
(* What keeps the records in order, across losses of power as well.        *)

\* A table that a search looks at lists the page as empty.
Unused(m, a) ==
  /\ MacroblockIndex(a) \in Searched
  /\ Table(m, MacroblockIndex(a))[PageIndex(a)].st = "EMPTY"

\* save goes on only at an address of its own key or of none, and the pages that
\* are to be erased are that address and pages the tables list as empty; a failed
\* save is undone by a delete of its own key.
TakesOwn ==
  /\ call.op = "save" /\ (Rewriting \/ pc = "w_start") =>
       /\ ValidCopies(mem, MacroblockIndex(call.addr)) # {}
       /\ NotOfOther(call.addr)
  /\ ErasingAt => \A a \in BatchPages : a = call.addr \/ Unused(mem, a)
  /\ At(DeletePoint) /\ d.back = "v_undone" => d.key = call.key

\* The call in progress is one of a client of this instance, and there is none
\* between two calls.
NamesCall ==
  /\ IF pc = "idle" THEN call = NoCall ELSE call.op \in Operation
  /\ call.op \in {"save", "rewrite"} => call.addr \in ClientAddrs /\ call.len \in ClientLens
  /\ call.op \in {"save", "rewrite", "delete"} => call.key \in ClientKeys

\* clearAddress and format are at points of their own.
PlainCalls ==
  /\ call.op = "clear" => \/ pc \in {"c_start", "c_load", "done"}
                          \/ At(DeletePoint) /\ d.back = "done"
  /\ call.op = "format" => At(FormatPoint) \/ pc = "done"

\* No page that is listed under a key comes before a start of its record.
StartsFirst ==
  \A key \in Key : \A a \in Starts(mem, key), b \in Listed(mem, "OK") :
    ListedKey(mem, b) = key => a <= b

\* A write that is answered NOT_FOUND leaves no record of its key, and format
\* that is answered OK leaves none at all.
EmptyHanded ==
  /\ pc = "w_end" => st = "OK"
  /\ pc = "v_undone" => NoneListed(call.key)
  /\ pc = "done" /\ call.op \in {"save", "rewrite"} /\ st = "NOT_FOUND" =>
       NoneListed(call.key)
  /\ pc = "done" /\ call.op = "format" /\ st = "OK" => \A b \in Searched : Emptied(b)

\* All records are in order.
InOrder ==
  /\ RecordsWhole /\ LoadFollows /\ TakesOwn
  /\ NamesCall /\ PlainCalls /\ StartsFirst /\ EmptyHanded

\* The drive has no fault but losses of power that are clean.
CleanLosses == []Healthy /\ CutsAreClean

\* No page of the record that is being written is listed before all of them are
\* written, as no header is saved for the sake of the next one.
ListedLast ==
  WritingAt /\ pc # "w_end" =>
    NoneListed(call.key) /\ (pc = "h_save" => h.back # "w_switch")

-----------------------------------------------------------------------------
(* A call keeps to its own pages.                                          *)

\* save goes on from one of its points to the next, after it has looked at the
\* table.
LEMMA RewritingFrom ==
  ASSUME RecordStep, [Next]_vars, call'.op = "save", Rewriting' \/ pc' = "w_start"
  PROVE  call' = call /\ (Rewriting \/ pc = "w_start" \/ SaveCheck)
<1>1. /\ h.back \in HeaderReturn /\ s.back \in SearchReturn /\ d.back \in DeleteReturn
      /\ HealthyStep
  BY DEF RecordStep, WriteStep, HealthyStep, IInv, TypeOK, HeaderType, SearchType,
    DataType, HeaderFrame, SearchFrame, DeleteFrame
<1>2. /\ (RewritePoint \ {"w_start"}) \cap (HeaderPoint \cup SearchPoint) = {}
      /\ (RewritePoint \ {"w_start"}) \cap HeaderPoint = {}
      /\ DeletePoint \cap HeaderPoint = {}
  BY DEF HeaderPoint, SearchPoint, RewritePoint, DeletePoint
<1>3. CASE HeaderNext /\ UNCHANGED <<s, call, d, w, l>>
  <2>1. pc' # "w_start"
    BY <1>1, <1>3, NextPoint DEF HeaderReturn
  <2> QED
    BY <1>1, <1>2, <1>3, <2>1, HeaderKeepsPoint DEF Rewriting
<1>4. CASE SearchNext /\ UNCHANGED <<call, d, w, l>>
  <2>1. pc' # "w_start" /\ ~At(DeletePoint)'
    BY <1>1, <1>4, NextPoint DEF SearchReturn, At, SearchPoint, HeaderPoint, DeletePoint
  <2> QED
    BY <1>1, <1>2, <1>4, <2>1, SearchKeepsPoint DEF Rewriting
<1>5. CASE DeleteNext
  <2>1. pc \in DeletePoint /\ call' = call
    BY <1>5, PointOfStep
  <2>2. CASE d.back = "w_deleted"
    BY <2>1, <2>2 DEF Rewriting, At
  <2>3. CASE d.back # "w_deleted"
    BY <1>1, <1>5, <2>3, NextPoint DEF Rewriting, Within, At, SearchPoint,
      HeaderPoint, DeletePoint, DeleteReturn, RewritePoint
  <2> QED
    BY <2>1, <2>2, <2>3
<1>6. CASE RewriteEraseNext \/ RewriteWriteNext
  BY <1>6, PointOfStep DEF Rewriting, Within, At, RewritePoint
<1>7. CASE SaveNext
  <2>1. pc' = "w_start"
    BY <1>7, NextPoint DEF Rewriting, Within, At, SearchPoint, HeaderPoint, DeletePoint,
      RewritePoint
  <2>2. ~SaveStart /\ ~SaveRewritten /\ ~SaveUndone
    BY <2>1 DEF SaveStart, SaveRewritten, SaveUndone, Return, LoadHeader, Goto, Delete
  <2> QED
    BY <1>7, <2>2, PointOfStep DEF SaveNext
<1>8. CASE LoadNext \/ ClearNext \/ FormatNext
  BY <1>8, NextPoint DEF Rewriting, Within, At, SearchPoint, HeaderPoint, DeletePoint,
    RewritePoint
<1>9. CASE Request
  <2>1. /\ \A mode, key : Find(mode, key) => call'.op = "find"
        /\ \A addr, len : Load(addr, len) => call'.op = "load"
        /\ \A key : DeleteData(key) => call'.op = "delete"
        /\ \A addr : ClearAddress(addr) => call'.op = "clear"
        /\ Format => call'.op = "format"
    BY DEF Find, Load, DeleteData, ClearAddress, Format, Enter, Refuse, NoCall
  <2>2. \A addr, key, val, len : Rewrite(addr, key, val, len) => call'.op = "rewrite"
    <3> SUFFICES ASSUME NEW addr, NEW key, NEW val, NEW len, Rewrite(addr, key, val, len)
                 PROVE  call'.op = "rewrite"
      OBVIOUS
    <3>1. call' = [NoCall EXCEPT !.op = "rewrite", !.addr = addr, !.key = key,
                                 !.val = val, !.len = len]
      BY DEF Rewrite, Write, Enter, Refuse
    <3> QED
      BY <3>1 DEF NoCall
  <2>3. \A addr, key, val, len :
          Save(addr, key, val, len) => pc' \in {"done", "v_start"}
    BY DEF Save, Write, Enter, Refuse, Return
  <2>4. pc' \in {"done", "v_start"}
    BY <1>9, <2>1, <2>2, <2>3 DEF Request
  <2> QED
    BY <2>4 DEF Rewriting, Within, At, SearchPoint, HeaderPoint, DeletePoint, RewritePoint
<1>10. CASE Answer \/ Crash
  BY <1>10 DEF Answer, Crash, Forget, NoCall
<1>11. CASE Drive
  BY <1>11, HealthyDrive DEF Drive, RecordStep, WriteStep, HealthyStep, IInv,
    TypeOK
<1>12. CASE UNCHANGED vars
  <2>1. pc' = pc /\ h' = h /\ s' = s /\ d' = d /\ call' = call
    BY <1>12 DEF vars, control, frames
  <2> QED
    BY <2>1 DEF Rewriting, Within, At
<1> QED
  BY <1>3, <1>4, <1>5, <1>6, <1>7, <1>8, <1>9, <1>10, <1>11, <1>12 DEF Next, Library,
    DataNext

\* Its address stays one of its own key or of none.
LEMMA NextTakesAddress ==
  ASSUME RecordStep, TakesOwn, [Next]_vars, call'.op = "save",
         Rewriting' \/ pc' = "w_start"
  PROVE  /\ ValidCopies(mem', MacroblockIndex(call'.addr)) # {}
         /\ NotOfOther(call.addr)'
<1> DEFINE b == MacroblockIndex(call.addr)
           i == PageIndex(call.addr)
<1>1. call' = call /\ (Rewriting \/ pc = "w_start" \/ SaveCheck)
  BY RewritingFrom
<1>2. b \in Macroblock /\ i \in Index
  <2>1. call.addr \in Addr /\ call.addr \in Nat
    BY WriteTypes, Geometry DEF RecordStep, Call, Addr
  <2> QED
    BY <2>1, MacroblockInRange, PageIndexInRange
<1>3. /\ ValidCopies(mem, b) # {}
      /\ Table(mem, b)[i].st = "OK" => Table(mem, b)[i].key = call.key
  <2>1. CASE Rewriting \/ pc = "w_start"
    BY <1>1, <2>1 DEF TakesOwn, NotOfOther
  <2>2. CASE SaveCheck
    <3>1. pc = "v_check" /\ MayBeSaved(h.page.toc[i])
      BY <1>1, <2>2 DEF SaveCheck, Return, Rewriting, Within, At, SearchPoint,
        HeaderPoint, DeletePoint, RewritePoint
    <3>2. ValidCopies(mem, b) # {} /\ h.page.toc = Table(mem, b)
      BY <3>1 DEF RecordStep, WriteStep, HeaderIsTable, LoadPoint, At
    <3> QED
      BY <3>1, <3>2 DEF MayBeSaved
  <2> QED
    BY <1>1, <2>1, <2>2
<1> SUFFICES /\ ValidCopies(mem', b) # {}
             /\ Table(mem', b)[i].st = "OK" => Table(mem', b)[i].key = call.key
  BY <1>1 DEF NotOfOther
<1> HIDE DEF b, i
<1>4. CASE mem' = mem
  BY <1>3, <1>4
<1>5. CASE HeaderSave
  <2>1. CASE h.mb # b
    BY <1>2, <1>3, <1>5, <2>1, HeaderSaved
  <2>2. CASE h.mb = b
    <3>1. ValidCopies(mem', b) # {} /\ Table(mem', b) = h.page.toc
      BY <1>5, <2>2, HeaderSaved
    <3>2. \/ h.page.toc[i] = Table(mem, b)[i]
          \/ h.page.toc[i] = [key |-> call.key, st |-> "OK"]
          \/ h.page.toc[i].st # "OK"
      BY <1>2, <1>3, <1>5, <2>2, HeaderEntries
    <3> QED
      BY <1>3, <3>1, <3>2
  <2> QED
    BY <2>1, <2>2
<1>6. CASE RewriteErase \/ RewriteRest
  BY <1>2, <1>3, <1>6, BatchGone DEF SameTables
<1>7. CASE RewritePage
  BY <1>2, <1>3, <1>7, PageSaved DEF SameTables
<1> QED
  BY <1>4, <1>5, <1>6, <1>7, StepKinds

\* The next empty page is not in use.
LEMMA NextEmptyUnused ==
  ASSUME NEW m, NEW from, NEW a, NextEmpty(m, from, a)
  PROVE  Unused(m, a)
BY DEF NextEmpty, EmptyFrom, Least, Unused

\* While rewrite erases no table changes: all headers are there.
LEMMA ErasingKeepsTables ==
  ASSUME RecordStep, [Next]_vars, ErasingAt
  PROVE  \A b \in Searched : Table(mem', b) = Table(mem, b)
<1>1. \A b \in Searched : ValidCopies(mem, b) # {} /\ b \in Macroblock
  <2>1. Within(RewritePoint \ {"w_start"})
    BY DEF ErasingAt, Within, At, RewritePoint
  <2> QED
    BY <2>1, SearchedIsMacroblock DEF RecordStep, WriteStep, WInv, HeadersThere
<1>2. CASE mem' = mem
  BY <1>2
<1>3. CASE HeaderSave
  <2>1. pc = "h_save" /\ h.back \in HeaderReturn
    BY <1>3 DEF HeaderSave, RecordStep, WriteStep, HealthyStep, IInv, TypeOK, HeaderType,
      HeaderFrame
  <2>2. h.back \in {"w_target", "w_erase"} \cup SearchPoint
    BY <2>1 DEF ErasingAt, Within, At, HeaderPoint, SearchPoint
  <2>3. h.back = "s_header"
    BY <2>1, <2>2 DEF HeaderReturn, SearchPoint
  <2>4. ValidCopies(mem, h.mb) = {}
    BY <2>1, <2>3 DEF RecordStep, WriteStep, HeaderIsTable, LoadPoint
  <2> QED
    BY <1>1, <1>3, <2>4, HeaderSaved
<1>4. CASE RewriteErase \/ RewriteRest
  BY <1>1, <1>4, BatchGone DEF SameTables
<1>5. CASE RewritePage
  BY <1>1, <1>5, PageSaved DEF SameTables
<1> QED
  BY <1>2, <1>3, <1>4, <1>5, StepKinds

\* The pages to erase are looked for from rewrite's header on.
LEMMA ErasingFrom ==
  ASSUME RecordStep, [Next]_vars, ErasingAt'
  PROVE  \/ RewriteHeader \/ RewriteTarget \/ RewriteErase
         \/ ErasingAt /\ UNCHANGED <<call, w>>
<1>1. /\ h.back \in HeaderReturn /\ s.back \in SearchReturn /\ d.back \in DeleteReturn
      /\ HealthyStep
  BY DEF RecordStep, WriteStep, HealthyStep, IInv, TypeOK, HeaderType, SearchType,
    DataType, HeaderFrame, SearchFrame, DeleteFrame
<1>2. /\ {"w_target", "w_erase"} \cap (HeaderPoint \cup SearchPoint) = {}
      /\ {"w_target", "w_erase"} \cap HeaderPoint = {}
  BY DEF HeaderPoint, SearchPoint
<1>3. CASE HeaderNext /\ UNCHANGED <<s, call, d, w, l>>
  <2>1. pc' # "w_rest"
    BY <1>1, <1>3, NextPoint DEF HeaderReturn
  <2> QED
    BY <1>1, <1>2, <1>3, <2>1, HeaderKeepsPoint DEF ErasingAt
<1>4. CASE SearchNext /\ UNCHANGED <<call, d, w, l>>
  <2>1. pc' # "w_rest"
    BY <1>1, <1>4, NextPoint DEF SearchReturn, SearchPoint
  <2> QED
    BY <1>1, <1>2, <1>4, <2>1, SearchKeepsPoint DEF ErasingAt
<1>5. CASE RewriteEraseNext
  <2>1. ~RewriteStart /\ ~RewriteDeleted /\ ~RewriteRest
    <3>1. RewriteStart \/ RewriteDeleted \/ RewriteRest =>
            \/ pc' \in {"done", "v_saved", "d_block", "w_next"}
            \/ pc' = "h_load" /\ h'.back = "w_header"
      <4>1. RewriteRest => pc' \in {"done", "v_saved", "w_next"}
        BY DEF RewriteRest, RewriteBack, Return, Goto
      <4>2. RewriteStart => pc' \in {"done", "v_saved", "d_block"}
        BY DEF RewriteStart, RewriteBack, Return, Delete
      <4>3. RewriteDeleted => \/ pc' \in {"done", "v_saved"}
                              \/ pc' = "h_load" /\ h'.back = "w_header"
        BY DEF RewriteDeleted, RewriteBack, Return, LoadHeader, NoHeader
      <4> QED
        BY <4>1, <4>2, <4>3
    <3> QED
      BY <3>1 DEF ErasingAt, Within, At, SearchPoint, HeaderPoint
  <2> QED
    BY <1>5, <2>1 DEF RewriteEraseNext
<1>6. CASE RewriteWriteNext
  BY <1>6, NextPoint DEF ErasingAt, Within, At, SearchPoint, HeaderPoint
<1>7. CASE DeleteNext \/ SaveNext \/ LoadNext \/ ClearNext \/ FormatNext \/ Request
  BY <1>1, <1>7, NextPoint DEF ErasingAt, Within, At, SearchPoint, HeaderPoint,
    DeletePoint, DeleteReturn
<1>8. CASE Answer \/ Crash
  BY <1>8 DEF Answer, Crash, Forget, ErasingAt, Within, At, SearchPoint, HeaderPoint
<1>9. CASE Drive
  BY <1>9, HealthyDrive DEF Drive, RecordStep, WriteStep, HealthyStep, IInv,
    TypeOK
<1>10. CASE UNCHANGED vars
  <2>1. pc' = pc /\ h' = h /\ s' = s /\ w' = w /\ call' = call
    BY <1>10 DEF vars, control, frames
  <2> QED
    BY <2>1 DEF ErasingAt, Within, At
<1> QED
  BY <1>3, <1>4, <1>5, <1>6, <1>7, <1>8, <1>9, <1>10 DEF Next, Library, DataNext

\* The page that joins the array of addresses is not in use.
LEMMA TargetJoins ==
  ASSUME RecordStep, [Next]_vars, TakesOwn, RewriteTarget, ErasingAt'
  PROVE  \A a \in BatchPages' : a \in BatchPages \/ Unused(mem, a)
<1>1. pc = "w_target" /\ w \in RewriteFrame /\ call.len \in Nat /\ w.batch \in Seq(Addr)
  BY WriteTypes DEF RewriteTarget, RecordStep
<1> DEFINE f == [w EXCEPT !.target = IF st = "OK" THEN s.found ELSE 0]
<1>2. f.erased = w.erased /\ f.batch = w.batch
      /\ f.target = (IF st = "OK" THEN s.found ELSE 0)
  BY <1>1 DEF RewriteFrame
<1>3. \/ w' = f
      \/ (st = "OK" \/ w.erased + 1 >= call.len) /\ ~BatchEnds(f) /\ w' = Targeted(f)
  <2>1. pc' \notin {"v_saved", "done"}
    BY DEF ErasingAt, Within, At, SearchPoint, HeaderPoint
  <2> QED
    BY <2>1 DEF RewriteTarget, Return, RewriteBack
<1> HIDE DEF f
<1>4. CASE w' = f
  BY <1>2, <1>4 DEF BatchPages
<1>5. CASE /\ st = "OK" \/ w.erased + 1 >= call.len
           /\ ~BatchEnds(f) /\ w' = Targeted(f)
  <2>1. w.erased + 1 < call.len /\ st = "OK" /\ w.erased \in Nat
    <3>1. ~(w.erased + 1 >= call.len)
      BY <1>2, <1>5 DEF BatchEnds
    <3> QED
      BY <1>1, <1>5, <3>1, WriteTypes DEF RecordStep
  <2>2. NextEmpty(mem, s.from, s.found) /\ s.found \in Addr
    BY <1>1, <2>1 DEF RecordStep, WriteStep, EmptySearch, NextEmpty, DataAddr
  <2>3. w'.batch = Append(w.batch, s.found)
    <3>1. Targeted(f) = [f EXCEPT !.erase = s.found, !.erased = w.erased + 1,
                                  !.batch = Append(w.batch, s.found)]
      BY <1>2, <2>1 DEF Targeted
    <3>2. "batch" \in DOMAIN f
      BY <1>1 DEF f, RewriteFrame
    <3> QED
      BY <1>5, <3>1, <3>2
  <2>4. BatchPages' = BatchPages \cup {s.found}
    BY <1>1, <2>2, <2>3, BatchAppends DEF BatchPages
  <2> QED
    BY <2>2, <2>4, NextEmptyUnused
<1> QED
  BY <1>3, <1>4, <1>5

\* It is alone there after an erase.
LEMMA EraseJoins ==
  ASSUME RecordStep, RewriteErase
  PROVE  \A a \in BatchPages' : Unused(mem, a)
<1>1. pc = "w_erase" /\ w \in RewriteFrame
  BY WriteTypes DEF RewriteErase, RecordStep
<1>2. w' = Targeted([w EXCEPT !.batch = << >>])
  <2>1. PICK status \in {"OK", "BUSY", "ERROR"} :
          /\ ErasePages(BatchPages, status)
          /\ \/ status = "BUSY" \/ status = "ERROR"
             \/ status = "OK" /\ w' = Targeted([w EXCEPT !.batch = << >>])
    BY DEF RewriteErase
  <2>2. status = "OK"
    BY <2>1, HealthyErase DEF RecordStep, WriteStep, HealthyStep
  <2> QED
    BY <2>1, <2>2
<1>3. w'.batch = IF w.erased + 1 < call.len THEN <<w.target>> ELSE << >>
  <2>1. /\ [w EXCEPT !.batch = << >>].target = w.target
        /\ [w EXCEPT !.batch = << >>].erased = w.erased
        /\ [w EXCEPT !.batch = << >>].batch = << >>
    BY <1>1 DEF RewriteFrame
  <2>2. Append(<< >>, w.target) = <<w.target>>
    OBVIOUS
  <2>3. w' = [[w EXCEPT !.batch = << >>] EXCEPT !.erase = w.target,
                !.erased = w.erased + 1,
                !.batch = IF w.erased + 1 < call.len THEN <<w.target>> ELSE << >>]
    BY <1>2, <2>1, <2>2 DEF Targeted
  <2> QED
    BY <1>1, <2>3 DEF RewriteFrame
<1>4. w.erased + 1 < call.len => Unused(mem, w.target)
  BY <1>1, NextEmptyUnused DEF RecordStep, WriteStep, WInv, ErasePlan, ErasingAt, Within,
    At
<1>5. DOMAIN <<w.target>> = {1} /\ <<w.target>>[1] = w.target /\ DOMAIN << >> = {}
  OBVIOUS
<1> QED
  BY <1>3, <1>4, <1>5 DEF BatchPages

\* So the pages to erase stay its address and pages that are not in use.
LEMMA NextTakesBatch ==
  ASSUME RecordStep, TakesOwn, [Next]_vars, ErasingAt'
  PROVE  \A a \in BatchPages' : a = call'.addr \/ Unused(mem', a)
<1>1. CASE RewriteHeader
  <2>1. w'.batch = <<call.addr>> /\ call' = call
    <3>1. pc' \notin {"v_saved", "done"}
      BY DEF ErasingAt, Within, At, SearchPoint, HeaderPoint
    <3> QED
      BY <1>1, <3>1 DEF RewriteHeader, Return, RewriteBack, NoRewrite
  <2>2. DOMAIN <<call.addr>> = {1} /\ <<call.addr>>[1] = call.addr
    OBVIOUS
  <2> QED
    BY <2>1, <2>2 DEF BatchPages
<1>2. CASE ~RewriteHeader
  <2>1. ErasingAt /\ call' = call
    BY <1>2, ErasingFrom DEF RewriteTarget, RewriteErase, ErasingAt, Within, At
  <2>2. \A a \in BatchPages' : a \in BatchPages \/ Unused(mem, a)
    <3>1. CASE RewriteTarget
      BY <3>1, TargetJoins
    <3>2. CASE RewriteErase
      BY <3>2, EraseJoins
    <3>3. CASE UNCHANGED <<call, w>>
      BY <3>3 DEF BatchPages
    <3> QED
      BY <1>2, <3>1, <3>2, <3>3, ErasingFrom
  <2>3. \A a \in BatchPages : a = call.addr \/ Unused(mem, a)
    BY <2>1 DEF TakesOwn
  <2>4. \A a : Unused(mem, a) => Unused(mem', a)
    BY <2>1, ErasingKeepsTables DEF Unused
  <2> QED
    BY <2>1, <2>2, <2>3, <2>4
<1> QED
  BY <1>1, <1>2

\* A failed save is undone by a delete of its key.
LEMMA NextUndoesOwn ==
  ASSUME RecordStep, TakesOwn, [Next]_vars, At(DeletePoint)', d'.back = "v_undone"
  PROVE  d'.key = call'.key
<1>1. /\ h.back \in HeaderReturn /\ s.back \in SearchReturn /\ d.back \in DeleteReturn
      /\ HealthyStep
  BY DEF RecordStep, WriteStep, HealthyStep, IInv, TypeOK, HeaderType, SearchType,
    DataType, HeaderFrame, SearchFrame, DeleteFrame
<1>2. CASE HeaderNext /\ UNCHANGED <<s, call, d, w, l>>
  <2>1. DeletePoint \cap HeaderPoint = {}
    BY DEF DeletePoint, HeaderPoint
  <2> QED
    BY <1>1, <1>2, <2>1, HeaderKeepsPoint DEF TakesOwn
<1>3. CASE DeleteNext
  BY <1>3, NextPoint, PointOfStep DEF TakesOwn, At
<1>4. CASE SaveNext
  <2>1. pc' = "d_block"
    BY <1>4, NextPoint DEF At, HeaderPoint, DeletePoint
  <2>2. SaveRewritten /\ call' = call
    BY <1>4, <2>1, PointOfStep DEF SaveNext, SaveStart, SaveCheck, SaveUndone, LoadHeader,
      Return, Goto
  <2> QED
    BY <2>1, <2>2 DEF SaveRewritten, Delete, NoDelete, Goto
<1>5. CASE (SearchNext /\ UNCHANGED <<call, d, w, l>>) \/ RewriteEraseNext
             \/ RewriteWriteNext \/ LoadNext \/ ClearNext \/ FormatNext \/ Request
  BY <1>1, <1>5, NextPoint DEF SearchReturn, At, SearchPoint, HeaderPoint, DeletePoint
<1>6. CASE Answer \/ Crash
  BY <1>6 DEF Answer, Crash, Forget, At, HeaderPoint, DeletePoint
<1>7. CASE Drive
  BY <1>7, HealthyDrive DEF Drive, RecordStep, WriteStep, HealthyStep, IInv,
    TypeOK
<1>8. CASE UNCHANGED vars
  <2>1. pc' = pc /\ h' = h /\ d' = d /\ call' = call
    BY <1>8 DEF vars, control, frames
  <2> QED
    BY <2>1 DEF TakesOwn, At
<1> QED
  BY <1>2, <1>3, <1>4, <1>5, <1>6, <1>7, <1>8 DEF Next, Library, DataNext

\* A call keeps to its own.
LEMMA NextTakesOwn ==
  ASSUME RecordStep, TakesOwn, [Next]_vars
  PROVE  TakesOwn'
BY NextTakesAddress, NextTakesBatch, NextUndoesOwn DEF TakesOwn

-----------------------------------------------------------------------------
(* The pages of another key.                                               *)

\* save, rewrite and deleteData save the tables that are to lose their own key only.
LEMMA DeletesOwn ==
  ASSUME RecordStep, TakesOwn, call.op \in {"save", "rewrite", "delete"}, pc = "h_save"
  PROVE  h.back # "m_saved" /\ (h.back = "d_saved" => d.key = call.key)
<1>1. CASE call.op = "delete"
  BY <1>1 DEF RecordStep, WriteStep, DeleteClears, At, HeaderPoint, DeletePoint
<1>2. CASE call.op \in {"save", "rewrite"}
  <2>1. \/ Writing
        \/ At(DeletePoint) /\ d.back = "v_undone"
    BY <1>2 DEF RecordStep, WriteStep, WInv, WriteCall
  <2>2. h.back # "m_saved"
    BY <2>1 DEF Writing, Within, At, RewritePoint, SearchPoint, HeaderPoint, DeletePoint
  <2>3. ASSUME h.back = "d_saved"
        PROVE  At(DeletePoint) /\ d.back \in {"w_deleted", "v_undone"}
    BY <2>1, <2>3 DEF Writing, Within, At, RewritePoint, SearchPoint, HeaderPoint,
      DeletePoint
  <2> QED
    BY <2>2, <2>3 DEF RecordStep, WriteStep, DeleteClears, TakesOwn
<1> QED
  BY <1>1, <1>2

\* A call that erases or writes pages is save or rewrite.
LEMMA ErasingIsWriting ==
  ASSUME WriteLayout, ErasingAt \/ WritingAt
  PROVE  call.op \in {"save", "rewrite"} /\ Rewriting
<1>1. Writing /\ Rewriting
  BY DEF ErasingAt, WritingAt, Writing, Rewriting, Within, At, RewritePoint
<1> QED
  BY <1>1 DEF WriteLayout

\* A header that is saved leaves the entries of a key, unless it is to lose them.
LEMMA HeaderKeepsOthers ==
  ASSUME RecordStep, HeaderSave, NEW key \in Key, ~(WritingAt /\ key = call.key),
         h.back # "m_saved", ~(h.back = "d_saved" /\ key = d.key),
         NEW c \in Held(mem, key)
  PROVE  c \in Held(mem', key)
<1>1. /\ c \in DataAddr /\ MacroblockIndex(c) \in Searched /\ PageIndex(c) \in Index
      /\ Table(mem, MacroblockIndex(c))[PageIndex(c)].st = "OK"
      /\ Table(mem, MacroblockIndex(c))[PageIndex(c)].key = key
      /\ mem[c] # Bad /\ mem[c].key = key /\ mem'[c] = mem[c]
  BY HeldFacts, SearchedPage, HeaderSaved
<1>2. \A b \in Searched : ValidCopies(mem, b) # {}
  BY <1>1 DEF RecordStep, RecordsWhole, HeadersFirst
<1>3. Table(mem', MacroblockIndex(c))[PageIndex(c)]
        = Table(mem, MacroblockIndex(c))[PageIndex(c)]
  <2>1. CASE MacroblockIndex(c) # h.mb
    BY <1>1, <1>2, <2>1, HeaderSaved, SearchedIsMacroblock
  <2>2. CASE MacroblockIndex(c) = h.mb
    <3>1. c = PageAddress(h.mb, PageIndex(c)) /\ Table(mem', h.mb) = h.page.toc
      BY <1>1, <2>2, AddressOfPlace, HeaderSaved
    <3>2. ~(WritingAt /\ mem[PageAddress(h.mb, PageIndex(c))].key = call.key)
      BY <1>1, <3>1
    <3>3. h.page.toc[PageIndex(c)] = Table(mem, h.mb)[PageIndex(c)]
      BY <1>1, <1>2, <2>2, <3>2, HeaderEntries
    <3> QED
      BY <2>2, <3>1, <3>3
  <2> QED
    BY <2>1, <2>2
<1> QED
  BY <1>1, <1>3 DEF Held, Listed, ListedKey

\* An erase leaves the pages of another key, but for one that is at the address
\* rewrite is given.
LEMMA EraseKeepsOthers ==
  ASSUME RecordStep, TakesOwn, RewriteErase \/ RewriteRest,
         NEW key \in Key, key # call.key, NEW c \in Held(mem, key),
         call.op = "rewrite" => c # call.addr
  PROVE  c \in Held(mem', key)
<1>1. /\ c \in DataAddr /\ MacroblockIndex(c) \in Searched
      /\ Table(mem, MacroblockIndex(c))[PageIndex(c)].st = "OK"
      /\ Table(mem, MacroblockIndex(c))[PageIndex(c)].key = key
      /\ mem[c] # Bad
  BY HeldFacts
<1>2. ErasingAt
  BY DEF RewriteErase, RewriteRest, ErasingAt, Within, At
<1>3. call.op \in {"save", "rewrite"} /\ Rewriting
  BY <1>2, ErasingIsWriting DEF RecordStep, WriteStep, Layout
<1>4. c # call.addr /\ ~Unused(mem, c)
  BY <1>1, <1>3 DEF TakesOwn, NotOfOther, Unused
<1>5. c \notin BatchPages
  BY <1>2, <1>4 DEF TakesOwn
<1>6. mem'[c] = mem[c] /\ SameTables(mem, mem')
  BY <1>1, <1>5, BatchGone
<1>7. \A b \in Searched : Table(mem', b) = Table(mem, b)
  <2>1. \A b \in Searched : ValidCopies(mem, b) # {}
    BY <1>1 DEF RecordStep, RecordsWhole, HeadersFirst
  <2> QED
    BY <1>6, <2>1, SearchedIsMacroblock DEF SameTables
<1> QED
  BY <1>1, <1>6, <1>7, SameHeld

\* A page is written where there was none.
LEMMA PageKeepsOthers ==
  ASSUME RecordStep, RewritePage, NEW key \in Key, NEW c \in Held(mem, key)
  PROVE  c \in Held(mem', key)
<1>1. c \in DataAddr /\ mem[c] # Bad
  BY HeldFacts
<1>2. pc = "w_page" /\ WritingAt
  BY PageSaved DEF WritingAt, Within, At
<1>3. mem[w.cur] = Bad
  <2>1. PICK p \in [0 .. MaxLen -> DataAddr] : Writes(p)
    BY <1>2, WritingPlan
  <2>2. w.n < call.len /\ w.n \in w.n .. call.len - 1
    BY <1>2, WritingPlan, PageSaved
  <2> QED
    BY <2>1, <2>2 DEF Writes
<1>4. mem'[c] = mem[c] /\ \A b \in Searched : Table(mem', b) = Table(mem, b)
  BY <1>1, <1>3, PageSaved, SearchedIsMacroblock DEF SameTables, DataAddr
<1> QED
  BY <1>1, <1>4, SameHeld

\* So the pages of another key stay as they are.
LEMMA OthersHeld ==
  ASSUME RecordStep, TakesOwn, [Next]_vars, call.op \in {"save", "delete"},
         NEW key \in Key, key # call.key
  PROVE  /\ Held(mem', key) = Held(mem, key)
         /\ \A a \in Held(mem, key) : mem'[a] = mem[a]
<1>1. KeepsKey(key)
  BY NextKeepsKey
<1>2. ASSUME NEW c \in Held(mem, key)
      PROVE  c \in Held(mem', key)
  <2>1. CASE mem' = mem
    BY <1>2, <2>1
  <2>2. CASE HeaderSave
    <3>1. h.back # "m_saved" /\ ~(h.back = "d_saved" /\ key = d.key)
      BY <2>2, DeletesOwn DEF HeaderSave
    <3> QED
      BY <1>2, <2>2, <3>1, HeaderKeepsOthers
  <2>3. CASE RewriteErase \/ RewriteRest
    BY <1>2, <2>3, EraseKeepsOthers
  <2>4. CASE RewritePage
    BY <1>2, <2>4, PageKeepsOthers
  <2> QED
    BY <2>1, <2>2, <2>3, <2>4, StepKinds
<1>3. Held(mem', key) = Held(mem, key)
  BY <1>1, <1>2 DEF KeepsKey
<1>4. \A a \in Held(mem, key) : mem'[a] = mem[a]
  BY <1>1, <1>3, HeldFacts DEF KeepsKey
<1> QED
  BY <1>3, <1>4

\* The addresses another key is found at are those of its own starts.
OthersAtStarts ==
  call.op \in {"save", "delete"} =>
    \A key \in Key : key # call.key => FoundAt(mem, key) = Starts(mem, key)

\* They are, since a page that is listed under another key holds that key.
LEMMA OthersFound == KeysAgree /\ TakesOwn /\ WriteLayout => OthersAtStarts
<1> SUFFICES ASSUME KeysAgree, TakesOwn, WriteLayout, call.op \in {"save", "delete"},
                    NEW key \in Key, key # call.key
             PROVE  FoundAt(mem, key) = Starts(mem, key)
  BY DEF OthersAtStarts
<1>1. ASSUME NEW a \in FoundAt(mem, key)
      PROVE  a \in Starts(mem, key)
  <2>1. /\ a \in Listed(mem, "OK") /\ ListedKey(mem, a) = key
        /\ mem[a] # Bad /\ IsStart(mem, a)
    BY <1>1 DEF FoundAt, LoadsAsStart, Readable
  <2>2. ~(WritingAt /\ a = call.addr)
    <3> SUFFICES ASSUME WritingAt, a = call.addr PROVE FALSE
      OBVIOUS
    <3>1. call.op = "save" /\ Rewriting
      BY ErasingIsWriting
    <3>2. NotOfOther(a)
      BY <3>1 DEF TakesOwn
    <3> QED
      BY <2>1, <3>2 DEF NotOfOther, Listed, ListedKey
  <2>3. mem[a].key = key
    BY <2>1, <2>2 DEF KeysAgree
  <2> QED
    BY <2>1, <2>3 DEF Starts, Held
<1>2. ASSUME NEW a \in Starts(mem, key)
      PROVE  a \in FoundAt(mem, key)
  BY <1>2 DEF Starts, Held, Listed, DataAddr, FoundAt, LoadsAsStart, Readable
<1> QED
  BY <1>1, <1>2

-----------------------------------------------------------------------------
(* The record of another key.                                              *)

\* Two images with the same pages of a key hold the same chains of it.
LEMMA SameHops ==
  ASSUME NEW m, NEW k, NEW key, Leads(m, key), Leads(k, key),
         Held(k, key) = Held(m, key), \A a \in Held(m, key) : k[a] = m[a]
  PROVE  \A n \in 0 .. PagesCount : \A b \in Held(m, key) : Hop(k)[n][b] = Hop(m)[n][b]
<1> DEFINE H == Held(m, key)
           S == {n \in Nat : \A b \in H : Hop(k)[n][b] = Hop(m)[n][b]}
<1>1. \A b \in H : b \in Addr
  BY HeldFacts DEF DataAddr
<1>2. ASSUME NEW n \in 0 .. PagesCount, n = 0 \/ n - 1 \in S, NEW b \in H
      PROVE  Hop(k)[n][b] = Hop(m)[n][b]
  <2>1. k[b] = m[b] /\ b \in Held(k, key)
    BY <1>2
  <2>2. Linked(k, b, k[b].next) <=> Linked(m, b, m[b].next)
    <3>1. Linked(m, b, m[b].next) => m[b].next \in H
      BY <1>2 DEF Leads, LeadsOn
    <3>2. Linked(k, b, k[b].next) => k[b].next \in H
      BY <2>1 DEF Leads, LeadsOn
    <3> QED
      BY <2>1, <3>1, <3>2 DEF Linked, Readable
  <2>3. b \in Addr /\ (IsEnd(k, b) <=> IsEnd(m, b))
    BY <1>1, <1>2, <2>1 DEF IsEnd
  <2>4. Hop(m)[n][b] =
          IF IsEnd(m, b) THEN <<b>>
          ELSE IF n = 0 \/ ~Linked(m, b, m[b].next) THEN <<b, None>>
          ELSE <<b>> \o Hop(m)[n - 1][m[b].next]
    BY <2>3, HopValue
  <2>5. Hop(k)[n][b] =
          IF IsEnd(k, b) THEN <<b>>
          ELSE IF n = 0 \/ ~Linked(k, b, k[b].next) THEN <<b, None>>
          ELSE <<b>> \o Hop(k)[n - 1][k[b].next]
    BY <2>3, HopValue
  <2>6. CASE IsEnd(m, b) \/ n = 0 \/ ~Linked(m, b, m[b].next)
    BY <2>2, <2>6, <2>3, <2>4, <2>5
  <2>7. CASE ~IsEnd(m, b) /\ n # 0 /\ Linked(m, b, m[b].next)
    <3>1. m[b].next \in H /\ n - 1 \in S
      BY <1>2, <2>7 DEF Leads, LeadsOn
    <3>2. Hop(k)[n - 1][m[b].next] = Hop(m)[n - 1][m[b].next]
      BY <3>1
    <3>3. /\ Hop(k)[n][b] = <<b>> \o Hop(k)[n - 1][k[b].next]
          /\ Hop(m)[n][b] = <<b>> \o Hop(m)[n - 1][m[b].next]
      BY <2>2, <2>7, <2>3, <2>4, <2>5
    <3> QED
      BY <2>1, <3>2, <3>3
  <2> QED
    BY <2>6, <2>7
<1>3. 0 \in S
  BY <1>2, Geometry
<1>4. ASSUME NEW j \in 0 .. PagesCount, j < PagesCount, j \in S
      PROVE  j + 1 \in S
  <2>1. j + 1 \in 0 .. PagesCount /\ (j + 1) - 1 \in S /\ j + 1 \in Nat
    BY <1>4, Geometry
  <2> QED
    BY <1>2, <2>1
<1>5. \A j \in 0 .. PagesCount : j \in S
  <2> HIDE DEF S
  <2> QED
    BY <1>3, <1>4, Geometry, CountUp
<1> QED
  BY <1>5

\* So they hold the same record.
LEMMA SameStored ==
  ASSUME NEW m, NEW k, NEW key, Leads(m, key), Leads(k, key),
         Held(k, key) = Held(m, key), \A a \in Held(m, key) : k[a] = m[a],
         FoundAt(m, key) = Starts(m, key), FoundAt(k, key) = Starts(k, key)
  PROVE  Stored(k, key) = Stored(m, key)
<1>1. \A a \in Held(m, key) : Chain(k, a) = Chain(m, a)
  BY SameHops, ChainIsHop, Geometry
<1>2. FoundAt(k, key) = FoundAt(m, key) /\ FoundAt(m, key) \subseteq Held(m, key)
  BY DEF Starts, IsStart
<1>3. \A a \in Held(m, key) :
        ChainPages(k, a) = ChainPages(m, a) /\ (Complete(k, a) <=> Complete(m, a))
  BY <1>1 DEF ChainPages, Complete
<1>4. ASSUME NEW a \in Held(m, key), Complete(m, a)
      PROVE  ContentAt(k, a) = ContentAt(m, a)
  <2>1. \A j \in DOMAIN Chain(m, a) : k[Chain(m, a)[j]] = m[Chain(m, a)[j]]
    BY <1>4, ChainIsHeld DEF ChainPages
  <2> QED
    BY <1>1, <2>1 DEF ContentAt
<1> DEFINE record(n, a) == [content |-> ContentAt(n, a), pages |-> ChainPages(n, a)]
           found(n)     == {a \in Least(FoundAt(n, key)) : Complete(n, a)}
           records(n)   == {record(n, a) : a \in found(n)}
<1>5. found(k) = found(m)
  BY <1>2, <1>3 DEF Least
<1>6. \A a \in found(m) : a \in Held(m, key) /\ Complete(m, a)
  BY <1>2 DEF Least
<1>7. \A a \in found(m) : record(k, a) = record(m, a)
  BY <1>3, <1>4, <1>6
<1>8. records(k) = records(m)
  <2> HIDE DEF record, found
  <2> QED
    BY <1>5, <1>7
<1>9. \A n : Stored(n, key) = IF records(n) = {} THEN [content |-> << >>, pages |-> {}]
                               ELSE CHOOSE r \in records(n) : TRUE
  BY DEF Stored
<1> HIDE DEF records
<1> QED
  BY <1>8, <1>9

-----------------------------------------------------------------------------
(* save and deleteData.                                                    *)

\* A step of save or deleteData leaves the records of all other keys.
LEMMA StepKeepsOthers ==
  ASSUME RecordStep, TakesOwn, TakesOwn', RecordsWhole', [Next]_vars,
         call.op \in {"save", "delete"}, NEW key \in ClientKeys \ {call.key}
  PROVE  Stored(mem', key) = Stored(mem, key)
<1>1. RecordsWhole /\ Layout /\ Layout'
  BY DEF RecordStep, WriteStep
<1>2. key \in Key /\ key # call.key
  BY ClientAssumption, DataAssumption DEF UserKey, Key
<1>3. CASE mem' = mem
  BY <1>3
<1>4. CASE mem' # mem
  <2>1. call' = call
    BY <1>1, <1>4, StepKinds, BatchGone, PageSaved
  <2>2. /\ Held(mem', key) = Held(mem, key)
        /\ \A a \in Held(mem, key) : mem'[a] = mem[a]
    BY <1>1, <1>2, OthersHeld
  <2>3. OthersAtStarts /\ OthersAtStarts'
    <3>1. KeysAgree' /\ TakesOwn' /\ WriteLayout' => OthersAtStarts'
      BY OthersFound, PTL
    <3> QED
      BY <1>1, <3>1, OthersFound DEF RecordsWhole, Layout
  <2>4. FoundAt(mem, key) = Starts(mem, key) /\ FoundAt(mem', key) = Starts(mem', key)
    BY <1>2, <2>1, <2>3 DEF OthersAtStarts
  <2>5. Leads(mem, key) /\ Leads(mem', key)
    BY <1>1, <1>2, <2>1 DEF RecordsWhole, PagesLead
  <2> QED
    BY <2>2, <2>3, <2>4, <2>5, SameStored
<1> QED
  BY <1>3, <1>4

-----------------------------------------------------------------------------
(* The call in progress.                                                   *)

\* A call begins, ends, or goes on.
LEMMA CallGoesOn ==
  ASSUME RecordStep, [Next]_vars
  PROVE  \/ Request \/ Answer \/ UNCHANGED vars
         \/ call' = call /\ pc \notin {"idle", "done"} /\ pc' # "idle"
<1>1. /\ DeviceType /\ BusyCounted
      /\ h.back \in HeaderReturn /\ s.back \in SearchReturn /\ d.back \in DeleteReturn
  BY DEF RecordStep, WriteStep, HealthyStep, IInv, TypeOK, HeaderType, SearchType,
    DataType, HeaderFrame, SearchFrame, DeleteFrame
<1>2. ReturnsToCaller /\ ~Crash /\ ~Drive
  BY <1>1, HealthyDrive DEF Drive, RecordStep, RecordsWhole
<1> USE DEF ReturnsToCaller, At, SearchPoint, DeletePoint, HeaderPoint, FormatPoint
<1>3. CASE HeaderNext /\ UNCHANGED <<s, call, d, w, l>>
  BY <1>1, <1>2, <1>3, NextPoint, PointOfStep
<1>4. CASE SearchNext /\ UNCHANGED <<call, d, w, l>>
  BY <1>1, <1>2, <1>4, NextPoint, PointOfStep
<1>5. CASE DeleteNext
  BY <1>1, <1>2, <1>5, NextPoint, PointOfStep
<1>6. CASE RewriteEraseNext \/ RewriteWriteNext
  BY <1>6, NextPoint, PointOfStep
<1>7. CASE SaveNext \/ LoadNext \/ ClearNext
  BY <1>7, NextPoint, PointOfStep
<1>8. CASE FormatNext
  BY <1>8, NextPoint, PointOfStep
<1> QED
  BY <1>2, <1>3, <1>4, <1>5, <1>6, <1>7, <1>8 DEF Next, Library, DataNext

\* What a client asks for.
LEMMA RequestNames ==
  ASSUME Request
  PROVE  /\ pc = "idle" /\ pc' # "idle" /\ call'.op \in Operation
         /\ pc' = "done" => call'.op \in {"load", "save", "rewrite"} /\ st' = "OOM"
         /\ call'.op \in {"save", "rewrite"} =>
              call'.addr \in ClientAddrs /\ call'.len \in ClientLens
         /\ call'.op \in {"save", "rewrite", "delete"} => call'.key \in ClientKeys
         /\ call'.op = "clear" => pc' = "c_start"
         /\ call'.op = "format" => pc' = "m_block"
<1> DEFINE Goal ==
      /\ pc = "idle" /\ pc' # "idle" /\ call'.op \in Operation
      /\ pc' = "done" => call'.op \in {"load", "save", "rewrite"} /\ st' = "OOM"
      /\ call'.op \in {"save", "rewrite"} =>
           call'.addr \in ClientAddrs /\ call'.len \in ClientLens
      /\ call'.op \in {"save", "rewrite", "delete"} => call'.key \in ClientKeys
      /\ call'.op = "clear" => pc' = "c_start"
      /\ call'.op = "format" => pc' = "m_block"
<1>1. \A mode, key : Find(mode, key) => Goal
  BY DEF Find, Search, NoCall, Operation
<1>2. \A addr, len : Load(addr, len) => Goal
  BY DEF Load, Enter, Refuse, Return, NoCall, Operation
<1>3. ASSUME NEW addr \in ClientAddrs, NEW len \in ClientLens, NEW key \in ClientKeys,
             NEW val, Save(addr, key, val, len) \/ Rewrite(addr, key, val, len)
      PROVE  Goal
  <2>1. PICK op \in {"save", "rewrite"} :
          call' = [NoCall EXCEPT !.op = op, !.addr = addr, !.key = key, !.val = val,
                                 !.len = len]
    BY <1>3 DEF Save, Rewrite, Write, Enter, Refuse
  <2>2. /\ call'.op = op /\ call'.addr = addr /\ call'.key = key /\ call'.len = len
    BY <2>1 DEF NoCall
  <2>3. pc = "idle" /\ pc' # "idle" /\ (pc' = "done" => st' = "OOM")
    BY <1>3 DEF Save, Rewrite, Write, Enter, Refuse, Return
  <2> QED
    BY <2>2, <2>3 DEF Operation
<1>4. \A key \in ClientKeys : DeleteData(key) => Goal
  BY DEF DeleteData, Delete, NoCall, Operation
<1>5. \A addr : ClearAddress(addr) => Goal
  BY DEF ClearAddress, Enter, NoCall, Operation
<1>6. Format => Goal
  BY DEF Format, Enter, NoCall, Operation
<1> HIDE DEF Goal
<1>7. Goal
  BY <1>1, <1>2, <1>3, <1>4, <1>5, <1>6 DEF Request
<1> QED
  BY <1>7 DEF Goal

\* It is one of a client of this instance.
LEMMA NextNamesCall ==
  ASSUME RecordStep, NamesCall, [Next]_vars
  PROVE  NamesCall'
<1>1. CASE Request
  BY <1>1, RequestNames DEF NamesCall
<1>2. CASE Answer
  BY <1>2 DEF Answer, Forget, NoCall, NamesCall
<1>3. CASE UNCHANGED vars
  BY <1>3 DEF vars, control, frames, NamesCall
<1>4. CASE call' = call /\ pc # "idle" /\ pc' # "idle"
  BY <1>4 DEF NamesCall
<1> QED
  BY <1>1, <1>2, <1>3, <1>4, CallGoesOn

\* clearAddress and format stay at points of their own.
LEMMA NextPlainCalls ==
  ASSUME RecordStep, PlainCalls, [Next]_vars
  PROVE  PlainCalls'
<1>1. /\ DeviceType /\ BusyCounted /\ HealthyStep
      /\ h.back \in HeaderReturn /\ s.back \in SearchReturn /\ d.back \in DeleteReturn
  BY DEF RecordStep, WriteStep, HealthyStep, IInv, TypeOK, HeaderType, SearchType,
    DataType, HeaderFrame, SearchFrame, DeleteFrame
<1>2. ~Crash /\ ~Drive
  BY <1>1, HealthyDrive DEF Drive, RecordStep
<1>3. CASE Request
  BY <1>3, RequestNames DEF PlainCalls, At, FormatPoint
<1>4. CASE Answer
  BY <1>4 DEF Answer, Forget, NoCall, PlainCalls
<1>5. CASE UNCHANGED vars
  <2>1. pc' = pc /\ h' = h /\ d' = d /\ call' = call
    BY <1>5 DEF vars, control, frames
  <2> QED
    BY <2>1 DEF PlainCalls, At
<1>6. CASE HeaderNext /\ UNCHANGED <<s, call, d, w, l>>
  <2>1. DeletePoint \cap HeaderPoint = {} /\ FormatPoint \cap HeaderPoint = {}
    BY DEF DeletePoint, FormatPoint, HeaderPoint
  <2>2. pc \notin {"c_start", "c_load", "done"}
    BY <1>6, PointOfStep DEF HeaderPoint
  <2> QED
    BY <1>1, <1>6, <2>1, <2>2, HeaderKeepsPoint DEF PlainCalls
<1>7. CASE DeleteNext
  BY <1>1, <1>7, NextPoint, PointOfStep DEF PlainCalls, At, DeletePoint, HeaderPoint,
    FormatPoint
<1>8. CASE ClearNext
  BY <1>8, NextPoint, PointOfStep DEF PlainCalls, At, DeletePoint, HeaderPoint,
    FormatPoint
<1>9. CASE FormatNext
  BY <1>9, NextPoint, PointOfStep DEF PlainCalls, At, DeletePoint, HeaderPoint,
    FormatPoint
<1>10. CASE (SearchNext /\ UNCHANGED <<call, d, w, l>>) \/ RewriteEraseNext
              \/ RewriteWriteNext \/ SaveNext \/ LoadNext
  <2>1. /\ pc \in {"s_block", "s_header", "s_unit", "w_start", "w_deleted", "w_header",
                   "w_target", "w_erase", "w_rest", "w_next", "w_found", "w_switch",
                   "w_reload", "w_page", "w_end", "v_start", "v_check", "v_saved",
                   "v_undone", "l_start", "l_copy", "l_deleted"}
        /\ call' = call
    <3>1. SearchNext => pc \in {"s_block", "s_header", "s_unit"}
      BY PointOfStep DEF SearchPoint
    <3>2. LoadNext => pc \in {"l_start", "l_copy", "l_deleted"}
      BY DEF LoadNext, LoadStart, LoadCopy, LoadDeleted
    <3> QED
      BY <1>10, <3>1, <3>2, PointOfStep
  <2>2. call.op # "clear" /\ call.op # "format"
    BY <2>1 DEF PlainCalls, At, DeletePoint, HeaderPoint, FormatPoint
  <2> QED
    BY <2>1, <2>2 DEF PlainCalls
<1> QED
  BY <1>2, <1>3, <1>4, <1>5, <1>6, <1>7, <1>8, <1>9, <1>10 DEF Next, Library, DataNext

-----------------------------------------------------------------------------
(* What is left when a call is answered.                                   *)

\* The library comes back from the last header with STORAGE_OK.
LEMMA NextEndsWell ==
  ASSUME RecordStep, EmptyHanded, [Next]_vars, pc' = "w_end"
  PROVE  st' = "OK"
<1>1. /\ h.back \in HeaderReturn /\ s.back \in SearchReturn /\ d.back \in DeleteReturn
      /\ h \in HeaderFrame /\ DeviceType /\ BusyCounted /\ Healthy
  BY DEF RecordStep, WriteStep, HealthyStep, IInv, TypeOK, HeaderType, SearchType,
    DataType, HeaderFrame, SearchFrame, DeleteFrame
<1>2. ~Crash /\ ~Drive
  BY <1>1, HealthyDrive DEF Drive, RecordStep
<1>3. CASE HeaderNext
  <2>1. HeaderSave => st' = "OK"
    BY HeaderSaved
  <2>2. HeaderLoad => st' = "OK"
    BY <1>1, HealthyHeaderLoad
  <2> QED
    BY <1>3, <2>1, <2>2 DEF HeaderNext
<1>4. CASE SearchNext \/ DeleteNext \/ RewriteEraseNext \/ RewriteWriteNext \/ SaveNext
             \/ LoadNext \/ ClearNext \/ FormatNext \/ Request
  BY <1>1, <1>4, NextPoint DEF SearchPoint, DeletePoint, HeaderPoint, SearchReturn,
    DeleteReturn
<1>5. CASE Answer
  BY <1>5 DEF Answer, Forget
<1>6. CASE UNCHANGED vars
  BY <1>6 DEF EmptyHanded, vars, control
<1> QED
  BY <1>2, <1>3, <1>4, <1>5, <1>6 DEF Next, Library, DataNext

\* A delete that comes back has left no page of its key in any table.
LEMMA DeleteEmpties ==
  ASSUME RecordStep, DeleteNext, pc' \notin DeletePoint \cup HeaderPoint
  PROVE  mem' = mem /\ NoneListed(d.key)
<1>1. DeleteClears /\ d \in DeleteFrame
  BY DEF RecordStep, WriteStep, HealthyStep, IInv, TypeOK, DataType
<1>2. DeleteBlock
  <2>1. pc # "d_erase" /\ (pc = "d_header" => st = "OK")
    BY <1>1 DEF DeleteClears
  <2>2. ~DeleteErase
    BY <2>1 DEF DeleteErase
  <2>3. ~DeleteHeader
    BY <2>1 DEF DeleteHeader, SaveHeader, HeaderPoint
  <2>4. ~DeleteSaved
    BY DEF DeleteSaved, Goto, DeletePoint
  <2> QED
    BY <2>2, <2>3, <2>4 DEF DeleteNext
<1>3. pc = "d_block" /\ d.mb >= MacroblocksCount /\ mem' = mem
  BY <1>2 DEF DeleteBlock, LoadHeader, HeaderPoint, device
<1>4. \A b \in Searched : NoRecord(mem, b, d.key)
  <2>1. At(DeletePoint)
    BY <1>3 DEF At, DeletePoint
  <2>2. \A b \in Searched : b < d.mb
    <3>1. d.mb \in Nat /\ MacroblocksCount \in Nat
      BY <1>1, Geometry, MacroblockInRange DEF DeleteFrame
    <3> QED
      BY <1>3, <3>1 DEF Searched
  <2> QED
    BY <1>1, <2>1, <2>2 DEF DeleteClears
<1> QED
  BY <1>3, <1>4 DEF NoRecord, NoneListed

\* A failed save that has been undone has left none of its key.
LEMMA NextUndone ==
  ASSUME RecordStep, TakesOwn, EmptyHanded, [Next]_vars, pc' = "v_undone"
  PROVE  mem' = mem /\ call' = call /\ NoneListed(call.key)
<1>1. /\ h.back \in HeaderReturn /\ s.back \in SearchReturn /\ d.back \in DeleteReturn
      /\ DeviceType /\ BusyCounted
  BY DEF RecordStep, WriteStep, HealthyStep, IInv, TypeOK, HeaderType, SearchType,
    DataType, HeaderFrame, SearchFrame, DeleteFrame
<1>2. ~Crash /\ ~Drive
  BY <1>1, HealthyDrive DEF Drive, RecordStep
<1>3. CASE DeleteNext
  <2>1. d.back = "v_undone" /\ pc \in DeletePoint /\ call' = call
    BY <1>3, NextPoint, PointOfStep DEF DeletePoint
  <2>2. d.key = call.key
    BY <2>1 DEF TakesOwn, At
  <2> QED
    BY <1>3, <2>1, <2>2, DeleteEmpties DEF DeletePoint, HeaderPoint
<1>4. CASE HeaderNext \/ SearchNext \/ RewriteEraseNext \/ RewriteWriteNext \/ SaveNext
             \/ LoadNext \/ ClearNext \/ FormatNext \/ Request
  BY <1>1, <1>4, NextPoint DEF SearchPoint, HeaderPoint, HeaderReturn, SearchReturn
<1>5. CASE Answer
  BY <1>5 DEF Answer, Forget
<1>6. CASE UNCHANGED vars
  BY <1>6 DEF EmptyHanded, vars, control, frames, device
<1> QED
  BY <1>2, <1>3, <1>4, <1>5, <1>6 DEF Next, Library, DataNext

\* A rewrite that comes back with another status than STORAGE_OK has found no page
\* to erase, when it says so, and has left no record of its key.
LEMMA RewriteComesBack ==
  ASSUME RecordStep, EmptyHanded, RewriteEraseNext \/ RewriteWriteNext,
         pc' \in {"done", "v_saved"}, st' = "NOT_FOUND"
  PROVE  mem' = mem /\ NoneListed(call.key)
<1>1. /\ BusyCounted /\ Healthy
      /\ pc \in LoadPoint => st = "OK"
      /\ pc = "w_deleted" => \A b \in Searched : NoRecord(mem, b, call.key)
  <2>1. BusyCounted /\ Healthy /\ DeleteClears /\ HeaderIsTable
    BY DEF RecordStep, WriteStep, HealthyStep
  <2>2. pc \in LoadPoint => st = "OK"
    BY <2>1 DEF HeaderIsTable
  <2>3. pc = "w_deleted" => \A b \in Searched : NoRecord(mem, b, call.key)
    BY <2>1 DEF DeleteClears
  <2> QED
    BY <2>1, <2>2, <2>3
<1>2. ~RewriteStart /\ ~RewriteNext /\ ~RewriteSwitch
  BY DEF RewriteStart, Return, Delete, RewriteNext, Search, SaveHeader, RewriteSwitch,
    LoadHeader, Goto
<1>3. ~RewriteHeader /\ ~RewriteReload
  BY <1>1 DEF RewriteHeader, RewriteReload, LoadPoint, Goto, EraseMore, Search
<1>4. ~RewriteErase
  <2> SUFFICES ASSUME RewriteErase PROVE FALSE
    OBVIOUS
  <2>1. PICK status \in {"OK", "BUSY", "ERROR"} :
          /\ ErasePages(BatchPages, status)
          /\ \/ status = "BUSY" \/ status = "ERROR"
             \/ status = "OK" /\ EraseMore(w')
    BY DEF RewriteErase
  <2>2. status = "OK"
    BY <1>1, <2>1, HealthyErase
  <2> QED
    BY <2>1, <2>2 DEF EraseMore, Search, Goto
<1>5. ~RewriteRest
  BY DEF RewriteRest, Goto, Return
<1>6. ~RewritePage
  BY PageSaved
<1>7. ~RewriteEnd
  BY DEF EmptyHanded, RewriteEnd, Return, Success
<1>8. CASE RewriteDeleted
  <2>1. pc = "w_deleted" /\ mem' = mem
    BY <1>8 DEF RewriteDeleted, device
  <2> QED
    BY <1>1, <2>1 DEF NoRecord, NoneListed
<1>9. CASE RewriteTarget
  <2>1. pc = "w_target" /\ mem' = mem
    BY <1>9 DEF RewriteTarget, device
  <2>2. PICK p \in [0 .. MaxLen -> DataAddr] : Erases(p)
    BY <2>1 DEF RecordStep, WriteStep, WInv, ErasePlan, ErasingAt, Within, At
  <2>3. \A b \in Searched : ListsOnly(Table(mem, b), b, p, 0)
    BY <2>2 DEF Erases, TablesListOnly
  <2>4. \A j : j \notin 0 .. 0 - 1
    OBVIOUS
  <2> QED
    BY <2>1, <2>3, <2>4 DEF ListsOnly, NoneListed, Unlisted
<1>10. CASE RewriteFound
  <2>1. pc = "w_found" /\ st = "NOT_FOUND" /\ ~IsLastPage
    BY <1>10 DEF RewriteFound, Return, SaveHeader, Goto
  <2>2. WritingAt /\ Within({"w_found"})
    BY <2>1 DEF WritingAt, Within, At
  <2>3. NoEmpty(mem, w.cur + 1)
    BY <2>1, <2>2 DEF RecordStep, EmptyAnswer, WriteStep, HealthyStep, IInv, SearchForward
  <2>4. PICK p \in [0 .. MaxLen -> DataAddr] : Writes(p)
    BY <2>2, WritingPlan
  <2>5. w.n \in w.n .. call.len - 2 /\ w.n < call.len
    BY <2>1, <2>2, WritingPlan DEF IsLastPage
  <2>6. NextEmpty(mem, w.cur + 1, p[w.n + 1])
    BY <2>4, <2>5 DEF Writes
  <2> QED
    BY <2>3, <2>6, EmptyIsThere
<1> QED
  BY <1>2, <1>3, <1>4, <1>5, <1>6, <1>7, <1>8, <1>9, <1>10 DEF RewriteEraseNext,
    RewriteWriteNext

\* So a save or a rewrite that answers STORAGE_NOT_FOUND has left none.
LEMMA NextNotFound ==
  ASSUME RecordStep, TakesOwn, EmptyHanded, [Next]_vars, pc' = "done",
         call'.op \in {"save", "rewrite"}, st' = "NOT_FOUND"
  PROVE  mem' = mem /\ call' = call /\ NoneListed(call.key)
<1>1. /\ h.back \in HeaderReturn /\ s.back \in SearchReturn /\ d.back \in DeleteReturn
      /\ DeviceType /\ BusyCounted /\ WriteCall
  BY DEF RecordStep, WriteStep, HealthyStep, IInv, TypeOK, HeaderType, SearchType,
    DataType, HeaderFrame, SearchFrame, DeleteFrame, WInv
<1>2. ~Crash /\ ~Drive
  BY <1>1, HealthyDrive DEF Drive, RecordStep
<1>3. CASE HeaderNext
  BY <1>1, <1>3, NextPoint DEF HeaderReturn
<1>4. CASE SearchNext /\ UNCHANGED <<call, d, w, l>>
  <2>1. pc \in SearchPoint /\ s.back = "done"
    BY <1>4, NextPoint, PointOfStep DEF SearchPoint
  <2>2. Writing
    BY <1>1, <1>4, <2>1 DEF WriteCall, At, SearchPoint, DeletePoint, HeaderPoint
  <2> QED
    BY <2>1, <2>2 DEF Writing, Within, At, RewritePoint, SearchPoint, DeletePoint,
      HeaderPoint
<1>5. CASE DeleteNext
  <2>1. pc \in DeletePoint /\ d.back = "done" /\ call' = call
    BY <1>5, NextPoint, PointOfStep DEF DeletePoint
  <2>2. Writing
    BY <1>1, <2>1 DEF WriteCall, At, DeletePoint
  <2> QED
    BY <2>1, <2>2 DEF Writing, Within, At, RewritePoint, SearchPoint, DeletePoint,
      HeaderPoint
<1>6. CASE RewriteEraseNext \/ RewriteWriteNext
  BY <1>6, RewriteComesBack, PointOfStep
<1>7. CASE SaveNext
  <2>1. pc = "v_check" => st = "OK"
    BY DEF RecordStep, WriteStep, HeaderIsTable, LoadPoint
  <2>2. SaveUndone
    BY <1>7, <2>1 DEF SaveNext, SaveStart, SaveCheck, SaveRewritten, Return, Goto,
      LoadHeader, Delete
  <2> QED
    BY <2>2 DEF SaveUndone, EmptyHanded, device
<1>8. CASE LoadNext \/ ClearNext \/ FormatNext
  <2>1. /\ pc \in {"l_start", "l_copy", "l_deleted", "c_start", "c_load",
                   "m_block", "m_header", "m_saved", "m_erase"}
        /\ call' = call
    BY <1>8, PointOfStep DEF FormatPoint
  <2> QED
    BY <1>1, <2>1 DEF WriteCall, Writing, Within, At, RewritePoint, SearchPoint,
      DeletePoint, HeaderPoint
<1>9. CASE Request
  BY <1>9, RequestNames
<1>10. CASE Answer
  BY <1>10 DEF Answer, Forget
<1>11. CASE UNCHANGED vars
  BY <1>11 DEF EmptyHanded, vars, control, frames, device
<1> QED
  BY <1>2, <1>3, <1>4, <1>5, <1>6, <1>7, <1>8, <1>9, <1>10, <1>11 DEF Next, Library,
    DataNext

\* A format that answers STORAGE_OK has emptied all tables.
LEMMA NextFormatted ==
  ASSUME RecordStep, PlainCalls, EmptyHanded, [Next]_vars, pc' = "done",
         call'.op = "format", st' = "OK"
  PROVE  mem' = mem /\ \A b \in Searched : Emptied(b)
<1>1. /\ h.back \in HeaderReturn /\ DeviceType /\ BusyCounted /\ fmt \in Nat
      /\ TablesShrink
  BY Geometry DEF RecordStep, WriteStep, HealthyStep, IInv, TypeOK, HeaderType,
    HeaderFrame, RecordsWhole
<1>2. ~Crash /\ ~Drive
  BY <1>1, HealthyDrive DEF Drive, RecordStep
<1>3. CASE FormatNext
  <2>1. FormatBlock
    <3>1. ~FormatErase
      BY <1>1 DEF FormatErase, TablesShrink
    <3> QED
      BY <1>3, <3>1 DEF FormatNext, FormatHeader, FormatSaved, SaveHeader, Return, Goto
  <2>2. pc = "m_block" /\ fmt >= MacroblocksCount /\ mem' = mem
    BY <2>1 DEF FormatBlock, LoadHeader, device
  <2>3. \A b \in Searched : b < fmt
    <3>1. MacroblocksCount \in Nat
      BY Geometry, MacroblockInRange
    <3> QED
      BY <1>1, <2>2, <3>1 DEF Searched
  <2> QED
    BY <1>1, <2>2, <2>3 DEF TablesShrink, At, FormatPoint
<1>4. CASE HeaderNext
  BY <1>1, <1>4, NextPoint DEF HeaderReturn
<1>5. CASE Request
  BY <1>5, RequestNames
<1>6. CASE Answer
  BY <1>6 DEF Answer, Forget
<1>7. CASE UNCHANGED vars
  BY <1>7 DEF EmptyHanded, vars, control, frames, device
<1>8. CASE \/ SearchNext /\ UNCHANGED <<call, d, w, l>>
           \/ DeleteNext \/ RewriteEraseNext \/ RewriteWriteNext \/ SaveNext
           \/ LoadNext \/ ClearNext
  <2>1. call' = call /\ pc \notin FormatPoint /\ pc \notin HeaderPoint /\ pc # "done"
    BY <1>8, PointOfStep DEF FormatPoint, HeaderPoint, SearchPoint, DeletePoint
  <2> QED
    BY <2>1 DEF PlainCalls, At
<1> QED
  BY <1>2, <1>3, <1>4, <1>5, <1>6, <1>7, <1>8 DEF Next, Library, DataNext

\* What is left is so when the call is answered.
LEMMA NextEmptyHanded ==
  ASSUME RecordStep, TakesOwn, PlainCalls, EmptyHanded, [Next]_vars
  PROVE  EmptyHanded'
<1>1. ASSUME mem' = mem, call' = call, NoneListed(call.key)
      PROVE  NoneListed(call.key)'
  BY <1>1 DEF NoneListed
<1>2. ASSUME mem' = mem, NEW b, Emptied(b)
      PROVE  Emptied(b)'
  BY <1>2 DEF Emptied
<1>3. pc' = "w_end" => st' = "OK"
  BY NextEndsWell
<1>4. pc' = "v_undone" => NoneListed(call.key)'
  BY <1>1, NextUndone
<1>5. pc' = "done" /\ call'.op \in {"save", "rewrite"} /\ st' = "NOT_FOUND" =>
        NoneListed(call.key)'
  BY <1>1, NextNotFound
<1>6. pc' = "done" /\ call'.op = "format" /\ st' = "OK" =>
        \A b \in Searched : Emptied(b)'
  BY <1>2, NextFormatted
<1> QED
  BY <1>3, <1>4, <1>5, <1>6 DEF EmptyHanded

-----------------------------------------------------------------------------
(* The pages of the record that is being written.                          *)

\* What the tables list under its key is what has been written.
LEMMA OwnListed ==
  ASSUME NEW p, NEW n, TablesListOnly(p, n), NEW b \in Listed(mem, "OK"),
         ListedKey(mem, b) = call.key
  PROVE  \E j \in 0 .. n - 1 : p[j] = b
<1>1. /\ b \in DataAddr /\ MacroblockIndex(b) \in Searched
      /\ Table(mem, MacroblockIndex(b))[PageIndex(b)].st = "OK"
      /\ Table(mem, MacroblockIndex(b))[PageIndex(b)].key = call.key
  BY DEF Listed, ListedKey
<1>2. PageIndex(b) \in Index /\ b = PageAddress(MacroblockIndex(b), PageIndex(b))
  BY <1>1, SearchedPage, AddressOfPlace
<1> QED
  BY <1>1, <1>2 DEF TablesListOnly, ListsOnly

\* Of the pages that have been written only the first one is a start.
LEMMA OwnStart ==
  ASSUME call \in Call, NEW p \in [0 .. MaxLen -> DataAddr], NEW n \in Nat,
         n <= call.len, Rising(p, call.len - 1), Parts(p, n),
         NEW j \in 0 .. n - 1, mem[p[j]].prev = p[j]
  PROVE  p[j] = call.addr
<1>1. /\ j \in Nat /\ j < call.len /\ p[j] \in Nat /\ call.len \in Nat
      /\ mem[p[j]].prev = IF j = 0 THEN p[0] ELSE p[j - 1]
  <2>1. call.len \in Nat
    BY DataAssumption DEF Call
  <2> QED
    BY <2>1, PartPage
<1>2. CASE j = 0
  BY <1>2 DEF Rising
<1>3. CASE j # 0
  <2>1. j - 1 \in 0 .. call.len - 1 /\ j \in 0 .. call.len - 1 /\ j - 1 < j
    BY <1>1, <1>3
  <2>2. p[j - 1] < p[j] /\ p[j - 1] = p[j]
    BY <1>1, <1>3, <2>1 DEF Rising
  <2> QED
    BY <1>1, <2>2
<1> QED
  BY <1>2, <1>3

\* The start of the record comes first.
WritingFirst ==
  WritingAt =>
    \A a \in Starts(mem, call.key), b \in Listed(mem, "OK") :
      ListedKey(mem, b) = call.key => a <= b

LEMMA WrittenFirst == IInv /\ WInv => WritingFirst
<1> SUFFICES ASSUME IInv, WInv, WritingAt, NEW a \in Starts(mem, call.key),
                    NEW b \in Listed(mem, "OK"), ListedKey(mem, b) = call.key
             PROVE  a <= b
  BY DEF WritingFirst
<1>1. call \in Call /\ w.n \in Nat /\ w.n <= call.len /\ call.len \in Nat
  <2>1. call \in Call /\ w \in RewriteFrame /\ MaxLen \in Nat
    BY DataAssumption DEF IInv, TypeOK, DataType
  <2> QED
    BY <2>1 DEF WInv, WritePlan, Call, RewriteFrame
<1>2. PICK p \in [0 .. MaxLen -> DataAddr] : Writes(p)
  BY DEF WInv, WritePlan
<1>3. TablesListOnly(p, w.n) /\ Rising(p, call.len - 1) /\ Parts(p, w.n)
  BY <1>2 DEF Writes
<1>4. PICK i \in 0 .. w.n - 1 : p[i] = a
  <2>1. a \in Listed(mem, "OK") /\ ListedKey(mem, a) = call.key
    BY DEF Starts, Held
  <2> QED
    BY <1>3, <2>1, OwnListed
<1>5. PICK j \in 0 .. w.n - 1 : p[j] = b
  BY <1>3, OwnListed
<1>6. a = call.addr /\ a \in Nat
  BY <1>1, <1>3, <1>4, OwnStart, PartPage DEF Starts, IsStart
<1>7. call.addr = p[0] /\ (j # 0 => p[0] < p[j]) /\ p[j] \in Nat
  <2>1. 0 \in 0 .. call.len - 1 /\ j \in 0 .. call.len - 1 /\ (j # 0 => 0 < j)
    BY <1>1
  <2>2. p[j] \in Nat
    BY <1>1, <1>3, PartPage
  <2> QED
    BY <1>3, <2>1, <2>2 DEF Rising
<1> QED
  BY <1>5, <1>6, <1>7

\* A step lists no more pages under another key.
LEMMA NextListed ==
  ASSUME RecordStep, [Next]_vars, NEW key \in Key, ~(WritingAt /\ key = call.key),
         \A b \in Searched : ValidCopies(mem, b) # {},
         NEW a \in Listed(mem', "OK"), ListedKey(mem', a) = key
  PROVE  a \in Listed(mem, "OK") /\ ListedKey(mem, a) = key
<1>1. /\ a \in DataAddr /\ MacroblockIndex(a) \in Searched /\ PageIndex(a) \in Index
      /\ Table(mem', MacroblockIndex(a))[PageIndex(a)].st = "OK"
      /\ Table(mem', MacroblockIndex(a))[PageIndex(a)].key = key
  BY SearchedPage DEF Listed, ListedKey
<1> SUFFICES Table(mem', MacroblockIndex(a))[PageIndex(a)]
               = Table(mem, MacroblockIndex(a))[PageIndex(a)]
  BY <1>1 DEF Listed, ListedKey
<1>2. CASE mem' = mem
  BY <1>2
<1>3. CASE HeaderSave
  <2>1. CASE MacroblockIndex(a) # h.mb
    BY <1>1, <1>3, <2>1, HeaderSaved, SearchedIsMacroblock
  <2>2. CASE MacroblockIndex(a) = h.mb
    BY <1>1, <1>3, <2>2, HeaderSaved, HeaderEntries
  <2> QED
    BY <2>1, <2>2
<1>4. CASE RewriteErase \/ RewriteRest
  BY <1>1, <1>4, BatchGone, SearchedIsMacroblock DEF SameTables
<1>5. CASE RewritePage
  BY <1>1, <1>5, PageSaved, SearchedIsMacroblock DEF SameTables
<1> QED
  BY <1>2, <1>3, <1>4, <1>5, StepKinds

\* The start of every record comes first.
LEMMA NextStartsFirst ==
  ASSUME RecordStep, StartsFirst, [Next]_vars
  PROVE  StartsFirst'
<1> SUFFICES ASSUME NEW key \in Key, NEW a \in Starts(mem', key),
                    NEW b \in Listed(mem', "OK"), ListedKey(mem', b) = key
             PROVE  a <= b
  BY DEF StartsFirst
<1>1. CASE ~(WritingAt /\ key = call.key)
  <2>1. KeepsKey(key)
    BY <1>1, NextKeepsKey
  <2>2. a \in Starts(mem, key)
    BY <2>1, HeldFacts DEF KeepsKey, Starts, IsStart
  <2>3. \A c \in Searched : ValidCopies(mem, c) # {}
    BY <2>2, HeldFacts DEF RecordStep, RecordsWhole, HeadersFirst, Starts
  <2> QED
    BY <1>1, <2>2, <2>3, NextListed DEF StartsFirst
<1>2. CASE WritingAt /\ key = call.key /\ RewriteEnd
  BY <1>2 DEF RewriteEnd, device, StartsFirst
<1>3. CASE WritingAt /\ key = call.key /\ ~RewriteEnd
  <2>1. WritingAt' /\ call' = call
    BY <1>3, WritingStays, PageSaved DEF WritingAt
  <2>2. WritingFirst'
    <3>1. IInv' /\ WInv' => WritingFirst'
      BY WrittenFirst, PTL
    <3> QED
      BY <3>1 DEF RecordStep, WriteStep
  <2> QED
    BY <1>3, <2>1, <2>2 DEF WritingFirst
<1> QED
  BY <1>1, <1>2, <1>3

-----------------------------------------------------------------------------
(* The record of a key, when pages of it go.                               *)

\* The pages of a chain, None included.
OnChain(c) == {c[j] : j \in DOMAIN c}

\* A chain begins with its page, and goes on with the chain of the next one.
LEMMA HopPages ==
  ASSUME NEW m
  PROVE  \A n \in 0 .. PagesCount : \A b \in Addr :
           /\ Hop(m)[n][b] \in Seq(Addr \cup {None}) /\ b \in OnChain(Hop(m)[n][b])
           /\ ~IsEnd(m, b) /\ n # 0 /\ Linked(m, b, m[b].next) =>
                OnChain(Hop(m)[n - 1][m[b].next]) \subseteq OnChain(Hop(m)[n][b])
<1> DEFINE P(n, b) ==
             /\ Hop(m)[n][b] \in Seq(Addr \cup {None}) /\ b \in OnChain(Hop(m)[n][b])
             /\ ~IsEnd(m, b) /\ n # 0 /\ Linked(m, b, m[b].next) =>
                  OnChain(Hop(m)[n - 1][m[b].next]) \subseteq OnChain(Hop(m)[n][b])
           S == {n \in Nat : \A b \in Addr : P(n, b)}
<1>1. ASSUME NEW n \in 0 .. PagesCount, n = 0 \/ n - 1 \in S, NEW b \in Addr
      PROVE  P(n, b)
  <2>1. CASE IsEnd(m, b)
    <3>1. Hop(m)[n][b] = <<b>>
      BY <2>1, HopValue
    <3>2. DOMAIN <<b>> = {1} /\ <<b>>[1] = b /\ <<b>> \in Seq(Addr \cup {None})
      OBVIOUS
    <3> QED
      BY <2>1, <3>1, <3>2 DEF OnChain
  <2>2. CASE ~IsEnd(m, b) /\ (n = 0 \/ ~Linked(m, b, m[b].next))
    <3>1. Hop(m)[n][b] = <<b, None>>
      BY <2>2, HopValue
    <3>2. DOMAIN <<b, None>> = {1, 2} /\ <<b, None>>[1] = b
          /\ <<b, None>> \in Seq(Addr \cup {None})
      OBVIOUS
    <3> QED
      BY <2>2, <3>1, <3>2 DEF OnChain
  <2>3. CASE ~IsEnd(m, b) /\ n # 0 /\ Linked(m, b, m[b].next)
    <3> DEFINE t == Hop(m)[n - 1][m[b].next]
    <3>1. Hop(m)[n][b] = <<b>> \o t
      BY <2>3, HopValue
    <3>2. m[b].next \in Addr /\ n - 1 \in S
      BY <1>1, <2>3 DEF Linked, Readable
    <3>3. t \in Seq(Addr \cup {None})
      BY <3>2
    <3> HIDE DEF t
    <3>4. /\ <<b>> \o t \in Seq(Addr \cup {None})
          /\ 1 \in DOMAIN (<<b>> \o t) /\ (<<b>> \o t)[1] = b
      BY <3>3
    <3>5. \A j \in DOMAIN t : j + 1 \in DOMAIN (<<b>> \o t) /\ (<<b>> \o t)[j + 1] = t[j]
      BY <3>3
    <3>6. b \in OnChain(<<b>> \o t) /\ OnChain(t) \subseteq OnChain(<<b>> \o t)
      BY <3>4, <3>5 DEF OnChain
    <3> QED
      BY <3>1, <3>4, <3>6 DEF t
  <2> QED
    BY <2>1, <2>2, <2>3
<1>2. 0 \in S
  BY <1>1, Geometry
<1>3. ASSUME NEW j \in 0 .. PagesCount, j < PagesCount, j \in S
      PROVE  j + 1 \in S
  <2>1. j + 1 \in 0 .. PagesCount /\ (j + 1) - 1 = j /\ j + 1 \in Nat
    BY Geometry, j < PagesCount
  <2>2. (j + 1) - 1 \in S
    BY <1>3, <2>1
  <2> HIDE DEF P
  <2> QED
    BY <1>1, <2>1, <2>2
<1>4. \A j \in 0 .. PagesCount : j \in S
  <2> HIDE DEF S
  <2> QED
    BY <1>2, <1>3, Geometry, CountUp
<1> QED
  BY <1>4

\* A chain has the page that it starts at.
LEMMA ChainHasStart ==
  ASSUME NEW m, NEW a \in Addr
  PROVE  a \in ChainPages(m, a)
<1>1. PagesCount \in 0 .. PagesCount
  BY Geometry
<1>2. a \in OnChain(Hop(m)[PagesCount][a])
  BY <1>1, HopPages
<1> QED
  BY <1>2, ChainIsHop DEF OnChain, ChainPages

\* Two images agree on the pages of a set, which no link of the first one leaves
\* but for a page c.
Agree(m, k, H, c) ==
  /\ H \subseteq Addr /\ \A b \in H : k[b] = m[b]
  /\ \A b \in H : Linked(m, b, m[b].next) => m[b].next \in H \cup {c}

\* A chain that ends in these pages is one of both images.
LEMMA SameWholeHops ==
  ASSUME NEW m, NEW k, NEW H, NEW c, Agree(m, k, H, c)
  PROVE  \A n \in 0 .. PagesCount : \A b \in H :
           None \notin OnChain(Hop(m)[n][b]) /\ c \notin OnChain(Hop(m)[n][b]) =>
             Hop(k)[n][b] = Hop(m)[n][b]
<1> DEFINE P(n, b) ==
             None \notin OnChain(Hop(m)[n][b]) /\ c \notin OnChain(Hop(m)[n][b]) =>
               Hop(k)[n][b] = Hop(m)[n][b]
           S == {n \in Nat : \A b \in H : P(n, b)}
<1>1. ASSUME NEW n \in 0 .. PagesCount, n = 0 \/ n - 1 \in S, NEW b \in H,
             None \notin OnChain(Hop(m)[n][b]), c \notin OnChain(Hop(m)[n][b])
      PROVE  Hop(k)[n][b] = Hop(m)[n][b]
  <2>1. b \in Addr /\ k[b] = m[b] /\ (IsEnd(k, b) <=> IsEnd(m, b))
    BY <1>1 DEF IsEnd, Agree
  <2>2. CASE IsEnd(m, b)
    BY <2>1, <2>2, HopValue
  <2>3. CASE ~IsEnd(m, b) /\ (n = 0 \/ ~Linked(m, b, m[b].next))
    <3>1. Hop(m)[n][b] = <<b, None>>
      BY <2>1, <2>3, HopValue
    <3>2. 2 \in DOMAIN <<b, None>> /\ <<b, None>>[2] = None
      OBVIOUS
    <3> QED
      BY <1>1, <3>1, <3>2 DEF OnChain
  <2>4. CASE ~IsEnd(m, b) /\ n # 0 /\ Linked(m, b, m[b].next)
    <3>1. m[b].next \in Addr /\ n - 1 \in 0 .. PagesCount
      BY <1>1, <2>4, Geometry DEF Linked, Readable
    <3>2. /\ OnChain(Hop(m)[n - 1][m[b].next]) \subseteq OnChain(Hop(m)[n][b])
          /\ m[b].next \in OnChain(Hop(m)[n - 1][m[b].next])
      BY <2>1, <2>4, <3>1, HopPages
    <3>3. m[b].next \in H
      BY <1>1, <2>4, <3>2 DEF Agree
    <3>4. Hop(k)[n - 1][m[b].next] = Hop(m)[n - 1][m[b].next]
      BY <1>1, <2>4, <3>2, <3>3
    <3>5. Linked(k, b, k[b].next)
      BY <2>1, <2>4, <3>3 DEF Agree, Linked, Readable
    <3>6. Hop(m)[n][b] = <<b>> \o Hop(m)[n - 1][m[b].next]
      BY <2>1, <2>4, HopValue
    <3>7. Hop(k)[n][b] = <<b>> \o Hop(k)[n - 1][k[b].next]
      BY <2>1, <2>4, <3>5, HopValue
    <3> QED
      BY <2>1, <3>4, <3>6, <3>7
  <2> QED
    BY <2>2, <2>3, <2>4
<1>2. 0 \in S
  BY <1>1, Geometry
<1>3. ASSUME NEW j \in 0 .. PagesCount, j < PagesCount, j \in S
      PROVE  j + 1 \in S
  <2>1. j + 1 \in 0 .. PagesCount /\ (j + 1) - 1 \in S /\ j + 1 \in Nat
    BY <1>3, Geometry
  <2> QED
    BY <1>1, <2>1
<1>4. \A j \in 0 .. PagesCount : j \in S
  <2> HIDE DEF S
  <2> QED
    BY <1>2, <1>3, Geometry, CountUp
<1> QED
  BY <1>4

\* What a client gets for a key that is not found.
NothingStored == [content |-> << >>, pages |-> {}]

LEMMA StoredNone ==
  ASSUME NEW m, NEW key, {a \in Least(FoundAt(m, key)) : Complete(m, a)} = {}
  PROVE  Stored(m, key) = NothingStored
<1> DEFINE record(a) == [content |-> ContentAt(m, a), pages |-> ChainPages(m, a)]
           found     == {a \in Least(FoundAt(m, key)) : Complete(m, a)}
           records   == {record(a) : a \in found}
<1>1. Stored(m, key) = IF records = {} THEN NothingStored ELSE CHOOSE r \in records : TRUE
  BY DEF Stored, NothingStored
<1>2. records = {}
  OBVIOUS
<1> HIDE DEF records
<1> QED
  BY <1>1, <1>2

\* What a client gets for a key, by the first address it is found at.
LEMMA StoredAt ==
  ASSUME NEW m, NEW key, NEW x, Least(FoundAt(m, key)) = {x}
  PROVE  Stored(m, key) =
           IF Complete(m, x) THEN [content |-> ContentAt(m, x), pages |-> ChainPages(m, x)]
           ELSE NothingStored
<1>1. CASE Complete(m, x)
  BY <1>1, StoredComplete
<1>2. CASE ~Complete(m, x)
  BY <1>2, StoredNone
<1> QED
  BY <1>1, <1>2

LEMMA StoredNowhere ==
  ASSUME NEW m, NEW key, FoundAt(m, key) = {}
  PROVE  Stored(m, key) = NothingStored
BY StoredNone DEF Least

\* A key is found at the start of its record, if at all.
LedBy(m, key) == Least(FoundAt(m, key)) = Starts(m, key)

\* Two images with the same pages of a complete record give the same record.
LEMMA SameRecord ==
  ASSUME NEW m, NEW k, NEW key, NEW H, NEW x \in H, NEW c, Agree(m, k, H, c),
         Complete(m, x), c \notin ChainPages(m, x), ChainPages(m, x) \subseteq H,
         Least(FoundAt(m, key)) = {x}, Least(FoundAt(k, key)) = {x}
  PROVE  Stored(k, key) = Stored(m, key)
<1>1. Chain(k, x) = Chain(m, x)
  <2>1. None \notin OnChain(Hop(m)[PagesCount][x]) /\ c \notin OnChain(Hop(m)[PagesCount][x])
    BY ChainIsHop DEF Complete, ChainPages, OnChain
  <2>2. PagesCount \in 0 .. PagesCount
    BY Geometry
  <2>3. Hop(k)[PagesCount][x] = Hop(m)[PagesCount][x]
    <3>1. \A n \in 0 .. PagesCount : \A b \in H :
            None \notin OnChain(Hop(m)[n][b]) /\ c \notin OnChain(Hop(m)[n][b]) =>
              Hop(k)[n][b] = Hop(m)[n][b]
      BY SameWholeHops
    <3> QED
      BY <2>1, <2>2, <3>1
  <2> QED
    BY <2>3, ChainIsHop
<1>2. ChainPages(k, x) = ChainPages(m, x) /\ Complete(k, x)
  BY <1>1 DEF ChainPages, Complete
<1>3. ContentAt(k, x) = ContentAt(m, x)
  <2>1. \A j \in DOMAIN Chain(m, x) : k[Chain(m, x)[j]] = m[Chain(m, x)[j]]
    BY DEF Agree, ChainPages
  <2> QED
    BY <1>1, <2>1 DEF ContentAt
<1> QED
  BY <1>2, <1>3, StoredAt

\* The pages of a key go, and none joins them or changes.
Loses(m, k, key) ==
  /\ Held(k, key) \subseteq Held(m, key)
  /\ \A a \in Held(k, key) : k[a] = m[a]

\* A page of a chain that is held stays in the storage.
LEMMA HeldIsAddr ==
  ASSUME NEW m, NEW key
  PROVE  Held(m, key) \subseteq Addr /\ Held(m, key) \subseteq Nat
BY HeldFacts, Geometry DEF DataAddr, Addr

\* A record that loses pages is kept or gone.
LEMMA KeptOrGone ==
  ASSUME NEW m, NEW k, NEW key, Loses(m, k, key), Leads(k, key),
         LedBy(m, key), LedBy(k, key),
         \A a, b \in Starts(m, key) : a = b
  PROVE  Stored(k, key) = Stored(m, key) \/ Stored(k, key) = NothingStored
<1>1. CASE Starts(k, key) = {}
  <2>1. Least(FoundAt(k, key)) = {}
    BY <1>1 DEF LedBy
  <2> QED
    BY <2>1, StoredNone
<1>2. CASE Starts(k, key) # {}
  <2>1. PICK x : x \in Starts(k, key)
    BY <1>2
  <2>2. Starts(k, key) \subseteq Starts(m, key)
    BY DEF Starts, IsStart, Loses
  <2>3. Least(FoundAt(k, key)) = {x} /\ Least(FoundAt(m, key)) = {x}
    BY <2>1, <2>2 DEF LedBy
  <2>4. CASE ~Complete(k, x)
    BY <2>3, <2>4, StoredAt
  <2>5. CASE Complete(k, x)
    <3>1. x \in Held(k, key)
      BY <2>1 DEF Starts
    <3>2. ChainPages(k, x) \subseteq Held(k, key)
      BY <2>5, <3>1, ChainIsHeld
    <3>3. \A b \in Held(k, key) :
            Linked(k, b, k[b].next) => k[b].next \in Held(k, key) \cup {None}
      BY DEF Leads, LeadsOn
    <3>4. None \notin ChainPages(k, x)
      BY <2>5 DEF Complete
    <3>5. \A b \in Held(k, key) : m[b] = k[b]
      BY DEF Loses
    <3>6. Agree(k, m, Held(k, key), None)
      BY <3>3, <3>5, HeldIsAddr DEF Agree
    <3>7. Stored(m, key) = Stored(k, key)
      BY <2>3, <2>5, <3>1, <3>2, <3>4, <3>6, SameRecord
    <3> QED
      BY <3>7
  <2> QED
    BY <2>4, <2>5
<1> QED
  BY <1>1, <1>2

\* It is gone only when a page of it has gone.
LEMMA KeptUnless ==
  ASSUME NEW m, NEW k, NEW key, NEW c, Loses(m, k, key),
         Held(m, key) \subseteq Held(k, key) \cup {c},
         Leads(m, key), Leads(k, key), LedBy(m, key), LedBy(k, key),
         \A a, b \in Starts(m, key) : a = b
  PROVE  \/ Stored(k, key) = Stored(m, key)
         \/ Stored(k, key) = NothingStored /\ c \in Stored(m, key).pages
<1> SUFFICES ASSUME Stored(k, key) = NothingStored, Stored(m, key) # NothingStored,
                    c \notin Stored(m, key).pages
             PROVE  FALSE
  BY KeptOrGone
<1>1. PICK x : x \in Starts(m, key)
  <2>1. Least(FoundAt(m, key)) # {}
    <3> SUFFICES ASSUME Least(FoundAt(m, key)) = {} PROVE FALSE
      OBVIOUS
    <3> QED
      BY StoredNone
  <2> QED
    BY <2>1 DEF LedBy
<1>2. Least(FoundAt(m, key)) = {x}
  BY <1>1 DEF LedBy
<1>3. Complete(m, x) /\ c \notin ChainPages(m, x)
  BY <1>2, StoredAt
<1>4. x \in Held(m, key) /\ x \in ChainPages(m, x)
  <2>1. x \in Held(m, key)
    BY <1>1 DEF Starts
  <2>2. x \in Addr
    BY <2>1, HeldIsAddr
  <2> QED
    BY <2>1, <2>2, ChainHasStart
<1>5. x \in Held(k, key) /\ ChainPages(m, x) \subseteq Held(k, key)
  BY <1>3, <1>4, ChainIsHeld
<1>6. Least(FoundAt(k, key)) = {x}
  <2>1. x \in Starts(k, key) /\ Starts(k, key) \subseteq Starts(m, key)
    BY <1>1, <1>5 DEF Starts, IsStart, Loses
  <2> QED
    BY <1>1, <2>1 DEF LedBy
<1>7. Agree(m, k, Held(k, key), c)
  BY HeldIsAddr DEF Leads, LeadsOn, Loses, Agree
<1>8. Stored(k, key) = Stored(m, key)
  BY <1>2, <1>3, <1>5, <1>6, <1>7, SameRecord
<1> QED
  BY <1>8

\* A key is found at the start of its record, or at the page that a record is
\* being written over.
ByStart ==
  \A key \in Key :
    \/ LedBy(mem, key)
    \/ /\ WritingAt /\ 0 < w.n
       /\ Starts(mem, key) = {} /\ FoundAt(mem, key) = {call.addr}

LEMMA FoundByStart == KeysAgree /\ StartsFirst => ByStart
<1> SUFFICES ASSUME KeysAgree, StartsFirst, NEW key \in Key
             PROVE  \/ LedBy(mem, key)
                    \/ /\ WritingAt /\ 0 < w.n
                       /\ Starts(mem, key) = {} /\ FoundAt(mem, key) = {call.addr}
  BY DEF ByStart
<1>1. \A a \in FoundAt(mem, key) :
        /\ a \in Nat /\ a \in Listed(mem, "OK") /\ ListedKey(mem, a) = key
        /\ mem[a] # Bad /\ IsStart(mem, a)
  BY Geometry DEF FoundAt, LoadsAsStart, Readable, Listed, DataAddr, Addr
<1>2. \A a \in Starts(mem, key) :
        /\ a \in FoundAt(mem, key) /\ a \in Listed(mem, "OK") /\ ListedKey(mem, a) = key
  BY DEF Starts, Held, Listed, DataAddr, FoundAt, LoadsAsStart, Readable
<1>3. ASSUME NEW a \in FoundAt(mem, key)
      PROVE  a \in Starts(mem, key) \/ (WritingAt /\ 0 < w.n /\ a = call.addr)
  BY <1>1, <1>3 DEF KeysAgree, Starts, Held
<1>4. CASE Starts(mem, key) # {}
  <2>1. PICK x : x \in Starts(mem, key)
    BY <1>4
  <2>2. \A b \in FoundAt(mem, key) : x <= b
    BY <1>1, <2>1 DEF StartsFirst
  <2>3. \A b \in Starts(mem, key) : b <= x
    BY <1>2, <2>1 DEF StartsFirst
  <2>4. \A b \in Starts(mem, key) : b = x
    BY <1>1, <1>2, <2>1, <2>2, <2>3
  <2>5. Starts(mem, key) = {x}
    BY <2>1, <2>4
  <2>6. \A i \in Least(FoundAt(mem, key)) : i = x
    <3> SUFFICES ASSUME NEW i \in Least(FoundAt(mem, key)) PROVE i = x
      OBVIOUS
    <3>1. i \in FoundAt(mem, key) /\ i <= x
      BY <1>2, <2>1 DEF Least
    <3>2. i \in Nat /\ x \in Nat /\ x <= i
      BY <1>1, <1>2, <2>1, <2>2, <3>1
    <3> QED
      BY <3>1, <3>2
  <2>7. x \in Least(FoundAt(mem, key))
    BY <1>2, <2>1, <2>2 DEF Least
  <2> QED
    BY <2>5, <2>6, <2>7 DEF LedBy
<1>5. CASE Starts(mem, key) = {} /\ FoundAt(mem, key) = {}
  BY <1>5 DEF LedBy, Least
<1>6. CASE Starts(mem, key) = {} /\ FoundAt(mem, key) # {}
  <2>1. FoundAt(mem, key) = {call.addr}
    BY <1>3, <1>6
  <2> QED
    BY <1>3, <1>6, <2>1
<1> QED
  BY <1>4, <1>5, <1>6

\* Between two steps of writing it is always its start.
LEMMA LedAtRest ==
  ASSUME ByStart, ~(WritingAt /\ 0 < w.n), NEW key \in Key
  PROVE  LedBy(mem, key)
BY DEF ByStart

-----------------------------------------------------------------------------
(* The record that is being written.                                       *)

\* The pages of a record of another key are held under that key.
LEMMA OtherPages ==
  ASSUME NEW m, NEW key, Leads(m, key), LedBy(m, key), \A a, b \in Starts(m, key) : a = b
  PROVE  Stored(m, key).pages \subseteq Held(m, key)
<1>1. CASE Starts(m, key) = {}
  BY <1>1, StoredNone DEF LedBy, NothingStored
<1>2. CASE Starts(m, key) # {}
  <2>1. PICK x : x \in Starts(m, key)
    BY <1>2
  <2>2. Least(FoundAt(m, key)) = {x} /\ x \in Held(m, key)
    BY <2>1 DEF LedBy, Starts
  <2>3. Complete(m, x) => ChainPages(m, x) \subseteq Held(m, key)
    BY <2>2, ChainIsHeld
  <2>4. NothingStored.pages = {}
    BY DEF NothingStored
  <2> QED
    BY <2>2, <2>3, <2>4, StoredAt
<1> QED
  BY <1>1, <1>2

\* Until its last page is written the chain of the record breaks off.
LEMMA WritingBreaksOff ==
  ASSUME IInv, WInv, WritingAt, 0 < w.n, w.n < call.len
  PROVE  ~Complete(mem, call.addr)
<1>1. call \in Call /\ w.n \in Nat /\ call.len \in Nat /\ w.n <= call.len
      /\ mem \in Image /\ call.len <= MaxLen /\ MaxLen \in Nat
  <2>1. call \in Call /\ w \in RewriteFrame /\ MaxLen \in Nat /\ mem \in Image
    BY DataAssumption DEF IInv, TypeOK, DataType, DeviceType
  <2> QED
    BY <2>1 DEF WInv, WritePlan, Call, RewriteFrame
<1>2. PICK p \in [0 .. MaxLen -> DataAddr] : Writes(p)
  BY DEF WInv, WritePlan
<1>3. /\ Rising(p, call.len - 1) /\ Parts(p, w.n) /\ mem[p[w.n]] = Bad
      /\ p[0] = call.addr
  <2>1. w.n \in w.n .. call.len - 1
    BY <1>1
  <2> QED
    BY <1>2, <2>1 DEF Writes, Rising
<1> DEFINE S == {n \in Nat : \A j \in 0 .. w.n - 1 : None \in OnChain(Hop(mem)[n][p[j]])}
<1>4. ASSUME NEW n \in 0 .. PagesCount, n = 0 \/ n - 1 \in S, NEW j \in 0 .. w.n - 1
      PROVE  None \in OnChain(Hop(mem)[n][p[j]])
  <2>1. /\ j \in Nat /\ j < call.len /\ p[j] \in Addr /\ p[j] \in Nat
        /\ mem[p[j]].key = call.key
        /\ mem[p[j]].next = IF j + 1 >= call.len THEN p[j] ELSE p[j + 1]
    BY <1>1, <1>3, PartPage
  <2>2. /\ j + 1 \in 0 .. call.len - 1 /\ j \in 0 .. call.len - 1
        /\ j < j + 1 /\ ~(j + 1 >= call.len) /\ (j + 1 = w.n \/ j + 1 \in 0 .. w.n - 1)
        /\ j + 1 \in 0 .. MaxLen
    BY <1>1, <2>1
  <2>3. mem[p[j]].next = p[j + 1] /\ p[j] < p[j + 1]
    BY <1>3, <2>1, <2>2 DEF Rising
  <2>4. ~IsEnd(mem, p[j])
    BY <2>1, <2>2, <2>3, Geometry DEF IsEnd, DataAddr, Addr
  <2>5. CASE n = 0 \/ ~Linked(mem, p[j], p[j + 1])
    <3>1. Hop(mem)[n][p[j]] = <<p[j], None>>
      BY <2>1, <2>3, <2>4, <2>5, HopValue
    <3>2. 2 \in DOMAIN <<p[j], None>> /\ <<p[j], None>>[2] = None
      OBVIOUS
    <3> QED
      BY <3>1, <3>2 DEF OnChain
  <2>6. CASE n # 0 /\ Linked(mem, p[j], p[j + 1])
    <3>1. j + 1 \in 0 .. w.n - 1
      BY <1>3, <2>2, <2>6 DEF Linked, Readable
    <3>2. None \in OnChain(Hop(mem)[n - 1][p[j + 1]])
      BY <1>4, <2>6, <3>1
    <3>3. OnChain(Hop(mem)[n - 1][p[j + 1]]) \subseteq OnChain(Hop(mem)[n][p[j]])
      BY <2>1, <2>3, <2>4, <2>6, HopPages
    <3> QED
      BY <3>2, <3>3
  <2> QED
    BY <2>5, <2>6
<1>5. 0 \in S
  BY <1>4, Geometry
<1>6. ASSUME NEW j \in 0 .. PagesCount, j < PagesCount, j \in S
      PROVE  j + 1 \in S
  <2>1. j + 1 \in 0 .. PagesCount /\ (j + 1) - 1 = j /\ j + 1 \in Nat
    BY Geometry, j < PagesCount
  <2>2. (j + 1) - 1 \in S
    BY <1>6, <2>1
  <2> QED
    BY <1>4, <2>1, <2>2
<1>7. PagesCount \in S
  <2> HIDE DEF S
  <2>1. \A j \in 0 .. PagesCount : j \in S
    BY <1>5, <1>6, Geometry, CountUp
  <2> QED
    BY <2>1, Geometry
<1>8. 0 \in 0 .. w.n - 1
  BY <1>1
<1>9. None \in OnChain(Hop(mem)[PagesCount][call.addr])
  BY <1>3, <1>7, <1>8
<1> QED
  BY <1>9, ChainIsHop DEF Complete, ChainPages, OnChain

\* With its last page the record is there.
LEMMA WritingIsRecord ==
  ASSUME IInv, WInv, WritingAt, 0 < w.n, w.n = call.len
  PROVE  \E p \in [0 .. MaxLen -> DataAddr] : RecordAt(p) /\ Writes(p)
<1>1. call \in Call /\ mem \in Image
  BY DEF IInv, TypeOK, DataType, DeviceType
<1>2. PICK p \in [0 .. MaxLen -> DataAddr] : Writes(p)
  BY DEF WInv, WritePlan
<1>3. RecordAt(p)
  BY <1>1, <1>2 DEF RecordAt, Writes
<1> QED
  BY <1>2, <1>3

\* Its key is found at its first page, if at all.
LEMMA OwnFound ==
  ASSUME IInv, WInv, WritingAt
  PROVE  /\ FoundAt(mem, call.key) \subseteq {call.addr}
         /\ w.n = 0 => FoundAt(mem, call.key) = {}
<1>1. call \in Call /\ w.n \in Nat /\ w.n <= call.len /\ call.len \in Nat
  <2>1. call \in Call /\ w \in RewriteFrame /\ MaxLen \in Nat
    BY DataAssumption DEF IInv, TypeOK, DataType
  <2> QED
    BY <2>1 DEF WInv, WritePlan, Call, RewriteFrame
<1>2. PICK p \in [0 .. MaxLen -> DataAddr] : Writes(p)
  BY DEF WInv, WritePlan
<1>3. TablesListOnly(p, w.n) /\ Rising(p, call.len - 1) /\ Parts(p, w.n)
  BY <1>2 DEF Writes
<1>4. ASSUME NEW a \in FoundAt(mem, call.key)
      PROVE  a = call.addr /\ w.n # 0
  <2>1. /\ a \in Listed(mem, "OK") /\ ListedKey(mem, a) = call.key
        /\ mem[a].prev = a
    BY DEF FoundAt, LoadsAsStart, IsStart
  <2>2. PICK j \in 0 .. w.n - 1 : p[j] = a
    BY <1>3, <2>1, OwnListed
  <2>3. p[j] = call.addr
    BY <1>1, <1>3, <2>1, <2>2, OwnStart
  <2> QED
    BY <1>1, <2>2, <2>3
<1> QED
  BY <1>4

\* What another key that is found at the first page gives meanwhile: nothing, or
\* the record that is being written.
LEMMA OverWritten ==
  ASSUME IInv, WInv, WritingAt, 0 < w.n, NEW key, FoundAt(mem, key) = {call.addr}
  PROVE  \/ Stored(mem, key) = NothingStored
         \/ /\ call.addr \in Stored(mem, key).pages
            /\ Stored(mem, key).content = Content(call.val, call.len)
<1>1. call.addr \in Nat /\ call.addr \in Addr
      /\ w.n \in Nat /\ call.len \in Nat /\ w.n <= call.len
  <2>1. call \in Call /\ w \in RewriteFrame /\ MaxLen \in Nat
    BY DataAssumption DEF IInv, TypeOK, DataType
  <2> QED
    BY <2>1, Geometry DEF Call, Addr, WInv, WritePlan, RewriteFrame
<1>2. Least(FoundAt(mem, key)) = {call.addr}
  BY <1>1 DEF Least
<1>3. CASE w.n < call.len
  BY <1>2, <1>3, WritingBreaksOff, StoredAt
<1>4. CASE w.n = call.len
  <2>1. PICK p \in [0 .. MaxLen -> DataAddr] : RecordAt(p)
    BY <1>4, WritingIsRecord
  <2>2. Complete(mem, call.addr) /\ ContentAt(mem, call.addr) = Content(call.val, call.len)
    BY <2>1, RecordContent
  <2>3. call.addr \in Addr
    BY <1>1
  <2>4. call.addr \in ChainPages(mem, call.addr)
    BY <2>3, ChainHasStart
  <2>5. Stored(mem, key) = [content |-> ContentAt(mem, call.addr),
                            pages |-> ChainPages(mem, call.addr)]
    BY <1>2, <2>2, StoredAt
  <2> QED
    BY <2>2, <2>4, <2>5
<1> QED
  BY <1>1, <1>3, <1>4

\* What clients get for their keys.
Records(m) == [k \in ClientKeys |-> Stored(m, k)]

\* The pages of a record are as many as it is long.
LEMMA RecordPages ==
  ASSUME NEW p, RecordAt(p)
  PROVE  /\ ChainPages(mem, call.addr) = {p[j] : j \in 0 .. call.len - 1}
         /\ Cardinality(ChainPages(mem, call.addr)) = call.len
<1> DEFINE c == Chain(mem, call.addr)
           P == ChainPages(mem, call.addr)
<1>1. /\ c = [i \in 1 .. call.len |-> p[i - 1]] /\ DOMAIN c = 1 .. call.len
      /\ call.len \in Nat
  BY RecordChain, RecordLength
<1>4. P = {c[i] : i \in 1 .. call.len}
  BY <1>1 DEF ChainPages
<1> HIDE DEF c, P
<1>2. \A i \in 1 .. call.len : i - 1 \in 0 .. call.len - 1 /\ c[i] = p[i - 1]
  BY <1>1
<1>3. \A j \in 0 .. call.len - 1 : j + 1 \in 1 .. call.len /\ c[j + 1] = p[j]
  <2> SUFFICES ASSUME NEW j \in 0 .. call.len - 1
               PROVE  j + 1 \in 1 .. call.len /\ c[j + 1] = p[j]
    OBVIOUS
  <2>1. j + 1 \in 1 .. call.len /\ (j + 1) - 1 = j
    <3>1. call.len \in Nat
      BY <1>1
    <3> QED
      BY <3>1
  <2>2. c[j + 1] = p[(j + 1) - 1]
    BY <1>2, <2>1
  <2> QED
    BY <2>1, <2>2
<1>5. P = {p[j] : j \in 0 .. call.len - 1}
  BY <1>2, <1>3, <1>4
<1>6. \A i, j \in 1 .. call.len : c[i] = c[j] => i = j
  <2> SUFFICES ASSUME NEW i \in 1 .. call.len, NEW j \in 1 .. call.len, i < j
               PROVE  c[i] # c[j]
    <3>1. \A i, j \in 1 .. call.len : i < j \/ j < i \/ i = j
      OBVIOUS
    <3> QED
      BY <3>1
  <2>1. /\ i - 1 \in 0 .. call.len - 1 /\ j - 1 \in 0 .. call.len - 1
        /\ i - 1 < j - 1
    BY <1>1
  <2>2. p[i - 1] < p[j - 1] /\ p[i - 1] \in Nat /\ p[j - 1] \in Nat
    BY <2>1, RecordLength DEF RecordAt, Rising
  <2> QED
    BY <1>2, <2>2
<1>7. ExistsBijection(1 .. call.len, P)
  <2>1. c \in [1 .. call.len -> P]
    BY <1>1, <1>4
  <2>2. c \in Injection(1 .. call.len, P)
    BY <1>1, <1>6, <2>1 DEF Injection, IsInjective
  <2>3. c \in Surjection(1 .. call.len, P)
    BY <1>4, <2>1 DEF Surjection
  <2> QED
    BY <2>2, <2>3 DEF Bijection, ExistsBijection
<1>8. Cardinality(P) = call.len
  BY <1>1, <1>7, FS_CountingElements
<1> QED
  BY <1>5, <1>8 DEF P

\* RecordStore counts in the same way.
LEMMA SameCardinality ==
  ASSUME NEW S
  PROVE  Promise!Cardinality(S) = Cardinality(S)
BY DEF Promise!Cardinality, Cardinality

\* A record that has been written, and is found, is the one that was asked for.
LEMMA RecordIsSaved ==
  ASSUME NEW p, RecordAt(p), call.key \in ClientKeys,
         FoundAt(mem, call.key) = {call.addr},
         \A key \in ClientKeys \ {call.key} : Stored(mem, key).pages \subseteq Held(mem, key)
  PROVE  Promise!IsSaved(call, Records(mem))
<1> DEFINE P == ChainPages(mem, call.addr)
<1>1. call.addr \in Nat /\ p[0] = call.addr /\ 0 \in 0 .. call.len - 1
  <2>1. 0 \in 0 .. call.len - 1
    BY RecordLength
  <2> QED
    BY <2>1, RecordChain, RecordLength
<1>2. Least(FoundAt(mem, call.key)) = {call.addr}
  BY <1>1 DEF Least
<1>3. Stored(mem, call.key) = [content |-> Content(call.val, call.len), pages |-> P]
  <2>1. Complete(mem, call.addr) /\ ContentAt(mem, call.addr) = Content(call.val, call.len)
    BY RecordContent
  <2> QED
    BY <1>2, <2>1, StoredAt
<1>4. \A a \in P : \E j \in 0 .. call.len - 1 : p[j] = a
  BY RecordPages
<1>5. \A a \in P : call.addr <= a /\ mem[a].key = call.key
  <2> SUFFICES ASSUME NEW a \in P PROVE call.addr <= a /\ mem[a].key = call.key
    OBVIOUS
  <2>1. PICK j \in 0 .. call.len - 1 : p[j] = a
    BY <1>4
  <2>2. j = 0 \/ p[0] < p[j]
    BY <1>1 DEF RecordAt, Rising
  <2>3. p[j] \in Nat /\ mem[p[j]].key = call.key
    BY RecordLength, RecordPage
  <2> QED
    BY <1>1, <2>1, <2>2, <2>3
<1>6. call.addr \in P
  BY <1>1, RecordPages
<1> HIDE DEF P
<1>7. \A key \in ClientKeys \ {call.key} : P \cap Stored(mem, key).pages = {}
  <2> SUFFICES ASSUME NEW key \in ClientKeys \ {call.key}, NEW a \in P,
                      a \in Stored(mem, key).pages
               PROVE  FALSE
    OBVIOUS
  <2>1. a \in Held(mem, key)
    OBVIOUS
  <2> QED
    BY <1>5, <2>1 DEF Held
<1>8. P \cap Promise!Taken(Records(mem), call.key) = {}
  <2>1. \A key \in ClientKeys \ {call.key} : Records(mem)[key] = Stored(mem, key)
    BY DEF Records
  <2> QED
    BY <1>7, <2>1 DEF Promise!Taken
<1>9. Records(mem)[call.key] = [content |-> Promise!Content(call.val, call.len), pages |-> P]
  BY <1>3 DEF Records, Content
<1>10. Cardinality(P) = call.len
  BY RecordPages DEF P
<1> DEFINE r == Records(mem)[call.key]
<1>11. r.content = Promise!Content(call.val, call.len) /\ r.pages = P
  BY <1>9
<1> HIDE DEF r
<1>12. /\ call.addr \in r.pages /\ \A a \in r.pages : call.addr <= a
       /\ Cardinality(r.pages) = call.len
       /\ r.pages \cap Promise!Taken(Records(mem), call.key) = {}
  BY <1>5, <1>6, <1>8, <1>10, <1>11
<1> QED
  BY <1>11, <1>12, SameCardinality DEF Promise!IsSaved, r

-----------------------------------------------------------------------------
(* The records of RecordStore.                                             *)

\* What clients ask for: records of one page or more, at addresses in the
\* macroblocks that a search looks at.
ClientsFit ==
  0 \notin ClientLens /\ \A a \in ClientAddrs : MacroblockIndex(a) \in Searched

\* What the states of a library that has not been cut short have in common.
Ordered ==
  /\ IInv /\ WInv /\ Layout /\ DeleteClears /\ RecordsWhole
  /\ StartsFirst /\ NamesCall /\ EmptyHanded

\* A call that writes is one of a client.
LEMMA WritingNames ==
  ASSUME ClientsFit, NamesCall, call \in Call, call.op \in {"save", "rewrite"}
  PROVE  /\ call.key \in ClientKeys /\ MacroblockIndex(call.addr) \in Searched
         /\ call.len \in Nat /\ call.len > 0
<1>1. call.len \in ClientLens /\ call.addr \in ClientAddrs /\ call.key \in ClientKeys
  BY DEF NamesCall
<1>2. call.len \in Nat
  BY DataAssumption DEF Call
<1> QED
  BY <1>1, <1>2 DEF ClientsFit

LEMMA WritingIsCall ==
  ASSUME Layout, WritingAt
  PROVE  call.op \in {"save", "rewrite"} /\ call.key \in UserKey
<1>1. Writing
  BY DEF WritingAt, Writing, Within, At, RewritePoint
<1> QED
  BY <1>1 DEF Layout, WriteLayout

LEMMA ClientKeyIsKey == ClientKeys \subseteq Key
BY ClientAssumption, DataAssumption DEF UserKey, Key

\* The pages of the records of the keys that are not being written.
LEMMA OthersPages ==
  ASSUME Ordered, NEW key \in ClientKeys, LedBy(mem, key), ~(WritingAt /\ key = call.key)
  PROVE  Stored(mem, key).pages \subseteq Held(mem, key)
<1>1. key \in Key
  BY ClientKeyIsKey
<1>2. Leads(mem, key) /\ \A a, b \in Starts(mem, key) : a = b
  BY <1>1 DEF Ordered, RecordsWhole, PagesLead, OneStart
<1> QED
  BY <1>2, OtherPages

\* The record that is being written is not there yet, or is what was asked for.
OwnSaved ==
  WritingAt => \/ Stored(mem, call.key) = NothingStored
               \/ Promise!IsSaved(call, Records(mem))

LEMMA OwnIsSaved ==
  ASSUME ClientsFit
  PROVE  Ordered => OwnSaved
<1> SUFFICES ASSUME Ordered, WritingAt, FoundAt(mem, call.key) # {}
             PROVE  \/ Stored(mem, call.key) = NothingStored
                    \/ Promise!IsSaved(call, Records(mem))
  BY StoredNowhere DEF OwnSaved
<1>1. IInv /\ WInv /\ call \in Call /\ call.op \in {"save", "rewrite"}
  BY WritingIsCall DEF Ordered, IInv, TypeOK, DataType
<1>2. /\ call.key \in ClientKeys /\ MacroblockIndex(call.addr) \in Searched
      /\ call.len \in Nat /\ call.len > 0
  BY <1>1, WritingNames DEF Ordered
<1>3. FoundAt(mem, call.key) = {call.addr} /\ w.n # 0
  BY <1>1, OwnFound
<1>4. w.n \in Nat /\ w.n <= call.len /\ 0 < w.n
  <2>1. w \in RewriteFrame /\ MaxLen \in Nat
    BY <1>1, DataAssumption DEF IInv, TypeOK, DataType
  <2> QED
    BY <1>1, <1>3, <2>1 DEF WInv, WritePlan, RewriteFrame
<1>5. call.addr \in Nat
  BY <1>1, Geometry DEF Call, Addr
<1>6. Least(FoundAt(mem, call.key)) = {call.addr}
  BY <1>3, <1>5 DEF Least
<1>7. CASE w.n < call.len
  BY <1>1, <1>4, <1>6, <1>7, WritingBreaksOff, StoredAt
<1>8. CASE w.n = call.len
  <2>1. PICK p \in [0 .. MaxLen -> DataAddr] : RecordAt(p)
    BY <1>1, <1>4, <1>8, WritingIsRecord
  <2>2. ASSUME NEW key \in ClientKeys \ {call.key}
        PROVE  Stored(mem, key).pages \subseteq Held(mem, key)
    <3>1. FoundAt(mem, key) # {call.addr}
      <4>1. ListedKey(mem, call.addr) = call.key
        BY <1>3 DEF FoundAt
      <4> QED
        BY <4>1 DEF FoundAt
    <3>2. LedBy(mem, key)
      BY <3>1, FoundByStart, ClientKeyIsKey DEF Ordered, RecordsWhole, ByStart
    <3> QED
      BY <3>2, OthersPages
  <2> QED
    BY <1>2, <1>3, <2>1, <2>2, RecordIsSaved
<1> QED
  BY <1>2, <1>4, <1>7, <1>8

\* A write that is answered STORAGE_OK has stored it.
DoneSaved ==
  pc = "done" /\ call.op \in {"save", "rewrite"} /\ st = "OK" =>
    Promise!IsSaved(call, Records(mem))

LEMMA DoneIsSaved ==
  ASSUME ClientsFit
  PROVE  Ordered => DoneSaved
<1> SUFFICES ASSUME Ordered, pc = "done", call.op \in {"save", "rewrite"}, st = "OK"
             PROVE  Promise!IsSaved(call, Records(mem))
  BY DEF DoneSaved
<1>1. IInv /\ WInv /\ call \in Call /\ mem \in Image
  BY DEF Ordered, IInv, TypeOK, DataType, DeviceType
<1>2. /\ call.key \in ClientKeys /\ MacroblockIndex(call.addr) \in Searched
      /\ call.len \in Nat /\ call.len > 0
  BY <1>1, WritingNames DEF Ordered
<1>3. PICK p \in [0 .. MaxLen -> DataAddr] : Written(p)
  BY <1>1 DEF WInv, RecordWritten
<1>4. RecordAt(p)
  BY <1>1, <1>2, <1>3 DEF RecordAt, Written
<1>5. FoundAt(mem, call.key) = {call.addr}
  BY <1>2, <1>3, <1>4, RecordFound
<1>6. ~WritingAt
  BY WritingPoint DEF HeaderPoint, SearchPoint
<1>7. ASSUME NEW key \in ClientKeys \ {call.key}
      PROVE  Stored(mem, key).pages \subseteq Held(mem, key)
  <2>1. LedBy(mem, key)
    BY <1>6, FoundByStart, ClientKeyIsKey DEF Ordered, RecordsWhole, ByStart
  <2> QED
    BY <1>6, <2>1, OthersPages
<1> QED
  BY <1>2, <1>4, <1>5, <1>7, RecordIsSaved

\* What every status that is answered tells.
Answered == pc = "done" => Promise!Justified(call, st, Records(mem))

LEMMA DoneIsAnswered ==
  ASSUME ClientsFit
  PROVE  Ordered => Answered
<1> SUFFICES ASSUME Ordered, pc = "done"
             PROVE  Promise!Justified(call, st, Records(mem))
  BY DEF Answered
<1>1. ASSUME NEW key, NoneListed(key)
      PROVE  Stored(mem, key) = Promise!NoRecord
  <2>1. FoundAt(mem, key) = {}
    <3> SUFFICES ASSUME NEW a \in FoundAt(mem, key) PROVE FALSE
      OBVIOUS
    <3>1. /\ a \in DataAddr /\ MacroblockIndex(a) \in Searched
          /\ Table(mem, MacroblockIndex(a))[PageIndex(a)].st = "OK"
          /\ Table(mem, MacroblockIndex(a))[PageIndex(a)].key = key
      BY DEF FoundAt, Listed, ListedKey
    <3>2. PageIndex(a) \in Index
      BY <3>1, SearchedPage
    <3> QED
      BY <1>1, <3>1, <3>2 DEF NoneListed, Unlisted
  <2> QED
    BY <2>1, StoredNowhere DEF NothingStored, Promise!NoRecord
<1>2. call.op \in {"save", "rewrite", "delete"} => call.key \in ClientKeys
  BY DEF Ordered, NamesCall
<1>3. call.op \in {"save", "rewrite"} /\ st = "OK" => Promise!IsSaved(call, Records(mem))
  BY DoneIsSaved DEF DoneSaved
<1>4. call.op \in {"save", "rewrite"} /\ st = "NOT_FOUND" =>
        Records(mem)[call.key] = Promise!NoRecord
  BY <1>1, <1>2 DEF Ordered, EmptyHanded, Records
<1>5. call.op = "delete" /\ st = "OK" => Records(mem)[call.key] = Promise!NoRecord
  BY <1>1, <1>2 DEF Ordered, DeleteClears, NoRecord, NoneListed, Records
<1>6. call.op = "format" /\ st = "OK" =>
        \A k \in ClientKeys : Records(mem)[k] = Promise!NoRecord
  <2> SUFFICES ASSUME call.op = "format", st = "OK", NEW k \in ClientKeys
               PROVE  Stored(mem, k) = Promise!NoRecord
    BY DEF Records
  <2>1. \A b \in Searched : NoneTaken(Table(mem, b))
    BY DEF Ordered, EmptyHanded, Emptied
  <2>2. NoneListed(k)
    BY <2>1 DEF NoneListed, NoneTaken, Unlisted
  <2> QED
    BY <1>1, <2>2
<1> QED
  BY <1>3, <1>4, <1>5, <1>6 DEF Promise!Justified, Promise!Gone

-----------------------------------------------------------------------------
(* What a step takes from the records.                                     *)

\* What the calls in progress keep to.
KeepsTo == TakesOwn /\ LoadFollows /\ FindPasses /\ NamesCall /\ PlainCalls

\* A step that changes the drive is one of a call that goes on.
LEMMA ChangeOfCall ==
  ASSUME RecordStep, NamesCall, [Next]_vars, mem' # mem
  PROVE  call' = call /\ call.op \in Operation
<1>1. call' = call /\ pc \in {"h_save", "w_erase", "w_rest", "w_page"}
  <2>1. CASE HeaderSave /\ UNCHANGED <<s, call, d, w, l>>
    BY <2>1 DEF HeaderSave
  <2>2. CASE RewriteErase \/ RewriteRest
    BY <2>2 DEF RewriteErase, RewriteRest
  <2>3. CASE RewritePage
    BY <2>3 DEF RewritePage
  <2> QED
    BY <2>1, <2>2, <2>3, StepKinds
<1> QED
  BY <1>1 DEF NamesCall

\* The tables that are saved to lose a key lose one that the call may remove.
LEMMA LosesKey ==
  ASSUME RecordStep, KeepsTo, pc = "h_save", call.op # "format"
  PROVE  /\ h.back # "m_saved"
         /\ h.back = "d_saved" =>
              \/ call.op \in {"load", "clear"}
              \/ call.op \in {"save", "rewrite", "delete"} /\ d.key = call.key
<1>1. call.op \in Operation
  BY DEF KeepsTo, NamesCall
<1>2. CASE call.op \in {"save", "rewrite", "delete"}
  BY <1>2, DeletesOwn DEF KeepsTo
<1>3. CASE call.op = "load"
  BY <1>3 DEF KeepsTo, LoadFollows, At, DeletePoint
<1>4. CASE call.op = "clear"
  BY <1>4 DEF KeepsTo, PlainCalls, At, DeletePoint
<1>5. CASE call.op = "find"
  <2>1. CASE call.mode = "EMPTY"
    BY <1>5, <2>1 DEF RecordStep, EmptyAnswer, FindingEmpty, At, SearchPoint, HeaderPoint
  <2>2. CASE call.mode # "EMPTY"
    BY <1>5, <2>2 DEF KeepsTo, FindPasses, Finding, FindFrame, SearchPoint
  <2> QED
    BY <2>1, <2>2
<1> QED
  BY <1>1, <1>2, <1>3, <1>4, <1>5 DEF Operation

\* The keys, and of their pages the ones, that a step of the call may remove.
MayLose(key, c) ==
  \/ call.op = "format"
  \/ call.op \in {"load", "clear"} /\ key = d.key
  \/ call.op \in {"save", "rewrite", "delete"} /\ key = call.key
  \/ call.op = "rewrite" /\ c = call.addr

\* It removes no other.
LEMMA StepSpares ==
  ASSUME RecordStep, KeepsTo, [Next]_vars,
         NEW key \in Key, ~(WritingAt /\ key = call.key),
         NEW c \in Held(mem, key), ~MayLose(key, c)
  PROVE  c \in Held(mem', key)
<1>1. CASE mem' = mem
  BY <1>1
<1>2. CASE HeaderSave
  <2>1. h.back # "m_saved" /\ ~(h.back = "d_saved" /\ key = d.key)
    BY <1>2, LosesKey DEF HeaderSave, MayLose
  <2> QED
    BY <1>2, <2>1, HeaderKeepsOthers
<1>3. CASE RewriteErase \/ RewriteRest
  <2>1. ErasingAt
    BY <1>3 DEF RewriteErase, RewriteRest, ErasingAt, Within, At
  <2>2. call.op \in {"save", "rewrite"}
    BY <2>1, ErasingIsWriting DEF RecordStep, WriteStep, Layout
  <2> QED
    BY <1>3, <2>2, EraseKeepsOthers DEF KeepsTo, MayLose
<1>4. CASE RewritePage
  BY <1>4, PageKeepsOthers
<1> QED
  BY <1>1, <1>2, <1>3, <1>4, StepKinds

\* and adds or changes none.
LEMMA StepLoses ==
  ASSUME RecordStep, [Next]_vars, NEW key \in Key, ~(WritingAt /\ key = call.key)
  PROVE  Loses(mem, mem', key)
<1>1. KeepsKey(key)
  BY NextKeepsKey
<1> QED
  BY <1>1, HeldFacts DEF KeepsKey, Loses

-----------------------------------------------------------------------------
(* What becomes of a record in a step that changes the drive.              *)

\* The pages of a key are those of one record, found at its start.
Clean(m, key) ==
  Leads(m, key) /\ LedBy(m, key) /\ \A a, b \in Starts(m, key) : a = b

\* They are, but for the key that is being written and one that is being written
\* over: that one gives nothing, or the record that is being written.
CleanKeys ==
  \A key \in Key : \/ WritingAt /\ key = call.key
                   \/ Clean(mem, key)
                   \/ /\ WritingAt /\ 0 < w.n /\ Starts(mem, key) = {}
                      /\ \/ Stored(mem, key) = NothingStored
                         \/ /\ call.addr \in Stored(mem, key).pages
                            /\ Stored(mem, key).content = Content(call.val, call.len)

LEMMA KeysAreClean == Ordered => CleanKeys
<1> SUFFICES ASSUME Ordered, NEW key \in Key, ~(WritingAt /\ key = call.key)
             PROVE  \/ Clean(mem, key)
                    \/ /\ WritingAt /\ 0 < w.n /\ Starts(mem, key) = {}
                       /\ \/ Stored(mem, key) = NothingStored
                          \/ /\ call.addr \in Stored(mem, key).pages
                             /\ Stored(mem, key).content = Content(call.val, call.len)
  BY DEF CleanKeys
<1>1. ByStart /\ IInv /\ WInv
  BY FoundByStart DEF Ordered, RecordsWhole
<1>2. Leads(mem, key) /\ \A a, b \in Starts(mem, key) : a = b
  BY DEF Ordered, RecordsWhole, PagesLead, OneStart
<1>3. CASE LedBy(mem, key)
  BY <1>2, <1>3 DEF Clean
<1>4. CASE ~LedBy(mem, key)
  BY <1>1, <1>4, OverWritten DEF ByStart
<1> QED
  BY <1>3, <1>4

\* What is written is a record of the call.
WritesForCall == WritingAt => call.op \in {"save", "rewrite"}

LEMMA OrderedWrites == Ordered => WritesForCall
BY WritingIsCall DEF Ordered, WritesForCall

\* What a step keeps to, seen by the records before and after it.
PromiseStep ==
  /\ RecordStep /\ KeepsTo /\ [Next]_vars
  /\ CleanKeys /\ WritesForCall
  /\ CleanKeys' /\ WritesForCall' /\ OwnSaved'

\* While nothing is written a record is kept or gone, and kept if the step may
\* not remove it.
LEMMA KeptAtRest ==
  ASSUME PromiseStep, ~WritingAt, ~WritingAt', NEW key \in Key
  PROVE  /\ Stored(mem', key) = Stored(mem, key) \/ Stored(mem', key) = NothingStored
         /\ (\A c \in Held(mem, key) : ~MayLose(key, c)) =>
              Stored(mem', key) = Stored(mem, key)
<1>1. Clean(mem, key) /\ Clean(mem', key) /\ Loses(mem, mem', key)
  BY StepLoses DEF PromiseStep, CleanKeys
<1>2. Stored(mem', key) = Stored(mem, key) \/ Stored(mem', key) = NothingStored
  BY <1>1, KeptOrGone DEF Clean
<1>3. ASSUME \A c \in Held(mem, key) : ~MayLose(key, c)
      PROVE  Stored(mem', key) = Stored(mem, key)
  <2>1. Held(mem, key) \subseteq Held(mem', key) \cup {None}
    BY <1>3, StepSpares DEF PromiseStep
  <2>2. None \notin Stored(mem, key).pages
    BY <1>1, OtherPages, HeldIsAddr, NoneAssumption DEF Clean
  <2> QED
    BY <1>1, <2>1, <2>2, KeptUnless DEF Clean
<1> QED
  BY <1>2, <1>3

\* What is written stays so while the drive changes.
LEMMA WritingGoesOn ==
  ASSUME RecordStep, [Next]_vars, mem' # mem, WritingAt
  PROVE  WritingAt'
<1>1. ~RewriteEnd
  BY DEF RewriteEnd, device
<1>2. CASE RewritePage
  BY <1>2, PageSaved DEF WritingAt
<1>3. CASE ~RewritePage
  BY <1>1, <1>3, WritingStays
<1> QED
  BY <1>2, <1>3

\* While pages are written no other key loses one.
LEMMA WritingSpares ==
  ASSUME PromiseStep, call.op = "rewrite", WritingAt', 0 < w'.n,
         NEW key \in Key, key # call.key
  PROVE  Held(mem, key) \subseteq Held(mem', key)
<1> SUFFICES ASSUME NEW c \in Held(mem, key)
             PROVE  c \in Held(mem', key)
  OBVIOUS
<1>1. RecordStep /\ KeepsTo /\ [Next]_vars
  BY DEF PromiseStep
<1>2. CASE mem' = mem
  BY <1>2
<1>3. CASE HeaderSave
  <2>1. h.back # "m_saved" /\ ~(h.back = "d_saved" /\ key = d.key)
    BY <1>1, <1>3, LosesKey DEF HeaderSave
  <2> QED
    BY <1>1, <1>3, <2>1, HeaderKeepsOthers
<1>4. CASE RewriteErase \/ RewriteRest
  <2>1. w.n = 0 /\ w \in RewriteFrame
    <3>1. ErasingAt
      BY <1>4 DEF RewriteErase, RewriteRest, ErasingAt, Within, At
    <3> QED
      BY <1>1, <3>1, WriteTypes DEF RecordStep, WriteStep, WInv, ErasePlan
  <2>2. w'.n = w.n
    BY <1>4, <2>1 DEF RewriteErase, RewriteRest, Targeted, RewriteFrame
  <2> QED
    BY <2>1, <2>2
<1>5. CASE RewritePage
  BY <1>1, <1>5, PageKeepsOthers
<1> QED
  BY <1>1, <1>2, <1>3, <1>4, <1>5, StepKinds

\* Another key that rewrite is given the address of loses its record, or leads
\* to the one that is written there.
LEMMA RewriteReplaces ==
  ASSUME PromiseStep, call' = call, call.op = "rewrite", NEW key \in Key, key # call.key
  PROVE  \/ Stored(mem', key) = Stored(mem, key)
         \/ /\ Stored(mem', key) = NothingStored
            /\ call.addr \in Stored(mem, key).pages
         \/ /\ call.addr \in Stored(mem', key).pages
            /\ Stored(mem', key).content = Content(call.val, call.len)
<1>1. Loses(mem, mem', key) /\ Starts(mem', key) \subseteq Starts(mem, key)
  <2>1. Loses(mem, mem', key)
    BY StepLoses DEF PromiseStep
  <2> QED
    BY <2>1 DEF Starts, IsStart, Loses
<1>2. \/ Clean(mem, key)
      \/ /\ Starts(mem, key) = {}
         /\ \/ Stored(mem, key) = NothingStored
            \/ call.addr \in Stored(mem, key).pages
  BY DEF PromiseStep, CleanKeys
<1>3. \/ Clean(mem', key)
      \/ /\ WritingAt' /\ 0 < w'.n /\ Starts(mem', key) = {}
         /\ \/ Stored(mem', key) = NothingStored
            \/ /\ call.addr \in Stored(mem', key).pages
               /\ Stored(mem', key).content = Content(call.val, call.len)
  BY DEF PromiseStep, CleanKeys
<1>4. \A m : LedBy(m, key) /\ Starts(m, key) = {} => Stored(m, key) = NothingStored
  BY StoredNone DEF LedBy
<1>5. CASE Clean(mem, key) /\ Clean(mem', key)
  <2>1. Held(mem, key) \subseteq Held(mem', key) \cup {call.addr}
    BY StepSpares DEF PromiseStep, MayLose
  <2> QED
    BY <1>1, <1>5, <2>1, KeptUnless DEF Clean
<1>6. CASE Clean(mem, key) /\ ~Clean(mem', key)
  <2>1. Held(mem, key) \subseteq Held(mem', key)
    BY <1>3, <1>6, WritingSpares
  <2>2. Starts(mem, key) = {}
    BY <1>1, <1>3, <1>6, <2>1 DEF Starts, IsStart, Loses
  <2> QED
    BY <1>3, <1>4, <1>6, <2>2 DEF Clean
<1>7. CASE ~Clean(mem, key)
  <2>1. Starts(mem', key) = {}
    BY <1>1, <1>2, <1>7
  <2> QED
    BY <1>2, <1>3, <1>4, <1>7, <2>1 DEF Clean
<1> QED
  BY <1>5, <1>6, <1>7

\* The key of the call keeps its record, has none, or has the one asked for.
LEMMA OwnKeptOrSaved ==
  ASSUME PromiseStep, call' = call, mem' # mem, call.key \in ClientKeys
  PROVE  \/ Stored(mem', call.key) = Stored(mem, call.key)
         \/ Stored(mem', call.key) = NothingStored
         \/ WritingAt' /\ Promise!IsSaved(call, Records(mem'))
<1>1. CASE WritingAt'
  BY <1>1 DEF PromiseStep, OwnSaved, Records, Promise!IsSaved, Promise!Taken
<1>2. CASE ~WritingAt'
  <2>1. ~WritingAt
    BY <1>2, WritingGoesOn DEF PromiseStep
  <2> QED
    BY <1>2, <2>1, KeptAtRest, ClientKeyIsKey
<1> QED
  BY <1>1, <1>2

\* A step that changes the drive is one that RecordStore allows.
LEMMA StepAllowed ==
  ASSUME PromiseStep, mem' # mem,
         call.op \in {"save", "delete"} =>
           \A key \in ClientKeys \ {call.key} : Stored(mem', key) = Stored(mem, key)
  PROVE  Promise!Allowed(call, Records(mem'))
<1>1. call' = call /\ call.op \in Operation
  BY ChangeOfCall DEF PromiseStep, KeepsTo
<1>2. \A k \in ClientKeys : /\ Records(mem')[k] = Stored(mem', k)
                            /\ Records(mem)[k] = Stored(mem, k)
  BY DEF Records
<1>3. call.op \in {"save", "rewrite", "delete"} => call.key \in ClientKeys
  BY DEF PromiseStep, KeepsTo, NamesCall
<1>4. call.op \in {"save", "rewrite"} =>
        \/ Stored(mem', call.key) = Stored(mem, call.key)
        \/ Stored(mem', call.key) = NothingStored
        \/ Promise!IsSaved(call, Records(mem'))
  BY <1>1, <1>3, OwnKeptOrSaved
<1>5. ASSUME call.op \notin {"save", "rewrite"}
      PROVE  ~WritingAt /\ ~WritingAt'
  BY <1>1, <1>5 DEF PromiseStep, WritesForCall
<1>6. ASSUME call.op \notin {"save", "rewrite"}, NEW k \in ClientKeys
      PROVE  /\ Stored(mem', k) = Stored(mem, k) \/ Stored(mem', k) = NothingStored
             /\ call.op = "find" \/ (call.op \in {"load", "clear"} /\ k # d.key) =>
                  Stored(mem', k) = Stored(mem, k)
  <2>1. k \in Key
    BY ClientKeyIsKey
  <2> QED
    BY <1>5, <1>6, <2>1, KeptAtRest DEF MayLose
<1> USE DEF Promise!Allowed, Promise!Kept, Promise!Gone, Promise!Others, Records
<1>7. CASE call.op = "save"
  BY <1>3, <1>4, <1>7 DEF NothingStored, Promise!NoRecord
<1>8. CASE call.op = "rewrite"
  <2>1. ASSUME NEW k \in ClientKeys \ {call.key}
        PROVE  \/ Stored(mem', k) = Stored(mem, k)
               \/ Promise!Replaced(call, k, Records(mem'))
    BY <1>1, <1>2, <1>8, RewriteReplaces, ClientKeyIsKey DEF Promise!Replaced, Content,
      NothingStored, Promise!NoRecord
  <2> QED
    BY <1>3, <1>4, <1>8, <2>1 DEF NothingStored, Promise!NoRecord
<1>9. CASE call.op = "delete"
  BY <1>3, <1>6, <1>9 DEF NothingStored, Promise!NoRecord
<1>10. CASE call.op \in {"load", "clear"}
  BY <1>6, <1>10 DEF NothingStored, Promise!NoRecord
<1>11. CASE call.op = "find"
  BY <1>6, <1>11
<1>12. CASE call.op = "format"
  BY <1>6, <1>12 DEF NothingStored, Promise!NoRecord
<1> QED
  BY <1>1, <1>7, <1>8, <1>9, <1>10, <1>11, <1>12 DEF Operation

\* A step that does not change it is one as well.
LEMMA SameAllowed ==
  ASSUME mem' = mem, call.op \in Operation,
         call.op \in {"save", "rewrite", "delete"} => call.key \in ClientKeys
  PROVE  Promise!Allowed(call, Records(mem'))
BY DEF Operation, Promise!Allowed, Promise!Kept, Promise!Others, Records

-----------------------------------------------------------------------------
(* The library keeps the promise.                                          *)

\* A step of the library is one of RecordStore, or changes nothing there.
LEMMA StepPromised ==
  ASSUME PromiseStep, Answered',
         call.op \in {"save", "delete"} =>
           \A key \in ClientKeys \ {call.key} : Stored(mem', key) = Stored(mem, key)
  PROVE  [Promise!Next]_(Promise!vars)
<1>1. /\ RecordStep /\ NamesCall /\ [Next]_vars /\ st \in Status /\ call' \in Call
  BY DEF PromiseStep, KeepsTo, RecordStep, WriteStep, HealthyStep, IInv, TypeOK,
    HeaderType, DataType
<1>2. pc' = "done" => Promise!Justified(call', st', Records(mem'))
  BY DEF Answered
<1>3. CASE Request
  <2>1. pc = "idle" /\ mem' = mem /\ call = NoCall
    BY <1>1, <1>3, RequestIdle DEF NamesCall
  <2>2. Promise!Begin
    BY <1>1, <1>2, <2>1 DEF Promise!Begin, Records
  <2> QED
    BY <2>2 DEF Promise!Next
<1>4. CASE Answer
  <2>1. pc = "done" /\ pc' = "idle" /\ call' = NoCall /\ mem' = mem
    BY <1>4 DEF Answer, Forget, device
  <2>2. Promise!End
    BY <1>1, <2>1 DEF Promise!End, Status
  <2> QED
    BY <2>2 DEF Promise!Next
<1>5. CASE UNCHANGED vars
  BY <1>5 DEF vars, device, control, frames, Promise!vars
<1>6. CASE call' = call /\ pc \notin {"idle", "done"} /\ pc' # "idle"
  <2>1. call.op \in Operation /\ call # NoCall
    BY <1>1, <1>6 DEF NamesCall, NoCall, Operation
  <2>2. Promise!Allowed(call, Records(mem'))
    <3>1. CASE mem' = mem
      BY <1>1, <2>1, <3>1, SameAllowed DEF NamesCall
    <3>2. CASE mem' # mem
      BY <3>2, StepAllowed
    <3> QED
      BY <3>1, <3>2
  <2>3. Promise!Step
    BY <1>2, <1>6, <2>1, <2>2 DEF Promise!Step, Records
  <2> QED
    BY <2>3 DEF Promise!Next
<1> QED
  BY <1>1, <1>3, <1>4, <1>5, <1>6, CallGoesOn

\* A drive that is all erased stores no record.
LEMMA InitPromised == Init => Promise!Init
<1> SUFFICES ASSUME Init PROVE Promise!Init
  OBVIOUS
<1>1. pc = "idle" /\ call = NoCall /\ \A a \in Addr : mem[a] = Bad
  BY DEF Init, HeaderInit, DeviceInit
<1>2. ASSUME NEW k \in ClientKeys
      PROVE  Stored(mem, k) = Promise!NoRecord
  <2>1. FoundAt(mem, k) = {}
    BY <1>1 DEF FoundAt, LoadsAsStart, Readable
  <2> QED
    BY <2>1, StoredNowhere DEF NothingStored, Promise!NoRecord
<1> QED
  BY <1>1, <1>2 DEF Promise!Init

-----------------------------------------------------------------------------
(* Losing power.                                                           *)

\* What holds when power is lost in this way.
CutStep == WriteStep /\ InOrder /\ Crash /\ CleanCut

\* The call is over, and nothing of it is left in memory.
LEMMA CutForgets ==
  ASSUME CutStep
  PROVE  /\ pc' = "idle" /\ call' = NoCall /\ fmt' = 0 /\ pc # "idle"
         /\ ~WritingAt' /\ ~ErasingAt' /\ ~At(FormatPoint)' /\ ~At(DeletePoint)'
         /\ ~At(SearchPoint)'
<1>1. pc' = "idle" /\ call' = NoCall /\ fmt' = 0 /\ pc # "idle"
  BY DEF CutStep, Crash, Forget
<1> QED
  BY <1>1 DEF WritingAt, ErasingAt, Within, At, HeaderPoint, SearchPoint, DeletePoint,
    FormatPoint

\* It tears no page but those that rewrite is erasing: a header is torn by
\* assumption only if it is already, and a page that is written has been erased.
LEMMA CutTears ==
  ASSUME CutStep
  PROVE  /\ SameTables(mem, mem') /\ (WritingAt => mem' = mem)
         /\ \A a \in DataAddr :
              \/ mem'[a] = mem[a]
              \/ mem'[a] = Bad /\ ErasingAt /\ a \in BatchPages
<1>1. PICK torn \in SUBSET InMutation : mem' = Erased(mem, torn)
  BY DEF CutStep, Crash, PowerLoss
<1>2. /\ DOMAIN mem = Addr /\ mem = [a \in Addr |-> mem[a]]
      /\ h \in HeaderFrame /\ w.n \in Nat
  BY WriteTypes DEF CutStep, Image
<1>3. mem' = [a \in Addr |-> IF a \in torn THEN Bad ELSE mem[a]]
  BY <1>1, <1>2 DEF Erased
<1>4. \A a \in Addr : a \notin DataAddr => mem'[a] = mem[a]
  BY DEF CutStep, CleanCut, DataAddr
<1>5. SameTables(mem, mem')
  BY <1>4, DataKeepsTables
<1>6. ASSUME NEW a \in DataAddr, mem'[a] # mem[a]
      PROVE  mem'[a] = Bad /\ pc \in {"w_erase", "w_rest"} /\ a \in BatchPages
  <2>1. a \in Addr /\ a \in torn /\ a \in InMutation /\ mem'[a] = Bad /\ mem[a] # Bad
    BY <1>1, <1>3, <1>6 DEF DataAddr
  <2>2. pc \notin {"d_erase", "m_erase"}
    BY DEF CutStep, WriteStep, DeleteClears, InOrder, RecordsWhole, TablesShrink
  <2>3. pc # "h_save"
    <3> SUFFICES ASSUME pc = "h_save" PROVE FALSE
      OBVIOUS
    <3>1. a = HeaderAddress(h.mb, h.copy)
      BY <2>1 DEF InMutation
    <3>2. h.mb \in Nat /\ h.copy \in Copy
      BY <1>2, SearchedIsMacroblock DEF HeaderFrame
    <3> QED
      BY <1>6, <3>1, <3>2, HeaderIsNotData
  <2>4. pc # "w_page"
    <3> SUFFICES ASSUME pc = "w_page" PROVE FALSE
      OBVIOUS
    <3>1. a = w.cur
      BY <2>1 DEF InMutation
    <3>2. WritingAt /\ w.n < call.len
      BY DEF WritingAt, Within, At, CutStep, WriteStep, HealthyStep, IInv, LoopsBounded
    <3>3. /\ \E p \in [0 .. MaxLen -> DataAddr] : Writes(p)
          /\ w.n \in w.n .. call.len - 1
      BY <1>2, <3>2, PlanOfWriting DEF CutStep
    <3> QED
      BY <2>1, <3>1, <3>2, <3>3 DEF Writes
  <2> QED
    BY <2>1, <2>2, <2>3, <2>4 DEF InMutation
<1>7. pc \in {"w_erase", "w_rest"} => ErasingAt /\ ~WritingAt
  BY WritingPoint DEF ErasingAt, Within, At, HeaderPoint, SearchPoint
<1>8. ASSUME WritingAt
      PROVE  mem' = mem
  <2>1. \A a \in Addr : mem'[a] = mem[a]
    BY <1>4, <1>6, <1>7, <1>8
  <2> QED
    BY <1>2, <1>3, <2>1
<1> QED
  BY <1>5, <1>6, <1>7, <1>8

\* So a page is held under a key as before, unless it is torn.
LEMMA CutHeld ==
  ASSUME CutStep, NEW key
  PROVE  /\ Loses(mem, mem', key)
         /\ \A c \in Held(mem, key) : mem'[c] # Bad => c \in Held(mem', key)
<1>1. SameTables(mem, mem') /\ \A a \in DataAddr : mem'[a] = mem[a] \/ mem'[a] = Bad
  BY CutTears
<1>2. \/ \A b \in Searched : ValidCopies(mem, b) # {}
      \/ \A a \in DataAddr : mem[a] = Bad
  BY DEF CutStep, InOrder, RecordsWhole, HeadersFirst
<1>3. CASE \A a \in DataAddr : mem[a] = Bad
  <2>1. \A a \in DataAddr : mem'[a] = Bad
    BY <1>1, <1>3
  <2>2. Held(mem, key) = {} /\ Held(mem', key) = {}
    BY <1>3, <2>1, HeldFacts
  <2> QED
    BY <2>2 DEF Loses
<1>4. CASE \A b \in Searched : ValidCopies(mem, b) # {}
  <2>1. \A b \in Searched : Table(mem', b) = Table(mem, b)
    BY <1>1, <1>4, SearchedIsMacroblock DEF SameTables
  <2>2. ASSUME NEW c \in DataAddr, mem'[c] # Bad
        PROVE  mem'[c] = mem[c] /\ (c \in Held(mem', key) <=> c \in Held(mem, key))
    BY <1>1, <2>1, <2>2, SameHeld
  <2> QED
    BY <2>2, HeldFacts DEF Loses
<1> QED
  BY <1>2, <1>3, <1>4

\* and the tables are as before, unless no page has been written at all.
LEMMA CutTables ==
  ASSUME CutStep, NEW c \in DataAddr, mem'[c] # Bad
  PROVE  mem'[c] = mem[c] /\ \A b \in Searched : Table(mem', b) = Table(mem, b)
<1>1. mem'[c] = mem[c]
  BY CutTears
<1>2. \A b \in Searched : ValidCopies(mem, b) # {}
  BY <1>1 DEF CutStep, InOrder, RecordsWhole, HeadersFirst
<1>3. \A b \in Searched : Table(mem', b) = Table(mem, b)
  BY <1>2, CutTears, SearchedIsMacroblock DEF SameTables
<1> QED
  BY <1>1, <1>3

\* The pages of a key are those of one record when power is lost: the record that
\* is being written is not listed yet, or it is complete.
LEMMA LeadsAtCut ==
  ASSUME CutStep, NEW key \in Key
  PROVE  Leads(mem, key)
<1>1. RecordsWhole /\ WriteStep /\ CleanCut
  BY DEF CutStep, InOrder
<1>2. CASE ~(WritingAt /\ key = call.key)
  BY <1>1, <1>2 DEF RecordsWhole, PagesLead
<1>3. CASE WritingAt /\ key = call.key /\ pc = "w_end"
  BY <1>1, <1>3, WrittenLeads
<1>4. CASE WritingAt /\ key = call.key /\ pc # "w_end"
  <2>1. PICK p \in [0 .. MaxLen -> DataAddr] : Writes(p)
    BY <1>1, <1>4, PlanOfWriting
  <2>2. w.n \in Nat
    BY <1>1, <1>4, PlanOfWriting
  <2>3. NoneListed(key)
    <3>1. CASE w.n = 0
      BY <1>4, <2>1, <3>1 DEF Writes, TablesListOnly, ListsOnly, NoneListed, Unlisted
    <3>2. CASE 0 < w.n
      BY <1>1, <1>4, <3>2 DEF CleanCut
    <3> QED
      BY <2>2, <3>1, <3>2
  <2>4. Held(mem, key) = {}
    BY <2>3, HeldFacts, SearchedPage DEF NoneListed, Unlisted
  <2> QED
    BY <2>4 DEF Leads
<1> QED
  BY <1>2, <1>3, <1>4

\* They are afterwards.
LEMMA CutLeads ==
  ASSUME CutStep, NEW key \in Key
  PROVE  Leads(mem', key)
<1> SUFFICES ASSUME NEW a \in Held(mem', key) PROVE LeadsOn(mem', a, key)
  BY DEF Leads
<1>1. a \in DataAddr /\ mem'[a] # Bad /\ mem'[a].key = key
  BY HeldFacts
<1>2. a \in Held(mem, key) /\ mem'[a] = mem[a] /\ LeadsOn(mem, a, key)
  BY CutHeld, LeadsAtCut DEF Loses, Leads
<1>3. CASE Linked(mem', a, mem'[a].next)
  <2>1. \A b \in Addr : mem'[b] # Bad => IF IsMacroblockAddress(b)
                                         THEN mem'[b].key = NoKey
                                         ELSE mem'[b].key \in UserKey
    BY DEF CutStep, WriteStep, Layout, MemLayout, IsTable
  <2>2. /\ mem'[a].next \in DataAddr /\ mem'[mem'[a].next] # Bad
        /\ mem'[mem'[a].next].key = key /\ mem'[a].next # a
    BY <1>1, <1>3, <2>1, LinkToData
  <2>3. mem'[mem'[a].next] = mem[mem'[a].next]
    BY <2>2, CutTables
  <2>4. mem[a].next \in DataAddr /\ Linked(mem, a, mem[a].next)
    BY <1>1, <1>2, <2>2, <2>3 DEF Linked, Readable, DataAddr
  <2>5. mem[a].next \in Held(mem, key)
    BY <1>2, <2>4 DEF LeadsOn
  <2>6. mem'[a].next \in Held(mem', key)
    BY <1>2, <2>2, <2>5, CutHeld
  <2> QED
    BY <1>2, <2>3, <2>4, <2>6 DEF LeadsOn, IsStart
<1>4. CASE ~Linked(mem', a, mem'[a].next)
  BY <1>2, <1>4 DEF LeadsOn, IsStart
<1> QED
  BY <1>3, <1>4

\* A page is listed under the key it holds, the one that a record is being written
\* at as well.
LEMMA CutAgrees ==
  ASSUME CutStep
  PROVE  KeysAgree'
<1> SUFFICES ASSUME NEW a \in Listed(mem', "OK"), mem'[a] # Bad
             PROVE  mem'[a].key = ListedKey(mem', a)
  BY DEF KeysAgree
<1>1. RecordsWhole /\ WriteStep /\ CleanCut
  BY DEF CutStep, InOrder
<1>2. a \in DataAddr /\ MacroblockIndex(a) \in Searched
  BY DEF Listed
<1>3. /\ mem'[a] = mem[a] /\ ListedKey(mem', a) = ListedKey(mem, a)
      /\ a \in Listed(mem, "OK")
  BY <1>2, CutTables DEF Listed, ListedKey
<1>4. mem[a].key = ListedKey(mem, a) \/ (WritingAt /\ 0 < w.n /\ a = call.addr)
  BY <1>1, <1>3 DEF RecordsWhole, KeysAgree
<1>5. CASE WritingAt /\ 0 < w.n /\ a = call.addr /\ pc = "w_end"
  BY <1>1, <1>3, <1>5, WrittenLeads
<1>6. CASE WritingAt /\ 0 < w.n /\ a = call.addr /\ pc # "w_end"
  <2>1. PICK p \in [0 .. MaxLen -> DataAddr] : Writes(p)
    BY <1>1, <1>6, PlanOfWriting
  <2>2. 0 \in 0 .. w.n - 1
    BY <1>1, <1>6, PlanOfWriting
  <2>3. p[0] = a /\ mem[p[0]].key = call.key
    <3>1. p[0] = a
      BY <1>6, <2>1 DEF Writes, Rising
    <3> QED
      BY <1>1, <1>6, <2>1, <2>2, <3>1, WrittenPage
  <2>4. ListedKey(mem, a) = call.key
    BY <1>1, <1>3, <1>6 DEF CleanCut, NotOfOther, Listed, ListedKey
  <2> QED
    BY <1>3, <2>3, <2>4
<1> QED
  BY <1>3, <1>4, <1>5, <1>6

\* The records are as whole as before.
LEMMA CutInOrder ==
  ASSUME CutStep
  PROVE  InOrder'
<1>1. RecordsWhole /\ StartsFirst
  BY DEF CutStep, InOrder
<1>2. \A a \in DataAddr : mem'[a] # Bad => mem'[a] = mem[a]
  BY CutTears
<1>3. ReturnsToCaller' /\ TablesShrink'
  BY CutForgets DEF ReturnsToCaller, TablesShrink, HeaderPoint
<1>4. HeadersFirst'
  <2>1. CASE \A b \in Searched : ValidCopies(mem, b) # {}
    BY <2>1, CutTears, SearchedIsMacroblock DEF SameTables, HeadersFirst
  <2>2. CASE \A a \in DataAddr : mem[a] = Bad
    BY <1>2, <2>2 DEF HeadersFirst
  <2> QED
    BY <1>1, <2>1, <2>2 DEF RecordsWhole, HeadersFirst
<1>5. TakesEmpty'
  BY <1>1, <1>2, CutForgets DEF RecordsWhole, TakesEmpty, IsStart
<1>6. HoldsValues'
  BY <1>1, <1>2, CutForgets DEF RecordsWhole, HoldsValues, NoCall
<1>7. PagesLead'
  BY CutLeads DEF PagesLead
<1>8. \A key : Starts(mem', key) \subseteq Starts(mem, key)
  BY CutHeld DEF Loses, Starts, IsStart
<1>9. OneStart'
  BY <1>1, <1>8 DEF RecordsWhole, OneStart
<1>10. StartsFirst'
  <2> SUFFICES ASSUME NEW key \in Key, NEW a \in Starts(mem', key),
                      NEW b \in Listed(mem', "OK"), ListedKey(mem', b) = key
               PROVE  a <= b
    BY DEF StartsFirst
  <2>1. a \in DataAddr /\ mem'[a] # Bad /\ a \in Starts(mem, key)
    BY <1>8, HeldFacts DEF Starts
  <2>2. b \in Listed(mem, "OK") /\ ListedKey(mem, b) = key
    BY <2>1, CutTables DEF Listed, ListedKey
  <2> QED
    BY <1>1, <2>1, <2>2 DEF StartsFirst
<1>11. LoadFollows' /\ PlainCalls' /\ EmptyHanded'
  BY CutForgets DEF LoadFollows, PlainCalls, EmptyHanded, NoCall
<1>12. TakesOwn' /\ NamesCall'
  BY CutForgets DEF TakesOwn, NamesCall, NoCall
<1> QED
  BY <1>3, <1>4, <1>5, <1>6, <1>7, <1>9, <1>10, <1>11, <1>12, CutAgrees
    DEF InOrder, RecordsWhole

\* The key that is being erased is in no table, and the array of pages to erase
\* holds no page of another one, but for that rewrite is given the address of.
LEMMA CutSpares ==
  ASSUME CutStep, NEW key \in Key, NEW c \in Held(mem, key),
         call.op = "rewrite" /\ key # call.key => c # call.addr
  PROVE  c \in Held(mem', key)
<1>1. /\ c \in DataAddr /\ MacroblockIndex(c) \in Searched
      /\ Table(mem, MacroblockIndex(c))[PageIndex(c)].st = "OK"
      /\ Table(mem, MacroblockIndex(c))[PageIndex(c)].key = key
      /\ mem[c] # Bad
  BY HeldFacts
<1> SUFFICES ASSUME ErasingAt, c \in BatchPages PROVE FALSE
  BY <1>1, CutHeld, CutTears
<1>2. call.op \in {"save", "rewrite"} /\ Rewriting
  BY ErasingIsWriting DEF CutStep, WriteStep, Layout
<1>3. TakesOwn /\ WInv
  BY DEF CutStep, InOrder, WriteStep
<1>4. c = call.addr /\ ~Unused(mem, c)
  BY <1>1, <1>3 DEF TakesOwn, Unused
<1>5. key = call.key
  BY <1>1, <1>2, <1>3, <1>4 DEF TakesOwn, NotOfOther
<1>6. NoneListed(call.key)
  <2>1. PICK p \in [0 .. MaxLen -> DataAddr] : Erases(p)
    BY <1>3 DEF WInv, ErasePlan
  <2> QED
    BY <2>1 DEF Erases, TablesListOnly, ListsOnly, NoneListed, Unlisted
<1> QED
  BY <1>1, <1>5, <1>6, SearchedPage DEF NoneListed, Unlisted

\* So a record is kept, or rewrite has erased its page at the address it is given.
LEMMA CutKeeps ==
  ASSUME CutStep, NEW key \in Key
  PROVE  \/ Stored(mem', key) = Stored(mem, key)
         \/ /\ call.op = "rewrite" /\ key # call.key
            /\ Stored(mem', key) = NothingStored /\ call.addr \in Stored(mem, key).pages
<1>1. CASE mem' = mem
  BY <1>1
<1>2. CASE mem' # mem
  <2>1. ~WritingAt /\ ~WritingAt'
    BY <1>2, CutTears, CutForgets
  <2>2. RecordsWhole /\ RecordsWhole' /\ StartsFirst /\ StartsFirst'
    BY CutInOrder DEF CutStep, InOrder
  <2>3. ByStart /\ ByStart'
    <3>1. KeysAgree' /\ StartsFirst' => ByStart'
      BY FoundByStart, PTL
    <3> QED
      BY <2>2, <3>1, FoundByStart DEF RecordsWhole
  <2>4. LedBy(mem, key) /\ LedBy(mem', key)
    BY <2>1, <2>3 DEF ByStart
  <2>5. /\ Leads(mem, key) /\ Leads(mem', key) /\ Loses(mem, mem', key)
        /\ \A a, b \in Starts(mem, key) : a = b
    BY <2>2, LeadsAtCut, CutLeads, CutHeld DEF RecordsWhole, OneStart
  <2>6. CASE call.op = "rewrite" /\ key # call.key
    <3>1. Held(mem, key) \subseteq Held(mem', key) \cup {call.addr}
      BY CutSpares
    <3> QED
      BY <2>4, <2>5, <2>6, <3>1, KeptUnless
  <2>7. CASE ~(call.op = "rewrite" /\ key # call.key)
    <3>1. Held(mem, key) \subseteq Held(mem', key) \cup {None}
      BY <2>7, CutSpares
    <3>2. None \notin Stored(mem, key).pages
      BY <2>4, <2>5, OtherPages, HeldIsAddr, NoneAssumption
    <3> QED
      BY <2>4, <2>5, <3>1, <3>2, KeptUnless
  <2> QED
    BY <2>6, <2>7
<1> QED
  BY <1>1, <1>2

\* For RecordStore the call is aborted.
LEMMA CutPromised ==
  ASSUME CutStep
  PROVE  Promise!Abort
<1>1. pc' = "idle" /\ call' = NoCall /\ call.op \in Operation /\ call # NoCall
  BY CutForgets DEF CutStep, InOrder, NamesCall, NoCall, Operation
<1>2. \A k \in ClientKeys : /\ Records(mem')[k] = Stored(mem', k)
                            /\ Records(mem)[k] = Stored(mem, k)
  BY DEF Records
<1>3. CASE mem' = mem
  BY <1>1, <1>3 DEF Promise!Abort
<1>4. CASE mem' # mem
  <2>1. call.op \in {"save", "rewrite"} /\ call.key \in ClientKeys
    <3>1. ErasingAt
      <4> SUFFICES ASSUME ~ErasingAt PROVE mem' = mem
        BY <1>4
      <4>1. \A a \in DataAddr : mem'[a] = mem[a]
        BY CutTears
      <4>2. \A a \in Addr : a \notin DataAddr => mem'[a] = mem[a]
        BY DEF CutStep, CleanCut, DataAddr
      <4>3. mem \in Image /\ mem' \in Image
        BY DEF CutStep, WriteStep, HealthyStep, IInv, TypeOK, DeviceType
      <4> QED
        BY <4>1, <4>2, <4>3 DEF Image
    <3> QED
      BY <3>1, ErasingIsWriting DEF CutStep, WriteStep, Layout, InOrder, NamesCall
  <2>2. \A k \in ClientKeys :
          \/ Stored(mem', k) = Stored(mem, k)
          \/ /\ call.op = "rewrite" /\ k # call.key
             /\ Stored(mem', k) = NothingStored /\ call.addr \in Stored(mem, k).pages
    BY CutKeeps, ClientKeyIsKey
  <2>3. Promise!Allowed(call, Records(mem'))
    BY <1>2, <2>1, <2>2 DEF Promise!Allowed, Promise!Kept, Promise!Gone, Promise!Others,
      Promise!Replaced, Records, NothingStored, Promise!NoRecord
  <2> QED
    BY <1>1, <2>3 DEF Promise!Abort, Records
<1> QED
  BY <1>3, <1>4

-----------------------------------------------------------------------------
(* The library keeps the promise.                                          *)

\* The invariant of all that is proved about records in every behaviour.
PInv == RInv /\ (Healthy => FindPasses)

\* A library on a drive that is all erased satisfies it, and has no record.
LEMMA InitPInv == Init => PInv /\ InOrder
<1> SUFFICES ASSUME Init PROVE PInv /\ InOrder
  OBVIOUS
<1>1. pc = "idle" /\ call = NoCall /\ \A a \in Addr : mem[a] = Bad
  BY DEF Init, HeaderInit, DeviceInit
<1>2. NamesCall /\ PlainCalls /\ EmptyHanded /\ FindPasses
  BY <1>1 DEF NoCall, NamesCall, PlainCalls, EmptyHanded, FindPasses, Finding
<1>3. StartsFirst
  BY <1>1 DEF StartsFirst, Starts, Held, Listed, DataAddr
<1>4. TakesOwn
  <2>1. ~ErasingAt /\ ~At(DeletePoint) /\ call.op = "none"
    BY <1>1 DEF ErasingAt, Within, At, HeaderPoint, SearchPoint, DeletePoint, NoCall
  <2> QED
    BY <2>1 DEF TakesOwn
<1>5. RInv /\ RecordsWhole /\ LoadFollows
  <2>1. RInv /\ Uncut
    BY InitRInv DEF Init, DeviceInit, Uncut, Healthy
  <2> QED
    BY <2>1 DEF RInv
<1> QED
  BY <1>2, <1>3, <1>4, <1>5 DEF PInv, InOrder

\* Every step preserves it.
LEMMA NextPInv == PInv /\ [Next]_vars => PInv'
<1> SUFFICES ASSUME PInv, [Next]_vars PROVE PInv'
  OBVIOUS
<1>1. RInv /\ RInv' /\ HInv /\ HInv' /\ (Healthy' => Healthy)
  <2>1. RInv /\ RInv' /\ HInv
    BY NextRInv DEF PInv, RInv, VInv
  <2> QED
    BY <2>1, HealthyBefore DEF RInv, VInv, HInv, IInv, TypeOK
<1>2. Healthy' => FindPasses'
  BY <1>1, NextFind DEF PInv, HInv, HealthyStep
<1> QED
  BY <1>1, <1>2 DEF PInv

\* What the proofs about records assume holds at every step that is clean.
LEMMA StepIsClean ==
  ASSUME PInv, PInv', Healthy, Healthy', InOrder, [Crash => CleanCut]_vars
  PROVE  IF Crash THEN CutStep ELSE RecordStep
<1>1. VInv /\ VInv' /\ EmptyAnswer /\ RecordsWhole
  BY DEF PInv, RInv, InOrder
<1>2. CASE Crash
  <2>1. ~ UNCHANGED vars
    BY <1>2 DEF Crash, Forget, vars, control
  <2>2. WriteStep
    BY <1>1 DEF VInv, HInv, HealthyStep, WriteStep
  <2> QED
    BY <1>2, <2>1, <2>2 DEF CutStep
<1>3. CASE ~Crash
  BY <1>1, <1>3, RecordStepHolds
<1> QED
  BY <1>2, <1>3

\* Such a step leaves all records in order.
LEMMA NextInOrder ==
  ASSUME PInv, PInv', Healthy, Healthy', InOrder, [Next]_vars, [Crash => CleanCut]_vars
  PROVE  InOrder'
<1>1. CASE Crash
  BY <1>1, StepIsClean, CutInOrder
<1>2. CASE ~Crash
  <2>1. RecordStep
    BY <1>2, StepIsClean
  <2> QED
    BY <2>1, NextRecordsWhole, NextLoadFollows, NextTakesOwn, NextNamesCall,
      NextPlainCalls, NextStartsFirst, NextEmptyHanded DEF InOrder
<1> QED
  BY <1>1, <1>2

\* So they are in every behaviour of a drive without faults and with clean losses
\* of power,
LEMMA AlwaysInOrder == Spec /\ CleanLosses => [](PInv /\ InOrder /\ Healthy)
<1>1. PInv /\ InOrder /\ Healthy /\ Healthy' /\ [Next]_vars /\ [Crash => CleanCut]_vars =>
        PInv' /\ InOrder'
  BY NextPInv, NextInOrder
<1> QED
  BY <1>1, InitPInv, PTL DEF Spec, CleanLosses, CutsAreClean
\* which may be none: those that no call is cut short in are such behaviours.
LEMMA UncutIsClean == Spec /\ []Uncut => CleanLosses
<1>1. PInv /\ [Next]_vars /\ Uncut' => [Crash => CleanCut]_vars
  BY UncutBefore DEF PInv, RInv, VInv, HInv, IInv, TypeOK
<1>2. Uncut => Healthy
  BY DEF Uncut
<1> QED
  BY <1>1, <1>2, InitPInv, NextPInv, PTL DEF Spec, CleanLosses, CutsAreClean

\* No step of save or deleteData (StorageData.cpp), the delete that undoes a
\* failed save and a loss of power in the middle of the call included, changes the
\* record a client gets for another key: neither the pages that are erased and
\* written nor the tables that are saved meanwhile are of its record.
THEOREM OthersAreKept == Spec /\ CleanLosses => OthersUntouched
<1>1. PInv /\ PInv' /\ InOrder /\ InOrder' /\ Healthy /\ Healthy'
        /\ [Next]_vars /\ [Crash => CleanCut]_vars =>
          [call.op \in {"save", "delete"} =>
             \A key \in ClientKeys \ {call.key} : Stored(mem', key) = Stored(mem, key)]_vars
  <2> SUFFICES ASSUME PInv, PInv', InOrder, InOrder', Healthy, Healthy',
                      [Next]_vars, [Crash => CleanCut]_vars,
                      call.op \in {"save", "delete"},
                      NEW key \in ClientKeys \ {call.key}
               PROVE  Stored(mem', key) = Stored(mem, key)
    OBVIOUS
  <2>1. CASE Crash
    BY <2>1, StepIsClean, CutKeeps, ClientKeyIsKey
  <2>2. CASE ~Crash
    BY <2>2, StepIsClean, StepKeepsOthers DEF InOrder
  <2> QED
    BY <2>1, <2>2
<1> QED
  BY <1>1, AlwaysInOrder, PTL DEF Spec, CleanLosses, CutsAreClean, OthersUntouched

\* After losses of power as well a key is found once between two calls, its pages
\* are all listed, a load copies parts of one record only, and a search for an
\* empty page ends at the first one of no record.
THEOREM RecordsSurviveCuts ==
  Spec /\ CleanLosses =>
    [](FoundOnce /\ TablesCoverRecords /\ LoadWhole /\ FindEmptyExact)
<1>1. PInv /\ InOrder /\ Healthy =>
        FoundOnce /\ TablesCoverRecords /\ LoadWhole /\ FindEmptyExact
  BY FindsOnce, CoversRecords, LoadsWhole, FindsEmpty DEF PInv, RInv, InOrder
<1> QED
  BY <1>1, AlwaysInOrder, PTL

\* What is in order says of the records of a state.
RecordsKept == CleanKeys /\ WritesForCall /\ OwnSaved /\ Answered

LEMMA RecordsAreKept ==
  ASSUME ClientsFit
  PROVE  PInv /\ InOrder /\ Healthy => RecordsKept
<1> SUFFICES ASSUME PInv, InOrder, Healthy PROVE RecordsKept
  OBVIOUS
<1>1. Ordered
  BY DEF PInv, RInv, VInv, HInv, InOrder, Ordered
<1> QED
  BY <1>1, KeysAreClean, OrderedWrites, OwnIsSaved, DoneIsAnswered DEF RecordsKept

\* Until the drive has a fault, and across losses of power that are clean, the
\* library (StorageAT.cpp, StorageData.cpp) implements RecordStore: every step of
\* every call keeps all records whole, removes or replaces only those the call
\* may, and every status is justified by the records that are left; a call that
\* is cut short leaves records that one of its steps may leave.
THEOREM PromiseIsKept ==
  ASSUME ClientsFit
  PROVE  Spec /\ CleanLosses => KeepsPromise
<1>1. PInv /\ InOrder /\ Healthy => RecordsKept
  BY RecordsAreKept
<1>2. PInv' /\ InOrder' /\ Healthy' => RecordsKept'
  BY <1>1, PTL
<1>3. PInv /\ PInv' /\ InOrder /\ InOrder' /\ Healthy /\ Healthy'
        /\ [Next]_vars /\ [Crash => CleanCut]_vars =>
          [Promise!Next]_(Promise!vars)
  <2> SUFFICES ASSUME PInv, PInv', InOrder, InOrder', Healthy, Healthy',
                      [Next]_vars, [Crash => CleanCut]_vars
               PROVE  [Promise!Next]_(Promise!vars)
    OBVIOUS
  <2>1. CASE Crash
    BY <2>1, StepIsClean, CutPromised DEF Promise!Next
  <2>2. CASE ~Crash
    <3>1. RecordStep
      BY <2>2, StepIsClean
    <3>2. PromiseStep /\ Answered'
      BY <1>1, <1>2, <3>1 DEF PromiseStep, RecordsKept, KeepsTo, PInv, InOrder
    <3>3. ASSUME call.op \in {"save", "delete"}, NEW key \in ClientKeys \ {call.key}
          PROVE  Stored(mem', key) = Stored(mem, key)
      BY <3>1, <3>3, StepKeepsOthers DEF InOrder
    <3> QED
      BY <3>2, <3>3, StepPromised
  <2> QED
    BY <2>1, <2>2
<1> QED
  BY <1>1, <1>3, InitPromised, AlwaysInOrder, PTL
    DEF Spec, CleanLosses, CutsAreClean, KeepsPromise, Promise!Spec

-----------------------------------------------------------------------------
(* Why the losses of power are clean.                                      *)

\* While a record is written a step is one of rewrite or of what it calls.
LEMMA WritingKinds ==
  ASSUME RecordStep, [Next]_vars, WritingAt
  PROVE  \/ HeaderNext /\ UNCHANGED <<s, call, d, w, l>>
         \/ SearchNext /\ UNCHANGED <<call, d, w, l>>
         \/ RewriteWriteNext
         \/ pc' = pc /\ h' = h /\ w' = w
<1>1. CASE DeleteNext \/ RewriteEraseNext \/ SaveNext \/ LoadNext \/ ClearNext
             \/ FormatNext \/ Answer \/ Request
  <2>1. pc \notin HeaderPoint \cup SearchPoint
               \cup {"w_next", "w_found", "w_switch", "w_reload", "w_page", "w_end"}
    <3>1. CASE Request
      BY <3>1, RequestIdle DEF HeaderPoint, SearchPoint
    <3>2. CASE Answer
      BY <3>2 DEF Answer, HeaderPoint, SearchPoint
    <3> QED
      BY <1>1, <3>1, <3>2, PointOfStep DEF HeaderPoint, SearchPoint, DeletePoint,
        FormatPoint
  <2> QED
    BY <2>1, WritingPoint
<1>2. CASE Crash \/ Drive
  BY <1>2, HealthyDrive DEF Drive, RecordStep, WriteStep, HealthyStep, IInv, TypeOK
<1>3. CASE UNCHANGED vars
  BY <1>3 DEF vars, control, frames
<1> QED
  BY <1>1, <1>2, <1>3 DEF Next, Library, DataNext

\* rewrite saves a header before its last page only to load the one of another
\* macroblock.
LEMMA NextSwitch ==
  ASSUME RecordStep, [Next]_vars, ListedLast, KeepsWithin, WritingAt, pc # "w_end",
         pc' = "h_save"
  PROVE  h'.back # "w_switch"
<1>1. h.back \in HeaderReturn /\ ~(pc = "h_save" /\ h.back = "w_switch")
  BY DEF ListedLast, RecordStep, WriteStep, HealthyStep, IInv, TypeOK, HeaderType,
    HeaderFrame
<1>2. CASE pc' = pc /\ h' = h
  BY <1>1, <1>2
<1>3. CASE HeaderNext
  <2>1. pc = "h_load" => h.back \in LoadPoint
    BY DEF RecordStep, WriteStep, HeaderIsTable
  <2>2. pc \in {"h_load", "h_save"} /\ h'.back = h.back
    BY <1>3, NextPoint, PointOfStep DEF HeaderPoint
  <2> QED
    BY <1>1, <2>1, <2>2 DEF LoadPoint
<1>4. CASE RewriteWriteNext
  <2>1. CASE RewriteFound
    <3>1. pc = "w_found" /\ w.n < call.len
      BY <2>1 DEF RewriteFound, Within, At, RecordStep, WriteStep, HealthyStep, IInv,
        LoopsBounded
    <3>2. ~(w.loaded /\ HeaderIsOfOther)
      BY <3>1 DEF KeepsWithin, HeaderIsOfOther
    <3>3. pc' \in {RewriteBack, "w_switch"}
      BY <2>1, <3>2 DEF RewriteFound, Return
    <3> QED
      BY <3>3 DEF RewriteBack
  <2>2. CASE RewriteNext
    <3>1. pc' = "h_save" => h'.back = "w_end"
      BY <2>2 DEF RewriteNext, SaveHeader, NoHeader, Search, Return, RewriteBack
    <3> QED
      BY <3>1
  <2>3. CASE RewriteSwitch \/ RewriteReload \/ RewritePage \/ RewriteEnd
    BY <2>3 DEF RewriteSwitch, RewriteReload, RewritePage, RewriteEnd, LoadHeader,
      Return, Goto, RewriteBack
  <2> QED
    BY <1>4, <2>1, <2>2, <2>3 DEF RewriteWriteNext
<1>5. CASE SearchNext
  <2>1. pc' # "h_save"
    BY <1>5, NextPoint DEF SearchPoint, RecordStep, WriteStep, HealthyStep, IInv, TypeOK,
      SearchType, SearchFrame, SearchReturn
  <2> QED
    BY <2>1
<1> QED
  BY <1>2, <1>3, <1>4, <1>5, WritingKinds

\* The tables stay until the last header has been saved.
LEMMA NextUnlisted ==
  ASSUME RecordStep, [Next]_vars, ListedLast, WritingAt, pc # "w_end",
         WritingAt', pc' # "w_end"
  PROVE  NoneListed(call.key)'
<1>1. /\ NoneListed(call.key) /\ (pc = "h_save" => h.back # "w_switch")
      /\ \A b \in Searched : ValidCopies(mem, b) # {}
  BY WritingHeaders DEF ListedLast
<1>2. call' = call
  <2>1. ~RewriteEnd
    BY DEF RewriteEnd
  <2> QED
    BY <2>1, WritingStays, PageSaved
<1>3. \A b \in Searched : Table(mem', b) = Table(mem, b)
  <2>1. CASE mem' = mem
    BY <2>1
  <2>2. CASE HeaderSave
    <3>1. h.mb \notin Searched
      BY <1>1, <2>2, HeaderSaved, WritingSaves
    <3> QED
      BY <1>1, <2>2, <3>1, HeaderSaved, SearchedIsMacroblock
  <2>3. CASE RewriteErase \/ RewriteRest
    BY <2>3, BatchGone
  <2>4. CASE RewritePage
    BY <1>1, <2>4, PageSaved, SearchedIsMacroblock DEF SameTables
  <2> QED
    BY <2>1, <2>2, <2>3, <2>4, StepKinds
<1> QED
  BY <1>1, <1>2, <1>3 DEF NoneListed

LEMMA NextListedLast ==
  ASSUME RecordStep, [Next]_vars, ListedLast, KeepsWithin
  PROVE  ListedLast'
<1> SUFFICES ASSUME WritingAt', pc' # "w_end"
             PROVE  NoneListed(call.key)' /\ (pc' = "h_save" => h'.back # "w_switch")
  BY DEF ListedLast
<1>1. CASE WritingAt /\ pc # "w_end"
  BY <1>1, NextSwitch, NextUnlisted
<1>2. CASE ~WritingAt
  <2>1. w'.n = 0 /\ pc' # "h_save"
    BY <1>2, WritingStarts
  <2>2. PICK p \in [0 .. MaxLen -> DataAddr] : Writes(p)'
    BY DEF RecordStep, WInv, WritePlan
  <2>3. NoneListed(call.key)'
    BY <2>1, <2>2 DEF Writes, TablesListOnly, ListsOnly, NoneListed, Unlisted
  <2> QED
    BY <2>1, <2>3
<1>3. CASE pc = "w_end"
  <2>1. WritingAt
    BY <1>3 DEF WritingAt, At
  <2>2. RewriteEnd
    BY <1>3, <2>1, WritingKinds, PointOfStep DEF HeaderPoint, SearchPoint, RewriteWriteNext,
      RewriteNext, RewriteFound, RewriteSwitch, RewriteReload, RewritePage
  <2>3. pc' \in {"v_saved", "done"}
    BY <2>2 DEF RewriteEnd, Return, RewriteBack
  <2> QED
    BY <2>3 DEF WritingAt, Within, At, HeaderPoint, SearchPoint
<1> QED
  BY <1>1, <1>2, <1>3

\* A loss of power is clean where none can tear a header.
LEMMA CutIsClean ==
  ASSUME Tearable \subseteq DataAddr, PInv, InOrder, Healthy, KeepsWithin, ListedLast,
         Crash
  PROVE  CleanCut
<1>1. PICK torn \in SUBSET (InMutation \cap Tearable) : mem' = Erased(mem, torn)
  BY DEF Crash, PowerLoss
<1>2. mem \in Image /\ Layout
  BY DEF PInv, RInv, VInv, HInv, IInv, TypeOK, DeviceType
<1>3. ASSUME NEW a \in Addr, IsMacroblockAddress(a)
      PROVE  mem'[a] = mem[a]
  <2>1. a \notin torn
    BY <1>3 DEF DataAddr
  <2>2. a \in DOMAIN mem
    BY <1>2 DEF Image
  <2> QED
    BY <1>1, <2>1, <2>2 DEF Erased
<1>4. ASSUME WritingAt, pc # "w_end"
      PROVE  NoneListed(call.key) /\ NotOfOther(call.addr)
  BY <1>4 DEF ListedLast, KeepsWithin
<1> QED
  BY <1>3, <1>4 DEF CleanCut

\* Without faults of the drive, where no header can tear, and as long as records
\* keep to a macroblock and take no page of another one, all losses of power are
\* clean: rewrite (StorageData.cpp) saves the only header that lists the pages of
\* a record after all of them are written.
THEOREM CutsAreCleanWithin ==
  ASSUME Tearable \subseteq DataAddr
  PROVE  Spec /\ []Healthy /\ []KeepsWithin => CutsAreClean
<1>1. Init => PInv /\ InOrder /\ ListedLast
  <2> SUFFICES ASSUME Init PROVE PInv /\ InOrder /\ ListedLast
    OBVIOUS
  <2>1. pc = "idle"
    BY DEF Init, HeaderInit
  <2> QED
    BY <2>1, InitPInv, WritingPoint DEF ListedLast, HeaderPoint, SearchPoint
<1>2. PInv /\ InOrder /\ ListedLast /\ Healthy /\ Healthy' /\ KeepsWithin /\ [Next]_vars =>
        PInv' /\ InOrder' /\ ListedLast' /\ [Crash => CleanCut]_vars
  <2> SUFFICES ASSUME PInv, InOrder, ListedLast, Healthy, Healthy', KeepsWithin, [Next]_vars
               PROVE  PInv' /\ InOrder' /\ ListedLast' /\ [Crash => CleanCut]_vars
    OBVIOUS
  <2>1. Crash => CleanCut
    BY CutIsClean
  <2>2. PInv' /\ InOrder'
    BY <2>1, NextPInv, NextInOrder
  <2>3. CASE Crash
    <3>1. pc' = "idle"
      BY <2>3 DEF Crash, Forget
    <3>2. ~WritingAt'
      BY <3>1 DEF WritingAt, Within, At, HeaderPoint, SearchPoint
    <3> QED
      BY <2>1, <2>2, <3>2 DEF ListedLast
  <2>4. CASE ~Crash
    <3>1. RecordStep
      BY <2>1, <2>2, <2>4, StepIsClean
    <3> QED
      BY <2>1, <2>2, <3>1, NextListedLast
  <2> QED
    BY <2>3, <2>4
<1> QED
  BY <1>1, <1>2, PTL DEF Spec, CutsAreClean

\* An instance whose drive has no fault but losses of power.
NoFaults == MaxBusy = 0 /\ MaxWorn = 0 /\ MaxDecay = 0

LEMMA AlwaysHealthy ==
  ASSUME NoFaults
  PROVE  Spec => []Healthy
<1>1. Init => Healthy
  BY DEF Init, DeviceInit, Healthy
<1>2. Healthy /\ DeviceType /\ [Next]_vars => Healthy'
  <2> SUFFICES ASSUME Healthy, DeviceType, [Next]_vars PROVE Healthy'
    OBVIOUS
  <2> USE DEF DeviceType, Healthy, NoFaults
  <2>1. CASE UNCHANGED device
    BY <2>1 DEF device
  <2>2. ASSUME NEW a, NEW pg, NEW status, SavePage(a, pg, status)
        PROVE  Healthy'
    BY <2>2 DEF SavePage, device
  <2>3. ASSUME NEW S, NEW status, ErasePages(S, status)
        PROVE  Healthy'
    BY <2>3 DEF ErasePages, device
  <2>4. CASE DeviceNext
    <3>1. \A a \in Addr : ~Wear(a)
      BY FS_EmptySet DEF Wear
    <3> QED
      BY <2>4, <3>1 DEF DeviceNext, TurnBusy, TurnReady, Decay
  <2>5. CASE PowerLoss(InMutation)
    BY <2>5 DEF PowerLoss
  <2> QED
    BY <2>1, <2>2, <2>3, <2>4, <2>5, DeviceStep
<1> QED
  BY <1>1, <1>2, TypeCorrect, PTL DEF Spec, TypeOK

\* So on such an instance, of any size and with any number of losses of power that
\* tear no header, the library implements RecordStore for clients that fit, as
\* long as records keep to a macroblock: the setting that the run of losses checks.
THEOREM PromiseSurvivesCuts ==
  ASSUME ClientsFit, NoFaults, Tearable \subseteq DataAddr
  PROVE  Spec /\ []KeepsWithin => KeepsPromise
BY AlwaysHealthy, CutsAreCleanWithin, PromiseIsKept, PTL DEF CleanLosses

-----------------------------------------------------------------------------
(* Why records keep to a macroblock.                                       *)

\* The pages that a client may ask a record at an address to take.
PagesFrom(a) == UNION {a .. a + n - 1 : n \in ClientLens}

\* Clients do not call rewrite, and save at addresses that leave room for the pages
\* of each record before the next address and before the end of the macroblock.
ClientsApart ==
  /\ "rewrite" \notin ClientOps
  /\ \A a \in ClientAddrs : \A c \in PagesFrom(a) :
       /\ MacroblockIndex(c) = MacroblockIndex(a)
       /\ \A b \in ClientAddrs : c \in PagesFrom(b) => a = b

\* A table lists a page as empty, or under the key of the first page of the record
\* that may take it.
ApartIn(toc, b) ==
  \A i \in Index :
    \/ toc[i].st = "EMPTY"
    \/ /\ toc[i].st = "OK"
       /\ \E a \in ClientAddrs \cap DataAddr :
            PageAddress(b, i) \in PagesFrom(a) /\ toc[PageIndex(a)] = toc[i]

\* A table that lists all pages as empty.
AllEmpty(toc) == \A i \in Index : toc[i].st = "EMPTY"

\* So do all tables, those that were just created or formatted are all empty.
Apart ==
  /\ \A b \in Searched : ApartIn(Table(mem, b), b)
  /\ At({"m_header"}) => h.mb = fmt
  /\ pc = "h_save" /\ h.back \in LoadPoint \cup {"m_saved"} /\ h.mb \in Searched =>
       AllEmpty(h.page.toc)

\* rewrite takes the pages after the address it is given one after the other, and
\* so uses one header.
InARow ==
  WritingAt =>
    /\ w.n < call.len => w.cur = call.addr + w.n
    /\ 0 < w.n => w.prev = call.addr + (w.n - 1)
    /\ At({"w_switch", "w_reload", "w_page"}) /\ ~IsLastPage => w.next = w.cur + 1
    /\ w.loaded => w.block = MacroblockIndex(call.addr)

\* Records of clients that save at addresses apart.
KeepsApart == Apart /\ InARow /\ ListedLast /\ call.op # "rewrite"

\* A page that a record may take is one of data, in the macroblock of its first one.
LEMMA PageOfClient ==
  ASSUME ClientsFit, ClientsApart, NEW a \in ClientAddrs \cap DataAddr,
         NEW c \in PagesFrom(a)
  PROVE  /\ c \in DataAddr /\ MacroblockIndex(c) = MacroblockIndex(a)
         /\ MacroblockIndex(c) \in Searched
<1>1. MacroblockIndex(c) = MacroblockIndex(a) /\ MacroblockIndex(c) \in Searched
  BY DEF ClientsApart, ClientsFit
<1>2. /\ a \in Nat /\ c \in Nat /\ a <= c /\ ~(a % PerBlock < Reserved)
      /\ PerBlock \in Nat /\ 0 < PerBlock /\ Reserved \in Nat
  <2>1. PICK n \in ClientLens : c \in a .. a + n - 1
    BY DEF PagesFrom
  <2>2. a \in Nat /\ n \in Nat /\ ~(a % PerBlock < Reserved)
    BY ClientAssumption, DataAssumption, Geometry DEF DataAddr, Addr, IsMacroblockAddress
  <2>3. c \in Nat /\ a <= c
    BY <2>1, <2>2
  <2> QED
    BY <2>2, <2>3, Geometry
<1>3. ~(c % PerBlock < Reserved)
  <2>1. /\ a % PerBlock \in Nat /\ a \div PerBlock \in Nat
        /\ a = PerBlock * (a \div PerBlock) + (a % PerBlock)
    BY <1>2, DivMod
  <2>2. /\ c % PerBlock \in Nat /\ c \div PerBlock = a \div PerBlock
        /\ c = PerBlock * (a \div PerBlock) + (c % PerBlock)
    BY <1>1, <1>2, DivMod DEF MacroblockIndex
  <2>3. a % PerBlock <= c % PerBlock
    <3>1. PICK k : k = PerBlock * (a \div PerBlock) /\ k \in Nat
      BY <1>2, <2>1
    <3> QED
      BY <1>2, <2>1, <2>2, <3>1
  <2> QED
    BY <1>2, <2>1, <2>2, <2>3
<1>4. c \in DataAddr
  <2>1. PICK q \in Nat : q = MacroblockIndex(c) /\ q < MacroblocksCount
    BY <1>1, <1>2, DivMod, MacroblockInRange DEF MacroblockIndex, Searched
  <2>2. /\ c % PerBlock \in Nat /\ c % PerBlock < PerBlock
        /\ c = PerBlock * q + (c % PerBlock)
    BY <1>2, <2>1, DivMod DEF MacroblockIndex
  <2>3. PICK i \in Index : i = (c % PerBlock) - Reserved
    BY <1>2, <1>3, <2>2 DEF Index, DataPages
  <2>4. c = PageAddress(q, i)
    <3>1. PICK k \in Nat : k = PerBlock * q /\ k = q * PerBlock
      BY <1>2
    <3> QED
      BY <1>2, <2>2, <2>3, <3>1 DEF PageAddress, MacroblockAddress
  <2> QED
    BY <2>1, <2>3, <2>4, AddressRoundTrip
<1> QED
  BY <1>1, <1>4

\* The page a record takes after its first k is one of them.
LEMMA PageInARow ==
  ASSUME ClientsFit, NEW a \in ClientAddrs, NEW n \in ClientLens, NEW k \in Nat, k < n
  PROVE  a + k \in PagesFrom(a)
<1>1. a \in Nat /\ n \in Nat
  BY ClientAssumption, DataAssumption, Geometry DEF Addr
<1>2. a + k \in a .. a + n - 1
  BY <1>1
<1> QED
  BY <1>2 DEF PagesFrom

\* The table that is created on a drive without data is all empty.
LEMMA CreatedAllEmpty ==
  ASSUME NEW m, \A a \in DataAddr : m[a] = Bad, NEW b \in Searched
  PROVE  AllEmpty(CreatedToc(m, b))
<1> SUFFICES ASSUME NEW i \in Index PROVE CreatedToc(m, b)[i].st = "EMPTY"
  BY DEF AllEmpty
<1>1. b \in Nat /\ b < MacroblocksCount
  BY SearchedIsMacroblock, MacroblockInRange DEF Searched
<1>2. PageAddress(b, i) \in DataAddr
  BY <1>1, AddressRoundTrip
<1> QED
  BY <1>2 DEF DataAddr, CreatedToc, CreatedUnit, Readable, EmptyUnit

LEMMA EmptyIsApart ==
  ASSUME NEW toc, NEW b, AllEmpty(toc)
  PROVE  ApartIn(toc, b)
BY DEF AllEmpty, ApartIn

\* deleteData takes a record out of a table as a whole.
LEMMA ClearedIsApart ==
  ASSUME NEW toc, NEW b, NEW key, ApartIn(toc, b)
  PROVE  ApartIn(Cleared(toc, key), b)
<1> SUFFICES ASSUME NEW i \in Index, Cleared(toc, key)[i].st # "EMPTY"
             PROVE  /\ Cleared(toc, key)[i].st = "OK"
                    /\ \E a \in ClientAddrs \cap DataAddr :
                         /\ PageAddress(b, i) \in PagesFrom(a)
                         /\ Cleared(toc, key)[PageIndex(a)] = Cleared(toc, key)[i]
  BY DEF ApartIn
<1>1. toc[i].key # key /\ Cleared(toc, key)[i] = toc[i]
  BY DEF Cleared, ClearedUnit, EmptyUnit
<1>2. PICK a \in ClientAddrs \cap DataAddr :
        PageAddress(b, i) \in PagesFrom(a) /\ toc[PageIndex(a)] = toc[i]
  BY <1>1 DEF ApartIn
<1>3. PageIndex(a) \in Index
  BY PageIndexInRange DEF DataAddr, Addr
<1>4. Cleared(toc, key)[PageIndex(a)] = toc[i]
  BY <1>1, <1>2, <1>3 DEF Cleared, ClearedUnit
<1>5. toc[i].st = "OK"
  BY <1>1 DEF ApartIn
<1> QED
  BY <1>1, <1>2, <1>4, <1>5

\* No page that the record in progress may take is listed before its header is
\* saved.
LEMMA OwnUnlisted ==
  ASSUME Ordered, TakesOwn, ClientsFit, ClientsApart, KeepsApart, WritingAt,
         pc # "w_end", NEW a \in PagesFrom(call.addr)
  PROVE  /\ call.addr \in ClientAddrs \cap DataAddr
         /\ a \in DataAddr /\ MacroblockIndex(a) = MacroblockIndex(call.addr)
         /\ MacroblockIndex(a) \in Searched
         /\ Table(mem, MacroblockIndex(a))[PageIndex(a)].st = "EMPTY"
<1>1. call.op = "save" /\ Rewriting /\ call.addr \in ClientAddrs \cap DataAddr
  <2>1. call.op = "save"
    BY WritingIsCall DEF KeepsApart, Ordered
  <2>2. Rewriting
    BY DEF WritingAt, Rewriting, Within, At, RewritePoint
  <2>3. call.addr \in ClientAddrs /\ ~IsMacroblockAddress(call.addr)
    BY <2>1, <2>2 DEF Ordered, NamesCall, Layout, WriteLayout
  <2> QED
    BY <2>1, <2>2, <2>3, ClientAssumption DEF DataAddr
<1>2. /\ a \in DataAddr /\ MacroblockIndex(a) = MacroblockIndex(call.addr)
      /\ MacroblockIndex(a) \in Searched
  BY <1>1, PageOfClient
<1>3. NotOfOther(call.addr) /\ NoneListed(call.key)
  BY <1>1 DEF KeepsApart, ListedLast, TakesOwn
<1>4. PageIndex(call.addr) \in Index /\ PageIndex(a) \in Index
  BY <1>1, <1>2, SearchedPage
<1>5. Table(mem, MacroblockIndex(a))[PageIndex(call.addr)].st # "OK"
  BY <1>2, <1>3, <1>4 DEF NotOfOther, NoneListed, Unlisted
<1>6. ApartIn(Table(mem, MacroblockIndex(a)), MacroblockIndex(a))
  BY <1>2 DEF KeepsApart, Apart
<1>7. a = PageAddress(MacroblockIndex(a), PageIndex(a))
  BY <1>2, AddressOfPlace
<1>8. ASSUME NEW c \in ClientAddrs \cap DataAddr, a \in PagesFrom(c)
      PROVE  c = call.addr
  BY <1>1, <1>8 DEF ClientsApart
<1> QED
  BY <1>1, <1>2, <1>4, <1>5, <1>6, <1>7, <1>8 DEF ApartIn

-----------------------------------------------------------------------------
(* Why rewrite takes its pages in a row.                                   *)

LEMMA StepOrdered ==
  ASSUME RecordStep, InOrder
  PROVE  Ordered
BY DEF RecordStep, WriteStep, HealthyStep, InOrder, Ordered

\* What the client has asked for whose record is being written.
LEMMA WritingAsked ==
  ASSUME Ordered, ClientsFit, KeepsApart, WritingAt
  PROVE  /\ call.addr \in ClientAddrs /\ call.len \in ClientLens
         /\ call.addr \in Nat /\ call.len \in Nat /\ 0 < call.len /\ w.n \in Nat
         /\ w.n < call.len => call.addr + w.n \in PagesFrom(call.addr)
         /\ w.n + 1 < call.len => call.addr + (w.n + 1) \in PagesFrom(call.addr)
<1>1. call.addr \in ClientAddrs /\ call.len \in ClientLens
  BY WritingIsCall DEF Ordered, NamesCall
<1>2. call \in Call /\ w \in RewriteFrame
  BY DEF Ordered, IInv, TypeOK, DataType
<1>3. /\ call.addr \in Nat /\ call.len \in Nat /\ 0 < call.len /\ w.n \in Nat
  <2>1. call.addr \in Nat
    BY <1>2, Geometry DEF Call, Addr
  <2>2. call.len \in Nat /\ 0 < call.len
    BY <1>2, WritingIsCall, WritingNames DEF Ordered
  <2>3. w.n \in Nat
    BY <1>2, DataAssumption DEF RewriteFrame
  <2> QED
    BY <2>1, <2>2, <2>3
<1>4. w.n < call.len => call.addr + w.n \in PagesFrom(call.addr)
  BY <1>1, <1>3, PageInARow
<1>5. w.n + 1 < call.len => call.addr + (w.n + 1) \in PagesFrom(call.addr)
  <2>1. w.n + 1 \in Nat
    BY <1>3
  <2> QED
    BY <1>1, <2>1, PageInARow
<1> QED
  BY <1>1, <1>3, <1>4, <1>5

\* The page that rewrite is at is in the macroblock of the first one.
LEMMA CurrentInRow ==
  ASSUME Ordered, ClientsFit, ClientsApart, KeepsApart, WritingAt,
         w.n < call.len
  PROVE  /\ w.cur = call.addr + w.n
         /\ MacroblockIndex(w.cur) = MacroblockIndex(call.addr)
<1>1. w.cur = call.addr + w.n
  BY DEF KeepsApart, InARow
<1> QED
  BY <1>1, WritingAsked DEF ClientsApart

\* The next empty page is the next page.
LEMMA NextInRow ==
  ASSUME RecordStep, InOrder, ClientsFit, ClientsApart, KeepsApart, WritingAt,
         pc = "w_found", st = "OK", ~IsLastPage
  PROVE  s.found = w.cur + 1
<1>1. /\ s.from = w.cur + 1 /\ NextEmpty(mem, s.from, s.found)
  BY DEF RecordStep, WriteStep, HealthyStep, IInv, SearchForward, Within, At, EmptySearch
<1>2. w.n + 1 < call.len /\ w.n < call.len
  BY StepOrdered, WritingAsked DEF IsLastPage
<1>3. w.cur + 1 = call.addr + (w.n + 1) /\ w.cur + 1 \in PagesFrom(call.addr)
  <2>1. w.cur = call.addr + w.n
    BY <1>2, StepOrdered, CurrentInRow
  <2>2. w.cur + 1 = call.addr + (w.n + 1)
    BY <2>1, StepOrdered, WritingAsked
  <2> QED
    BY <1>2, <2>2, StepOrdered, WritingAsked
<1> DEFINE a == w.cur + 1
           b == MacroblockIndex(a)
<1>4. /\ a \in DataAddr /\ b \in Searched
      /\ Table(mem, b)[PageIndex(a)].st = "EMPTY"
  BY <1>3, StepOrdered, OwnUnlisted DEF InOrder
<1>5. ValidCopies(mem, b) # {} /\ PageIndex(a) \in Index /\ b \in Nat
  BY <1>4, WritingHeaders, SearchedPage
<1>6. NextEmpty(mem, a, a)
  <2>1. \A c \in Searched : b <= c /\ c <= b => c = b
    BY <1>5, SearchedIsMacroblock
  <2>2. \A c \in Searched : ~(b <= c /\ c < b)
    BY <1>5, SearchedIsMacroblock
  <2>3. PageIndex(a) \in EmptyFrom(Table(mem, b), PageIndex(a))
    BY <1>4, <1>5 DEF EmptyFrom, Least, Index
  <2>4. b <= b
    BY <1>5
  <2> HIDE DEF a, b
  <2> QED
    BY <1>4, <1>5, <2>1, <2>2, <2>3, <2>4 DEF NextEmpty, b
<1> QED
  BY <1>1, <1>6, NextEmptyUnique

\* No other step moves rewrite away from its pages.
LEMMA RewriteInRow ==
  ASSUME RecordStep, InOrder, ClientsFit, ClientsApart, KeepsApart, WritingAt,
         RewriteWriteNext, ~RewritePage, ~RewriteEnd,
         w'.n = w.n, w'.cur = w.cur, call' = call
  PROVE  InARow'
<1>1. w \in RewriteFrame /\ InARow
  BY WriteTypes DEF RecordStep, KeepsApart
<1>2. CASE RewriteNext
  <2>1. w' = w /\ ~At({"w_switch", "w_reload", "w_page"})'
    BY <1>2 DEF RewriteNext, Return, Search, SaveHeader, NoHeader, RewriteBack, At,
      HeaderPoint
  <2> QED
    BY <1>1, <2>1 DEF InARow
<1>3. CASE RewriteFound
  <2>1. pc = "w_found" /\ w'.prev = w.prev /\ w'.loaded = w.loaded /\ w'.block = w.block
    BY <1>1, <1>3 DEF RewriteFound, RewriteFrame
  <2>2. At({"w_switch", "w_reload", "w_page"})' /\ ~IsLastPage => w'.next = w.cur + 1
    <3> SUFFICES ASSUME At({"w_switch", "w_reload", "w_page"})', ~IsLastPage
                 PROVE  w'.next = w.cur + 1
      OBVIOUS
    <3>1. st = "OK" /\ w'.next = s.found
      BY <1>1, <1>3 DEF RewriteFound, RewriteFrame, Return, RewriteBack, At, HeaderPoint
    <3> QED
      BY <2>1, <3>1, NextInRow
  <2>3. IsLastPage' <=> IsLastPage
    BY DEF IsLastPage
  <2> QED
    BY <1>1, <2>1, <2>2, <2>3 DEF InARow
<1>4. CASE RewriteSwitch
  <2>1. w' = w /\ At({"w_switch", "w_reload", "w_page"})
    BY <1>4 DEF RewriteSwitch, At
  <2> QED
    BY <1>1, <2>1 DEF InARow, IsLastPage
<1>5. CASE RewriteReload
  <2>1. /\ At({"w_switch", "w_reload", "w_page"}) /\ w.n < call.len
        /\ pc = "w_reload"
    BY <1>5 DEF RewriteReload, At, Within, RecordStep, WriteStep, HealthyStep, IInv,
      LoopsBounded
  <2>2. /\ w'.prev = w.prev /\ w'.next = w.next
        /\ w'.loaded => w'.block = MacroblockIndex(w.cur) \/ w' = w
    BY <1>1, <1>5 DEF RewriteReload, RewriteFrame
  <2>3. MacroblockIndex(w.cur) = MacroblockIndex(call.addr)
    BY <2>1, StepOrdered, CurrentInRow
  <2> QED
    BY <1>1, <2>1, <2>2, <2>3 DEF InARow, IsLastPage
<1> QED
  BY <1>2, <1>3, <1>4, <1>5 DEF RewriteWriteNext

LEMMA NextInARow ==
  ASSUME RecordStep, InOrder, ClientsFit, ClientsApart, KeepsApart, [Next]_vars
  PROVE  InARow'
<1> SUFFICES ASSUME WritingAt' PROVE InARow'
  BY DEF InARow
<1>1. w \in RewriteFrame /\ InARow
  BY WriteTypes DEF RecordStep, KeepsApart
<1>2. CASE ~WritingAt
  <2>1. w'.n = 0 /\ ~w'.loaded /\ pc' = "w_next"
    BY <1>2, WritingStarts
  <2>2. call'.addr \in Nat
    <3>1. call' \in Call
      BY DEF RecordStep, WriteStep, IInv, TypeOK, DataType
    <3> QED
      BY <3>1, Geometry DEF Call, Addr
  <2>3. w'.n < call'.len => w'.cur = call'.addr
    <3>1. PICK p \in [0 .. MaxLen -> DataAddr] : Writes(p)'
      BY DEF RecordStep, WInv, WritePlan
    <3> QED
      BY <2>1, <3>1 DEF Writes, Rising
  <2>4. ~At({"w_switch", "w_reload", "w_page"})'
    BY <2>1 DEF At, HeaderPoint
  <2> QED
    BY <2>1, <2>2, <2>3, <2>4 DEF InARow
<1>3. CASE WritingAt /\ RewritePage
  <2>1. /\ pc = "w_page" /\ pc' = "w_next" /\ call' = call /\ w'.n = w.n + 1
        /\ w'.cur = w.next /\ w.n < call.len /\ w' = PageWritten
    BY <1>3, PageSaved
  <2>2. w'.prev = w.cur /\ w'.loaded = w.loaded /\ w'.block = w.block
    BY <1>1, <2>1 DEF PageWritten, RewriteFrame
  <2>3. At({"w_switch", "w_reload", "w_page"}) /\ ~At({"w_switch", "w_reload", "w_page"})'
    BY <2>1 DEF At, HeaderPoint
  <2>4. w.cur = call.addr + w.n /\ call.addr \in Nat /\ w.n \in Nat /\ call.len \in Nat
    BY <1>3, <2>1, StepOrdered, CurrentInRow, WritingAsked
  <2>5. w'.n < call.len => w'.cur = call.addr + w'.n
    <3>1. w'.n < call.len => w.next = w.cur + 1
      BY <1>1, <1>3, <2>1, <2>3, <2>4 DEF InARow, IsLastPage
    <3> QED
      BY <2>1, <2>4, <3>1
  <2>6. w'.prev = call.addr + (w'.n - 1)
    BY <2>1, <2>2, <2>4
  <2> QED
    BY <1>1, <1>3, <2>1, <2>2, <2>3, <2>5, <2>6 DEF InARow
<1>4. CASE WritingAt /\ ~RewritePage
  <2>1. ~RewriteEnd
    <3> SUFFICES ASSUME RewriteEnd PROVE FALSE
      OBVIOUS
    <3>1. pc' \in {"v_saved", "done"}
      BY DEF RewriteEnd, Return, RewriteBack
    <3> QED
      BY <3>1 DEF WritingAt, Within, At, SearchPoint, HeaderPoint
  <2>2. call' = call /\ w'.n = w.n /\ w'.cur = w.cur
    BY <1>4, <2>1, WritingStays
  <2>3. CASE HeaderNext /\ UNCHANGED <<s, call, d, w, l>>
    <3>1. {"w_switch", "w_reload", "w_page"} \cap HeaderPoint = {}
      BY DEF HeaderPoint
    <3>2. At({"w_switch", "w_reload", "w_page"})' <=> At({"w_switch", "w_reload", "w_page"})
      BY <2>3, <3>1, HeaderKeepsPoint DEF RecordStep, WriteStep
    <3> QED
      BY <1>1, <1>4, <2>3, <3>2 DEF InARow, IsLastPage
  <2>4. CASE SearchNext /\ UNCHANGED <<call, d, w, l>>
    <3>1. ~At({"w_switch", "w_reload", "w_page"})'
      BY <2>4, NextPoint DEF At, SearchPoint, HeaderPoint, RecordStep, WriteStep,
        HealthyStep, IInv, TypeOK, SearchType, SearchFrame, SearchReturn
    <3> QED
      BY <1>1, <1>4, <2>4, <3>1 DEF InARow
  <2>5. CASE RewriteWriteNext
    BY <1>4, <2>1, <2>2, <2>5, RewriteInRow
  <2>6. CASE pc' = pc /\ h' = h /\ w' = w
    BY <1>1, <1>4, <2>2, <2>6 DEF InARow, IsLastPage, At
  <2> QED
    BY <1>4, <2>3, <2>4, <2>5, <2>6, WritingKinds
<1> QED
  BY <1>2, <1>3, <1>4

\* So what is written keeps to the macroblock of the header in use, and takes only
\* pages that no table lists, or lists under its own key.
LEMMA RowKeepsWithin ==
  ASSUME Ordered, TakesOwn, ClientsFit, ClientsApart, KeepsApart
  PROVE  KeepsWithin
<1> SUFFICES ASSUME WritingAt PROVE KeepsWithin
  BY DEF KeepsWithin
<1>1. NotOfOther(call.addr)
  <2>1. call.op = "save"
    BY WritingIsCall DEF KeepsApart, Ordered
  <2>2. Rewriting
    BY DEF WritingAt, Rewriting, Within, At, RewritePoint
  <2> QED
    BY <2>1, <2>2 DEF TakesOwn
<1>2. ASSUME w.n < call.len
      PROVE  NotOfOther(w.cur) /\ (w.loaded => w.block = MacroblockIndex(w.cur))
  <2>1. pc # "w_end"
    <3> SUFFICES ASSUME pc = "w_end" PROVE FALSE
      OBVIOUS
    <3>1. w.n = call.len
      BY DEF At, Ordered, WInv, WritePlan
    <3>2. call.len \in Nat
      BY WritingAsked
    <3> QED
      BY <1>2, <3>1, <3>2
  <2>2. w.cur = call.addr + w.n /\ MacroblockIndex(w.cur) = MacroblockIndex(call.addr)
    BY <1>2, CurrentInRow
  <2>3. w.cur \in PagesFrom(call.addr)
    BY <1>2, <2>2, WritingAsked
  <2>4. Table(mem, MacroblockIndex(w.cur))[PageIndex(w.cur)].st = "EMPTY"
    BY <2>1, <2>3, OwnUnlisted
  <2> QED
    BY <2>2, <2>4 DEF NotOfOther, KeepsApart, InARow
<1> QED
  BY <1>1, <1>2 DEF KeepsWithin

-----------------------------------------------------------------------------
(* Why the tables list records apart.                                      *)

\* The header that lists a record lists all of its pages, and those of the records
\* that were listed before.
LEMMA RecordIsApart ==
  ASSUME RecordStep, InOrder, ClientsFit, ClientsApart, KeepsApart,
         pc = "h_save", h.back = "w_end", h.mb \in Searched
  PROVE  ApartIn(h.page.toc, h.mb)
<1>1. WritingAt /\ At({"w_end"}) /\ pc # "w_end"
  BY DEF WritingAt, At, HeaderPoint
<1>2. /\ w.n = call.len /\ h.mb = w.header.mb /\ h.page = w.header.page
      /\ w.n > 0 => w.loaded
      /\ w.loaded => w.header.mb = w.block
  BY <1>1 DEF RecordStep, WriteStep, WInv, WritePlan, HeaderIsTable
<1>3. /\ call.addr \in ClientAddrs /\ call.len \in ClientLens
      /\ call.addr \in Nat /\ call.len \in Nat /\ 0 < call.len
  BY <1>1, StepOrdered, WritingAsked
<1>4. w.prev = call.addr + (call.len - 1) /\ h.mb = MacroblockIndex(call.addr) /\ w.loaded
  BY <1>1, <1>2, <1>3 DEF KeepsApart, InARow
<1>5. PICK p \in [0 .. MaxLen -> DataAddr] : Writes(p)
  BY <1>1, WritingPlan
<1>6. call.len <= MaxLen /\ MaxLen \in Nat
  BY <1>1, WritingPlan
<1>7. p[0] = call.addr /\ p[call.len - 1] = call.addr + (call.len - 1)
  BY <1>2, <1>3, <1>4, <1>5 DEF Writes, Rising
<1>8. call.addr \in ClientAddrs \cap DataAddr
  BY <1>3, <1>6, <1>7
<1>9. ASSUME NEW i \in Index, NEW j \in 0 .. call.len - 1, p[j] = PageAddress(h.mb, i)
      PROVE  /\ h.page.toc[i] = [key |-> call.key, st |-> "OK"]
             /\ PageAddress(h.mb, i) \in PagesFrom(call.addr)
  <2>1. MacroblockIndex(p[j]) = h.mb /\ PageIndex(p[j]) = i
    BY <1>9, PlaceOfPage, SearchedIsMacroblock
  <2>2. h.page.toc[i] = [key |-> call.key, st |-> "OK"]
    BY <1>2, <1>4, <1>5, <2>1 DEF Writes, ListsAll, TableInUse
  <2>3. /\ j \in Nat /\ 0 \in 0 .. call.len - 1 /\ call.len - 1 \in 0 .. call.len - 1
        /\ p[j] \in Nat
    <3>1. j \in 0 .. MaxLen
      BY <1>3, <1>6
    <3>2. p[j] \in DataAddr
      BY <3>1
    <3> QED
      BY <1>3, <3>2, Geometry DEF DataAddr, Addr
  <2>4. j = 0 \/ p[0] < p[j]
    BY <1>3, <1>5, <2>3 DEF Writes, Rising
  <2>5. j = call.len - 1 \/ p[j] < p[call.len - 1]
    BY <1>3, <1>5, <2>3 DEF Writes, Rising
  <2>6. p[j] \in call.addr .. call.addr + call.len - 1
    BY <1>3, <1>7, <2>3, <2>4, <2>5
  <2> QED
    BY <1>3, <1>9, <2>2, <2>6 DEF PagesFrom
<1>10. h.page.toc[PageIndex(call.addr)] = [key |-> call.key, st |-> "OK"]
  <2>1. /\ PageIndex(call.addr) \in Index
        /\ call.addr = PageAddress(h.mb, PageIndex(call.addr))
    BY <1>4, <1>8, SearchedPage, AddressOfPlace
  <2>2. 0 \in 0 .. call.len - 1
    BY <1>3
  <2> QED
    BY <1>7, <1>9, <2>1, <2>2
<1>11. ASSUME NEW i \in Index, \A j \in 0 .. call.len - 1 : p[j] # PageAddress(h.mb, i)
       PROVE  h.page.toc[i] = Table(mem, h.mb)[i]
  BY <1>2, <1>5, <1>11 DEF Writes
<1>12. ASSUME NEW i \in Index, h.page.toc[i].st # "EMPTY"
       PROVE  /\ h.page.toc[i].st = "OK"
              /\ \E a \in ClientAddrs \cap DataAddr :
                   /\ PageAddress(h.mb, i) \in PagesFrom(a)
                   /\ h.page.toc[PageIndex(a)] = h.page.toc[i]
  <2>1. CASE \E j \in 0 .. call.len - 1 : p[j] = PageAddress(h.mb, i)
    BY <1>8, <1>9, <1>10, <1>12, <2>1
  <2>2. CASE \A j \in 0 .. call.len - 1 : p[j] # PageAddress(h.mb, i)
    <3>1. h.page.toc[i] = Table(mem, h.mb)[i]
      BY <1>11, <2>2
    <3>2. ApartIn(Table(mem, h.mb), h.mb)
      BY DEF KeepsApart, Apart
    <3>3. PICK a \in ClientAddrs \cap DataAddr :
            /\ PageAddress(h.mb, i) \in PagesFrom(a)
            /\ Table(mem, h.mb)[PageIndex(a)] = Table(mem, h.mb)[i]
      BY <1>12, <3>1, <3>2 DEF ApartIn
    <3>4. Table(mem, h.mb)[i].st = "OK"
      BY <1>12, <3>1, <3>2 DEF ApartIn
    <3>5. /\ MacroblockIndex(a) = h.mb /\ PageIndex(a) \in Index
          /\ a = PageAddress(h.mb, PageIndex(a))
      <4>1. MacroblockIndex(a) = h.mb
        <5>1. MacroblockIndex(PageAddress(h.mb, i)) = MacroblockIndex(a)
          BY <3>3, PageOfClient
        <5>2. MacroblockIndex(PageAddress(h.mb, i)) = h.mb
          BY <1>12, PlaceOfPage, SearchedIsMacroblock
        <5> QED
          BY <5>1, <5>2
      <4> QED
        BY <4>1, SearchedPage, AddressOfPlace
    <3>6. ASSUME NEW j \in 0 .. call.len - 1, p[j] = a
          PROVE  FALSE
      <4>1. a \in PagesFrom(call.addr)
        BY <1>9, <3>5, <3>6
      <4>2. Table(mem, h.mb)[PageIndex(a)].st = "EMPTY"
        BY <1>1, <3>5, <4>1, StepOrdered, OwnUnlisted DEF InOrder
      <4> QED
        BY <3>3, <3>4, <4>2
    <3>7. h.page.toc[PageIndex(a)] = h.page.toc[i]
      BY <1>11, <3>1, <3>3, <3>5, <3>6
    <3> QED
      BY <3>1, <3>3, <3>4, <3>7
  <2> QED
    BY <2>1, <2>2
<1> QED
  BY <1>12 DEF ApartIn

\* A header that is saved keeps records apart.
LEMMA SavedIsApart ==
  ASSUME RecordStep, InOrder, ClientsFit, ClientsApart, KeepsApart, HeaderSave,
         h.mb \in Searched
  PROVE  ApartIn(h.page.toc, h.mb)
<1>1. pc = "h_save" /\ h.back \in HeaderReturn
  BY DEF HeaderSave, RecordStep, WriteStep, HealthyStep, IInv, TypeOK, HeaderType,
    HeaderFrame
<1>2. CASE h.back \in LoadPoint \cup {"m_saved"}
  BY <1>1, <1>2, EmptyIsApart DEF KeepsApart, Apart
<1>3. CASE h.back = "d_saved"
  <2>1. h.page.toc = Cleared(Table(mem, h.mb), d.key)
    BY <1>1, <1>3 DEF RecordStep, RecordsWhole, TablesShrink
  <2> QED
    BY <2>1, ClearedIsApart DEF KeepsApart, Apart
<1>4. CASE h.back = "w_end"
  BY <1>1, <1>4, RecordIsApart
<1>5. h.back # "w_switch"
  <2> SUFFICES ASSUME h.back = "w_switch" PROVE FALSE
    OBVIOUS
  <2>1. WritingAt
    BY <1>1 DEF WritingAt, Within, At, HeaderPoint
  <2> QED
    BY <1>1, <2>1 DEF KeepsApart, ListedLast
<1>6. h.back # "idle"
  BY <1>1 DEF RecordStep, RecordsWhole, ReturnsToCaller, HeaderPoint
<1> QED
  BY <1>1, <1>2, <1>3, <1>4, <1>5, <1>6 DEF HeaderReturn, LoadPoint

\* A header that is saved changes no other one.
LEMMA OtherCopies ==
  ASSUME RecordStep, HeaderSave, NEW b \in Macroblock, b # h.mb
  PROVE  ValidCopies(mem', b) = ValidCopies(mem, b)
<1>1. DeviceType /\ BusyCounted /\ h \in HeaderFrame /\ mem \in Image
  BY DEF RecordStep, WriteStep, HealthyStep, IInv, TypeOK, HeaderType, DeviceType
<1>2. mem' = [mem EXCEPT ![HeaderAddress(h.mb, h.copy)] = h.page]
  BY <1>1, HealthyHeaderSave DEF RecordStep
<1>3. h.mb \in Nat /\ h.copy \in Copy /\ b \in Nat
  BY <1>1, SearchedIsMacroblock DEF HeaderFrame
<1>4. \A i \in Copy : HeaderAddress(b, i) # HeaderAddress(h.mb, h.copy)
  BY <1>3, HeaderAddressUnique
<1>5. \A i \in Copy : mem'[HeaderAddress(b, i)] = mem[HeaderAddress(b, i)]
  <2>1. \A i \in Copy : HeaderAddress(b, i) \in Addr
    BY HeaderInStorage
  <2> QED
    BY <1>1, <1>2, <1>4, <2>1 DEF Image
<1> QED
  BY <1>5 DEF ValidCopies, Readable

\* A macroblock without a header is one of a drive without data.
LEMMA NoHeaderIsApart ==
  ASSUME HeadersFirst, NEW b \in Searched, ValidCopies(mem, b) = {}
  PROVE  AllEmpty(CreatedToc(mem, b))
<1>1. \A a \in DataAddr : mem[a] = Bad
  BY DEF HeadersFirst
<1> QED
  BY <1>1, CreatedAllEmpty

LEMMA NextNoHeader ==
  ASSUME HeadersFirst', NEW b \in Searched, ValidCopies(mem', b) = {}
  PROVE  ApartIn(Table(mem', b), b)
<1>1. \A a \in DataAddr : mem'[a] = Bad
  BY DEF HeadersFirst
<1> QED
  BY <1>1, CreatedAllEmpty, EmptyIsApart DEF Table

\* Tables that do not change keep records apart.
LEMMA SameIsApart ==
  ASSUME KeepsApart, HeadersFirst', SameTables(mem, mem'), NEW b \in Searched,
         ValidCopies(mem, b) # {} \/ ValidCopies(mem', b) = {}
  PROVE  ApartIn(Table(mem', b), b)
BY NextNoHeader, SearchedIsMacroblock DEF KeepsApart, Apart, SameTables

LEMMA NextTablesApart ==
  ASSUME RecordStep, InOrder, InOrder', ClientsFit, ClientsApart, KeepsApart, [Next]_vars,
         NEW b \in Searched
  PROVE  ApartIn(Table(mem', b), b)
<1>1. HeadersFirst' /\ b \in Macroblock
  BY SearchedIsMacroblock DEF InOrder, RecordsWhole
<1>2. CASE mem' = mem
  BY <1>2 DEF KeepsApart, Apart
<1>3. CASE HeaderSave /\ h.mb = b
  BY <1>3, SavedIsApart, HeaderSaved
<1>4. CASE HeaderSave /\ h.mb # b
  <2>1. ValidCopies(mem', b) = ValidCopies(mem, b)
    BY <1>1, <1>4, OtherCopies
  <2>2. CASE ValidCopies(mem, b) = {}
    BY <1>1, <2>1, <2>2, NextNoHeader
  <2>3. CASE ValidCopies(mem, b) # {}
    BY <1>1, <1>4, <2>3, HeaderSaved DEF KeepsApart, Apart
  <2> QED
    BY <2>2, <2>3
<1>5. CASE RewriteErase \/ RewriteRest
  <2>1. pc \in {"w_erase", "w_rest"}
    BY <1>5 DEF RewriteErase, RewriteRest
  <2>2. Within(RewritePoint \ {"w_start"})
    BY <2>1 DEF Within, At, RewritePoint
  <2>3. ValidCopies(mem, b) # {}
    BY <2>2 DEF RecordStep, WriteStep, WInv, HeadersThere
  <2> QED
    BY <1>1, <1>5, <2>3, BatchGone, SameIsApart
<1>6. CASE RewritePage
  BY <1>1, <1>6, PageSaved, SameIsApart
<1> QED
  BY <1>2, <1>3, <1>4, <1>5, <1>6, StepKinds

\* format goes on with the macroblock whose header it has loaded.
LEMMA NextFormatsSame ==
  ASSUME RecordStep, KeepsApart, [Next]_vars, At({"m_header"})'
  PROVE  h'.mb = fmt'
<1>1. /\ h \in HeaderFrame /\ s.back \in SearchReturn /\ d.back \in DeleteReturn
      /\ HealthyStep
  BY DEF RecordStep, WriteStep, HealthyStep, IInv, TypeOK, HeaderType, SearchType,
    DataType, SearchFrame, DeleteFrame
<1>2. At({"m_header"}) => h.mb = fmt
  BY DEF KeepsApart, Apart
<1>3. CASE HeaderNext /\ UNCHANGED <<s, call, d, w, l>> /\ UNCHANGED fmt
  <2>1. At({"m_header"})
    <3>1. {"m_header"} \cap HeaderPoint = {}
      BY DEF HeaderPoint
    <3> QED
      BY <1>1, <1>3, <3>1, HeaderKeepsPoint
  <2>2. h'.mb = h.mb
    BY <1>1, <1>3 DEF HeaderNext, HeaderLoad, HeaderSave, HeaderFrame
  <2> QED
    BY <1>2, <1>3, <2>1, <2>2
<1>4. CASE FormatNext
  <2>1. FormatBlock
    BY <1>4 DEF FormatNext, FormatHeader, FormatSaved, FormatErase, Return, Goto,
      SaveHeader, NoHeader, At, HeaderPoint
  <2> QED
    BY <2>1 DEF FormatBlock, LoadHeader, NoHeader, Return, At, HeaderPoint
<1>5. CASE SearchNext \/ DeleteNext
  BY <1>1, <1>5, NextPoint DEF SearchReturn, DeleteReturn, SearchPoint, DeletePoint,
    HeaderPoint, At
<1>6. CASE RewriteEraseNext \/ RewriteWriteNext \/ SaveNext \/ LoadNext \/ ClearNext
             \/ Request
  BY <1>6, NextPoint DEF HeaderPoint, At
<1>7. CASE Answer
  BY <1>7 DEF Answer, Forget, At, HeaderPoint
<1>8. CASE UNCHANGED vars
  <2>1. pc' = pc /\ h' = h /\ fmt' = fmt
    BY <1>8 DEF vars, control, frames
  <2> QED
    BY <1>2, <2>1 DEF At
<1>9. ~Crash /\ ~Drive
  BY <1>1, HealthyDrive DEF Drive, RecordStep, HealthyStep, IInv, TypeOK
<1> QED
  BY <1>3, <1>4, <1>5, <1>6, <1>7, <1>8, <1>9 DEF Next, Library, DataNext

\* A header that was created or emptied lists no page.
LEMMA NextSavesEmpty ==
  ASSUME RecordStep, InOrder, KeepsApart, [Next]_vars, pc' = "h_save",
         h'.back \in LoadPoint \cup {"m_saved"}, h'.mb \in Searched
  PROVE  AllEmpty(h'.page.toc)
<1>1. /\ h \in HeaderFrame /\ s.back \in SearchReturn /\ d.back \in DeleteReturn
      /\ h.back \in HeaderReturn /\ HealthyStep
  BY DEF RecordStep, WriteStep, HealthyStep, IInv, TypeOK, HeaderType, SearchType,
    DataType, HeaderFrame, SearchFrame, DeleteFrame
<1>2. CASE HeaderNext
  <2>1. ~HeaderSave
    BY <1>1, HeaderSaved DEF HeaderReturn
  <2>2. HeaderLoad /\ pc = "h_load"
    BY <1>2, <2>1 DEF HeaderNext, HeaderLoad
  <2>3. /\ ValidCopies(mem, h.mb) = {}
        /\ h' = [h EXCEPT !.page = HeaderPage(CreatedToc(mem, h.mb)), !.created = TRUE]
    BY <1>1, <2>2 DEF HeaderLoad, Return, HeaderReturn
  <2>4. h'.mb = h.mb /\ h'.page.toc = CreatedToc(mem, h.mb)
    BY <1>1, <2>3 DEF HeaderFrame, HeaderPage
  <2> QED
    BY <2>3, <2>4, NoHeaderIsApart DEF InOrder, RecordsWhole
<1>3. CASE FormatNext
  <2>1. FormatHeader /\ pc = "m_header" /\ st = "OK"
    BY <1>3 DEF FormatNext, FormatBlock, FormatHeader, FormatSaved, FormatErase, Return,
      Goto, LoadHeader
  <2>2. h' = [NoHeader EXCEPT !.mb = fmt,
                              !.page = [h.page EXCEPT !.toc = Formatted(@)],
                              !.back = "m_saved"]
    BY <2>1 DEF FormatHeader, SaveHeader, Return
  <2>3. h'.mb = fmt /\ h'.page.toc = Formatted(h.page.toc) /\ h.mb = fmt
    <3>1. h.page \in Page
      BY <1>1 DEF HeaderFrame
    <3>2. h.mb = fmt
      BY <2>1 DEF KeepsApart, Apart, At
    <3> QED
      BY <2>2, <3>1, <3>2 DEF NoHeader, Page
  <2>4. h.page.toc = Table(mem, h.mb)
    BY <2>1 DEF RecordStep, WriteStep, HeaderIsTable, LoadPoint
  <2>5. ApartIn(h.page.toc, h.mb)
    BY <2>3, <2>4 DEF KeepsApart, Apart
  <2> QED
    BY <2>3, <2>5 DEF ApartIn, AllEmpty, Formatted, FormattedUnit, EmptyUnit
<1>4. CASE RewriteWriteNext
  <2>1. h'.back = "w_end" \/ h'.back = "w_switch"
    BY <1>4 DEF RewriteWriteNext, RewriteNext, RewriteFound, RewriteSwitch,
      RewriteReload, RewritePage, RewriteEnd, RewriteBack, Search, SaveHeader, NoHeader,
      LoadHeader, Return, Goto
  <2> QED
    BY <2>1 DEF LoadPoint
<1>5. CASE SearchNext \/ DeleteNext
  BY <1>1, <1>5, NextPoint DEF SearchReturn, DeleteReturn, SearchPoint, DeletePoint,
    LoadPoint
<1>6. CASE RewriteEraseNext \/ SaveNext \/ LoadNext \/ ClearNext \/ Request
  BY <1>6, NextPoint
<1>7. CASE Answer
  BY <1>7 DEF Answer, Forget
<1>8. CASE UNCHANGED vars
  <2>1. pc' = pc /\ h' = h
    BY <1>8 DEF vars, control, frames
  <2> QED
    BY <2>1 DEF KeepsApart, Apart
<1>9. ~Crash /\ ~Drive
  BY <1>1, HealthyDrive DEF Drive, RecordStep, HealthyStep, IInv, TypeOK
<1> QED
  BY <1>2, <1>3, <1>4, <1>5, <1>6, <1>7, <1>8, <1>9 DEF Next, Library, DataNext

\* No client asks for a rewrite.
LEMMA NextSavesOnly ==
  ASSUME RecordStep, ClientsApart, KeepsApart, [Next]_vars
  PROVE  call'.op # "rewrite"
<1>1. CASE Request
  <2>1. /\ \A mode, key : Find(mode, key) => call'.op = "find"
        /\ \A addr, len : Load(addr, len) => call'.op = "load"
        /\ \A addr, key, val, len : Save(addr, key, val, len) => call'.op = "save"
        /\ \A key : DeleteData(key) => call'.op = "delete"
        /\ \A addr : ClearAddress(addr) => call'.op = "clear"
        /\ Format => call'.op = "format"
    BY DEF Find, Load, Save, Write, DeleteData, ClearAddress, Format, Enter, Refuse, NoCall
  <2> QED
    BY <1>1, <2>1 DEF Request, ClientsApart
<1>2. CASE Answer
  BY <1>2 DEF Answer, Forget, NoCall
<1>3. CASE UNCHANGED vars \/ call' = call
  BY <1>3 DEF vars, frames, KeepsApart
<1> QED
  BY <1>1, <1>2, <1>3, CallGoesOn

\* Records are kept apart by every step,
LEMMA NextKeepsApart ==
  ASSUME RecordStep, InOrder, InOrder', ClientsFit, ClientsApart, KeepsApart, [Next]_vars
  PROVE  KeepsApart'
<1>1. KeepsWithin
  BY StepOrdered, RowKeepsWithin DEF InOrder
<1>2. ListedLast'
  BY <1>1, NextListedLast DEF KeepsApart
<1>3. Apart'
  BY NextTablesApart, NextFormatsSame, NextSavesEmpty DEF Apart
<1> QED
  BY <1>2, <1>3, NextInARow, NextSavesOnly DEF KeepsApart

\* and by a loss of power, which tears no header.
LEMMA CutKeepsApart ==
  ASSUME CutStep, InOrder', KeepsApart
  PROVE  KeepsApart'
<1>1. pc' = "idle" /\ call'.op = "none" /\ ~WritingAt'
  BY CutForgets DEF NoCall
<1>2. ASSUME NEW b \in Searched
      PROVE  ApartIn(Table(mem', b), b)
  <2>1. HeadersFirst' /\ SameTables(mem, mem') /\ b \in Macroblock
    BY CutTears, SearchedIsMacroblock DEF InOrder, RecordsWhole
  <2>2. \A i \in Copy : mem'[HeaderAddress(b, i)] = mem[HeaderAddress(b, i)]
    BY <2>1, HeaderInStorage DEF CutStep, CleanCut
  <2>3. ValidCopies(mem', b) = ValidCopies(mem, b)
    BY <2>2 DEF ValidCopies, Readable
  <2> QED
    BY <2>1, <2>3, SameIsApart
<1>3. Apart'
  BY <1>1, <1>2 DEF Apart, At, HeaderPoint
<1> QED
  BY <1>1, <1>3 DEF KeepsApart, InARow, ListedLast

LEMMA InitKeepsApart ==
  ASSUME Init
  PROVE  KeepsApart
<1>1. pc = "idle" /\ call.op = "none" /\ \A a \in Addr : mem[a] = Bad
  BY DEF Init, HeaderInit, DeviceInit, NoCall
<1>2. ~WritingAt
  BY <1>1, WritingPoint DEF HeaderPoint, SearchPoint
<1>3. ASSUME NEW b \in Searched
      PROVE  ApartIn(Table(mem, b), b)
  <2>1. ValidCopies(mem, b) = {}
    BY <1>1 DEF ValidCopies, Readable
  <2>2. \A a \in DataAddr : mem[a] = Bad
    BY <1>1 DEF DataAddr
  <2> QED
    BY <2>1, <2>2, CreatedAllEmpty, EmptyIsApart DEF Table
<1>4. Apart
  BY <1>1, <1>3 DEF Apart, At, HeaderPoint
<1> QED
  BY <1>1, <1>2, <1>4 DEF KeepsApart, InARow, ListedLast

\* Clients that write by save only, each record at an address with room for it, never
\* see rewrite (StorageData.cpp) leave the macroblock it has begun in, nor write to a
\* page that is listed under another key: the next empty page it finds is always the
\* next page, as a header never lists a part of a record.
THEOREM RecordsKeepWithin ==
  ASSUME ClientsFit, ClientsApart, NoFaults, Tearable \subseteq DataAddr
  PROVE  Spec => []KeepsWithin
<1>1. Init => PInv /\ InOrder /\ KeepsApart
  BY InitPInv, InitKeepsApart
<1>2. PInv /\ InOrder /\ Healthy /\ KeepsApart => KeepsWithin
  <2> SUFFICES ASSUME PInv, InOrder, Healthy, KeepsApart PROVE KeepsWithin
    OBVIOUS
  <2>1. Ordered
    BY DEF PInv, RInv, VInv, HInv, InOrder, Ordered
  <2> QED
    BY <2>1, RowKeepsWithin DEF InOrder
<1>3. PInv /\ InOrder /\ KeepsApart /\ Healthy /\ Healthy' /\ [Next]_vars =>
        PInv' /\ InOrder' /\ KeepsApart'
  <2> SUFFICES ASSUME PInv, InOrder, KeepsApart, Healthy, Healthy', [Next]_vars
               PROVE  PInv' /\ InOrder' /\ KeepsApart'
    OBVIOUS
  <2>1. PInv'
    BY NextPInv
  <2>2. KeepsWithin
    BY <1>2
  <2>3. Crash => CleanCut
    BY <2>2, CutIsClean DEF KeepsApart
  <2>4. InOrder'
    BY <2>1, <2>3, NextInOrder
  <2>5. CASE Crash
    BY <2>1, <2>3, <2>4, <2>5, StepIsClean, CutKeepsApart
  <2>6. CASE ~Crash
    BY <2>1, <2>3, <2>4, <2>6, StepIsClean, NextKeepsApart
  <2> QED
    BY <2>1, <2>4, <2>5, <2>6
<1> QED
  BY <1>1, <1>2, <1>3, AlwaysHealthy, PTL DEF Spec

\* So for such clients, across any number of losses of power that tear no header,
\* the library keeps the promise of RecordStore, leaves the records of all other
\* keys as they are, and finds each key once: nothing is assumed of its states.
THEOREM PromiseToClients ==
  ASSUME ClientsFit, ClientsApart, NoFaults, Tearable \subseteq DataAddr
  PROVE  Spec =>
           /\ KeepsPromise /\ CutsAreClean /\ OthersUntouched
           /\ [](FoundOnce /\ TablesCoverRecords /\ LoadWhole /\ FindEmptyExact)
<1>1. Spec => CleanLosses
  BY RecordsKeepWithin, AlwaysHealthy, CutsAreCleanWithin, PTL DEF CleanLosses
<1>2. Spec => CutsAreClean
  BY <1>1, PTL DEF CleanLosses
<1> QED
  BY <1>1, <1>2, PromiseIsKept, OthersAreKept, RecordsSurviveCuts, PTL
=============================================================================
