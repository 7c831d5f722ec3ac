---------------------------- MODULE StorageHeader ----------------------------
(***************************************************************************)
(* Loading and saving the header of a macroblock: StorageMacroblock::      *)
(* loadHeader, Header::load, Header::create and Header::save.              *)
(*                                                                         *)
(* The library is one thread of nested calls.  pc is the point it is at,   *)
(* st the status the last call returned; a call in progress is a frame     *)
(* whose field back is the point to return to.  A point at which nothing   *)
(* but reads happen is one step: the drive answers BUSY to all of them or  *)
(* to none, and a BUSY anywhere in them gives the same result.             *)
(***************************************************************************)
EXTENDS StorageDevice

VARIABLES
  pc,   \* the point the library is at
  st,   \* the status returned last
  h     \* the Header object in use: loaded from, or being saved to, mb

control == <<pc, st>>

\* The points of the library, by the function they are in.
HeaderPoint == {"h_load", "h_save"}
SearchPoint == {"s_block", "s_header", "s_unit"}
DeletePoint == {"d_block", "d_header", "d_saved", "d_erase"}
RewritePoint == {"w_start", "w_deleted", "w_header", "w_target", "w_erase",
                 "w_rest", "w_next", "w_found", "w_switch", "w_reload",
                 "w_page", "w_end"}
DataPoint   == {"v_start", "v_check", "v_saved", "v_undone",
                "l_start", "l_copy", "l_deleted", "c_start", "c_load"}
FormatPoint == {"m_block", "m_header", "m_saved", "m_erase"}
Point == HeaderPoint \cup SearchPoint \cup DeletePoint \cup RewritePoint
           \cup DataPoint \cup FormatPoint \cup {"idle", "done"}

\* The points that wait for a header to be loaded or saved.
HeaderReturn == {"idle", "s_header", "d_header", "d_saved", "w_header",
                 "w_switch", "w_reload", "w_end", "v_check", "m_header",
                 "m_saved"}

HeaderFrame == [mb : Macroblock, page : Page, copy : Copy, created : BOOLEAN,
                back : HeaderReturn]

NoHeader == [mb |-> 0, page |-> HeaderPage(EmptyToc), copy |-> 0,
             created |-> FALSE, back |-> "idle"]

HeaderType ==
  /\ pc \in Point
  /\ st \in Status
  /\ h \in HeaderFrame

HeaderInit ==
  /\ pc = "idle"
  /\ st = "OK"
  /\ h = NoHeader

Goto(point) == pc' = point /\ UNCHANGED st
Return(status, back) == st' = status /\ pc' = back

LoadHeader(mb, back) ==
  /\ pc' = "h_load"
  /\ h' = [NoHeader EXCEPT !.mb = mb, !.back = back]
  /\ UNCHANGED st

\* Saving pg as the header of mb.
SaveHeader(mb, pg, back) ==
  /\ pc' = "h_save"
  /\ h' = [NoHeader EXCEPT !.mb = mb, !.page = pg, !.back = back]
  /\ UNCHANGED st

-----------------------------------------------------------------------------

\* loadHeader: the first copy that validates, or a header created from the
\* pages of the macroblock, which is saved at once.
HeaderLoad ==
  /\ pc = "h_load"
  /\ \/ busy /\ Return("BUSY", h.back) /\ UNCHANGED h
     \/ /\ ~busy
        /\ \E i \in FirstCopy(mem, h.mb) :
             h' = [h EXCEPT !.page = mem[HeaderAddress(h.mb, i)]]
        /\ Return("OK", h.back)
     \/ /\ ~busy /\ ValidCopies(mem, h.mb) = {}
        /\ h' = [h EXCEPT !.page = HeaderPage(CreatedToc(mem, h.mb)),
                          !.created = TRUE]
        /\ Goto("h_save")
  /\ UNCHANGED device

\* What a header none of whose copies could be written returns: create()
\* takes that for success.
AllCopiesFailed == IF h.created THEN "OK" ELSE "HEADER_ERROR"

\* Header::save: one copy, the first that can be written.
HeaderSave ==
  /\ pc = "h_save"
  /\ \E status \in {"OK", "BUSY", "ERROR"} :
       /\ SavePage(HeaderAddress(h.mb, h.copy), h.page, status)
       /\ \/ status # "ERROR" /\ Return(status, h.back) /\ UNCHANGED h
          \/ /\ status = "ERROR" /\ h.copy + 1 \in Copy
             /\ h' = [h EXCEPT !.copy = @ + 1]
             /\ UNCHANGED control
          \/ /\ status = "ERROR" /\ h.copy + 1 \notin Copy
             /\ Return(AllCopiesFailed, h.back)
             /\ UNCHANGED h

HeaderNext == HeaderLoad \/ HeaderSave
=============================================================================
