---------------------------- MODULE StorageDevice ----------------------------
(***************************************************************************)
(* The physical drive behind IStorageDriver, as the library uses it and as *)
(* the emulator of the tests behaves: pages are read, written and erased;  *)
(* the drive may be busy for a while, may hold pages that refuse a write,  *)
(* may lose a page, and keeps what it holds when power is lost.            *)
(* This code is outside the library: every definition here is external.    *)
(***************************************************************************)
EXTENDS StoragePage

CONSTANTS
  MaxBusy,    \* bound: periods in which the drive answers BUSY
  MaxWorn,    \* bound: pages that refuse to be written
  MaxDecay,   \* bound: pages that stop validating by themselves
  MaxCrash,   \* bound: losses of power
  Tearable    \* the pages that a loss of power can tear

VARIABLES
  mem,     \* what the drive holds
  busy,    \* whether the drive answers BUSY now
  worn,    \* the pages a write fails on
  spent    \* how much of each bound has been used

device == <<mem, busy, worn, spent>>

ASSUME FaultAssumption ==
  /\ MaxBusy \in Nat /\ MaxWorn \in Nat /\ MaxDecay \in Nat /\ MaxCrash \in Nat
  /\ Tearable \subseteq Addr

DeviceType ==
  /\ mem \in Image
  /\ busy \in BOOLEAN
  /\ worn \in SUBSET Addr
  /\ spent \in [busy : Nat, decay : Nat, crash : Nat]

\* A drive as it leaves the factory: every page is erased.
DeviceInit ==
  /\ mem = [a \in Addr |-> Bad]
  /\ busy = FALSE
  /\ worn = {}
  /\ spent = [busy |-> 0, decay |-> 0, crash |-> 0]

-----------------------------------------------------------------------------
(* Reads and mutations by the library.                                     *)

\* Page::save of contents pg at page a, with status st: the write is skipped
\* when the page already holds them.  A worn page fails the write and keeps
\* its contents or is left torn; on a drive that is busy for the load before the
\* write and ready for the write, that happens to the same contents too.  The
\* drive may turn busy between the write and the load that verifies it.
SavePage(a, pg, st) ==
  \/ /\ busy /\ st = "BUSY"
     /\ UNCHANGED device
  \/ /\ ~busy /\ st = "OK"
     /\ a \in worn => mem[a] = pg
     /\ mem' = [mem EXCEPT ![a] = pg]
     /\ UNCHANGED <<busy, worn, spent>>
  \/ /\ ~busy /\ st = "BUSY" /\ spent.busy < MaxBusy
     /\ a \in worn => mem[a] = pg
     /\ mem' = [mem EXCEPT ![a] = pg]
     /\ busy' = TRUE
     /\ spent' = [spent EXCEPT !.busy = @ + 1]
     /\ UNCHANGED worn
  \/ /\ st = "ERROR"
     /\ a \in worn /\ (busy \/ mem[a] # pg)
     /\ \E left \in {mem[a], Bad} : mem' = [mem EXCEPT ![a] = left]
     /\ busy' = FALSE
     /\ UNCHANGED <<worn, spent>>

Erased(m, S) == [a \in DOMAIN m |-> IF a \in S THEN Bad ELSE m[a]]

\* Erasing the pages of a set, with status st.
ErasePages(S, st) ==
  \/ /\ busy /\ st = "BUSY"
     /\ UNCHANGED device
  \/ /\ ~busy /\ st = "OK"
     /\ mem' = Erased(mem, S)
     /\ UNCHANGED <<busy, worn, spent>>
  \/ /\ ~busy /\ st = "ERROR"
     /\ S \cap worn # {}
     /\ \E part \in {{}, S \ worn} : mem' = Erased(mem, part)
     /\ UNCHANGED <<busy, worn, spent>>

-----------------------------------------------------------------------------
(* What the drive does by itself.                                          *)

TurnBusy ==
  /\ ~busy /\ spent.busy < MaxBusy
  /\ busy' = TRUE
  /\ spent' = [spent EXCEPT !.busy = @ + 1]
  /\ UNCHANGED <<mem, worn>>

TurnReady ==
  /\ busy
  /\ busy' = FALSE
  /\ UNCHANGED <<mem, worn, spent>>

\* A page stops taking writes.
Wear(a) ==
  /\ a \notin worn /\ Cardinality(worn) < MaxWorn
  /\ worn' = worn \cup {a}
  /\ UNCHANGED <<mem, busy, spent>>

\* A page that validated no longer does.
Decay(a) ==
  /\ mem[a] # Bad /\ spent.decay < MaxDecay
  /\ mem' = [mem EXCEPT ![a] = Bad]
  /\ spent' = [spent EXCEPT !.decay = @ + 1]
  /\ UNCHANGED <<busy, worn>>

DeviceNext ==
  \/ TurnBusy
  \/ TurnReady
  \/ \E a \in Addr : Wear(a) \/ Decay(a)

\* Power is lost while the pages of a set are being mutated: each of them is
\* left as it was, or torn where the drive does not write a page atomically.
\* (Power lost after the mutation completed is power lost before the next.)
PowerLoss(S) ==
  /\ spent.crash < MaxCrash
  /\ \E torn \in SUBSET (S \cap Tearable) : mem' = Erased(mem, torn)
  /\ busy' = FALSE
  /\ spent' = [spent EXCEPT !.crash = @ + 1]
  /\ UNCHANGED worn
=============================================================================
