---------------------------- MODULE StorageClaims ----------------------------
(***************************************************************************)
(* What the documentation says of the library and the code does not do.    *)
(* Each claim quotes the line it comes from; TLC finds a behaviour of the  *)
(* code that contradicts it.                                               *)
(***************************************************************************)
EXTENDS StorageInvariants

\* "Searches data end address in storage" (StorageData.h): from the start of a
\* complete record, findEndAddress gives the address of its last page.
FindsEnd ==
  pc = "idle" =>
    \A key \in ClientKeys : \A a \in FoundAt(mem, key) :
      Complete(mem, a) =>
        FindEndAddress(mem, a) = Chain(mem, a)[Len(Chain(mem, a))]

\* "Removes data from address" (StorageAT.h): clearAddress leaves the records
\* that have no page at the address.
ClearsAddressOnly ==
  [][call.op = "clear" =>
       \A key \in ClientKeys :
         call.addr \notin Stored(mem, key).pages =>
           Stored(mem', key) = Stored(mem, key)]_vars

\* "Erase target addresses" (StorageData.cpp): rewrite erases pages of data.
ErasesTargetsOnly ==
  pc \in {"w_erase", "w_rest"} =>
    \A a \in BatchPages : ~IsMacroblockAddress(a)

\* "saves data to memory at the specified address if the memory area is not
\* occupied or has an identical prefix and identifier" (README.md): save starts
\* to write only at an address that is no page of a record of another key.
SavesFreeOnly ==
  pc = "w_start" /\ call.op = "save" =>
    \A key \in ClientKeys \ {call.key} : call.addr \notin Stored(mem, key).pages

\* "searches for data that has an minimum identifier", "an maximum identifier",
\* "an identifier next to the current" (README.md): find gets the record of the
\* id that its mode names, whatever that id is, or there is none.
FindsEveryId ==
  pc = "done" /\ call.op = "find" /\ call.mode # "EMPTY" =>
    LET searched == Searches(call.mode, call.key)
    IN  IF searched = {} THEN st = "NOT_FOUND"
        ELSE st = "OK" /\ \E k \in searched : s.found \in FoundAt(mem, k)
=============================================================================
