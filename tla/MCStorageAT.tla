----------------------------- MODULE MCStorageAT -----------------------------
(***************************************************************************)
(* Small instances of StorageAT for TLC: values of its constants.          *)
(***************************************************************************)
EXTENDS StorageInvariants, StorageClaims, StorageBytes, TLC

\* The payload of user data reads as a table of no meaning.
MCMisread == [i \in Index |-> [key |-> NoKey, st |-> "VOID"]]

AllData  == DataAddr
AllPages == Addr
AllKeys  == UserKey
OneKey   == {k \in UserKey : k.id = 0}

\* Two prefixes: the smallest and the largest id under one of them, those
\* between under the other.
FindKeys ==
  {k \in UserKey : k.id \in {0, MaxId} <=> k.prefix = CHOOSE p \in Prefixes : TRUE}

\* No value is chosen by name.
ValueSymmetry == Permutations(Values)
=============================================================================
