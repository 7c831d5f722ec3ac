---------------------------- MODULE MCStorageResize ----------------------------
(***************************************************************************)
(* Small instances of StorageResize for TLC: values of its constants.      *)
(***************************************************************************)
EXTENDS StorageResize, TLC

MCMisread == [i \in Index |-> [key |-> NoKey, st |-> "VOID"]]
AllKeys   == UserKey
AllData   == DataAddr

\* The keys differ in their prefixes only.
PrefixSymmetry == Permutations(Prefixes)
=============================================================================
