--------------------------- MODULE MCStorageUpgrade ---------------------------
(***************************************************************************)
(* Small instances of StorageUpgrade for TLC: two macroblocks of a header  *)
(* and two pages, as version 5 leaves them.                                *)
(***************************************************************************)
EXTENDS StorageUpgrade, TLC

MCMisread == [i \in Index |-> [key |-> NoKey, st |-> "VOID"]]
AllKeys   == UserKey
AllData   == DataAddr

K(id)  == CHOOSE k \in UserKey : k.id = id
V      == CHOOSE v \in Values : TRUE

\* The pages of a record of key k at pages a and b, or at page a alone.
Two(k, a, b) == (a :> DataPage(k, a, b, V, 1)) @@ (b :> DataPage(k, a, b, V, 2))
One(k, a)    == a :> DataPage(k, a, a, V, 1)

\* A drive that holds the pages of a function, with headers that list them.
Drive5(pages) ==
  [a \in Addr |->
     IF a \in DOMAIN pages THEN pages[a]
     ELSE IF ~IsMacroblockAddress(a) THEN Bad
     ELSE HeaderPage([i \in Index |->
            LET p == PageAddress(MacroblockIndex(a), i)
            IN  IF p \in DOMAIN pages
                THEN [key |-> pages[p].key, st |-> "OK"] ELSE EmptyUnit])]

\* A record and a page in different macroblocks, a full drive, a record next to
\* the stale pages of a deleted one, and a drive of one-page records that has
\* lost its first header.
Unlisted(drive, a) ==
  [drive EXCEPT ![MacroblockAddress(MacroblockIndex(a))].toc[PageIndex(a)] =
     EmptyUnit]

Drives5 == {Drive5(Two(K(0), 1, 2) @@ One(K(1), 4)),
            Drive5(Two(K(0), 1, 2) @@ Two(K(1), 4, 5)),
            Unlisted(Unlisted(Drive5(Two(K(0), 1, 2) @@ Two(K(1), 4, 5)), 1), 2),
            [Drive5(One(K(0), 1) @@ One(K(1), 4)) EXCEPT ![0] = Bad]}
=============================================================================
