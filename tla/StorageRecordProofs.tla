-------------------------- MODULE StorageRecordProofs --------------------------
(***************************************************************************)
(* Records, on a drive that has had no fault.  With losses of power: what  *)
(* a save that succeeds has stored is the record that was asked for, in a  *)
(* chain of pages that starts at the address that was asked for, and       *)
(* nowhere else.  While no call has been cut short: the pages that are     *)
(* listed under a key are one record, found at one address, load gives the *)
(* whole of it, the tables list every page of it, and a search for an      *)
(* empty page gives the first that no table lists as taken.                *)
(***************************************************************************)
EXTENDS StorageWriteProofs, FiniteSetTheorems

-----------------------------------------------------------------------------
(* What is true of all records, as long as no call has been cut short.     *)

\* The drive is healthy and has not lost power in the middle of a call.
Uncut == Healthy /\ spent.crash = 0

\* No table a search looks at from an address on lists an empty page.
NoEmpty(m, from) ==
  \A b \in Searched : MacroblockIndex(from) <= b =>
    NoneEmpty(Table(m, b), PageIndex(from))

\* A search of a client for an empty page.
FindingEmpty == call.op = "find" /\ call.mode = "EMPTY"

\* A search for an empty page ends at the next one, if there is any.
EmptyAnswer ==
  /\ FindingEmpty =>
       /\ s.mode = "EMPTY" /\ s.from = 0 /\ s.back = "done"
       /\ At(SearchPoint) \/ pc = "done"
  /\ pc \in {"w_target", "w_found"} \/ (pc = "done" /\ FindingEmpty) =>
       \/ st = "OK" /\ NextEmpty(mem, s.from, s.found)
       \/ st = "NOT_FOUND" /\ NoEmpty(mem, s.from)

\* A call inside the library returns to the point it was made at: the library is
\* idle between the calls of its clients only, with no format in progress.
ReturnsToCaller ==
  /\ pc \in HeaderPoint => h.back # "idle"
  /\ At(SearchPoint) => s.back # "idle"
  /\ At(DeletePoint) => d.back # "idle"
  /\ pc = "idle" => fmt = 0

\* No page is written before all macroblocks have a header.
HeadersFirst ==
  \/ \A b \in Searched : ValidCopies(mem, b) # {}
  \/ \A a \in DataAddr : mem[a] = Bad

\* A table that lists no page, and a macroblock whose header is one.
NoneTaken(toc) == \A i \in Index : toc[i].st # "OK"
Emptied(b)     == ValidCopies(mem, b) # {} /\ NoneTaken(Table(mem, b))

\* A header that is saved for deleteData is that on the drive, without the key;
\* format has emptied the tables of the macroblocks it has passed.
TablesShrink ==
  /\ pc = "h_save" /\ h.back = "d_saved" =>
       h.page.toc = Cleared(Table(mem, h.mb), d.key)
  /\ pc # "m_erase"
  /\ pc = "h_save" /\ h.back = "m_saved" => h.mb = fmt /\ NoneTaken(h.page.toc)
  /\ pc = "m_saved" => st = "OK" /\ Emptied(fmt)
  /\ At(FormatPoint) => \A b \in Searched : b < fmt => Emptied(b)

\* After the first page, rewrite takes only pages that the tables list as empty,
\* in macroblocks that a search looks at.
TakesEmpty ==
  /\ pc = "w_switch" => st = "OK"
  /\ WritingAt /\ 0 < w.n /\ w.n < call.len =>
       /\ MacroblockIndex(w.cur) \in Searched
       /\ Table(mem, MacroblockIndex(w.cur))[PageIndex(w.cur)].st = "EMPTY"
  /\ \A a \in DataAddr :
       mem[a] # Bad => IsStart(mem, a) \/ MacroblockIndex(a) \in Searched

\* The payload of a page of data is that of a client.
HoldsValues ==
  /\ call.op \in {"save", "rewrite"} => call.val \in Values
  /\ \A a \in DataAddr : mem[a] # Bad => mem[a].val \in Values

\* A page is listed under the key it holds, but for the first one of a record
\* that is being written over another one.
KeysAgree ==
  \A a \in Listed(mem, "OK") :
    mem[a] # Bad => \/ mem[a].key = ListedKey(mem, a)
                    \/ WritingAt /\ 0 < w.n /\ a = call.addr

\* The pages that hold a key and are listed under it.
Held(m, key) ==
  {a \in Listed(m, "OK") :
     ListedKey(m, a) = key /\ m[a] # Bad /\ m[a].key = key}

\* A link from a page to another one of its key leads from a part of a record
\* to the next one, on a page that is listed as well, and a start is a part 1.
LeadsOn(m, a, key) ==
  /\ Linked(m, a, m[a].next) =>
       /\ m[a].next \in Held(m, key)
       /\ m[m[a].next].val = m[a].val
       /\ m[m[a].next].part = m[a].part + 1
  /\ IsStart(m, a) => m[a].part = 1

\* The pages listed under a key are those of one record, but for one that is
\* being written.
Leads(m, key) == \A a \in Held(m, key) : LeadsOn(m, a, key)
PagesLead     == \A key \in Key : (WritingAt /\ key = call.key) \/ Leads(mem, key)

\* They hold one start of a record at most.
Starts(m, key) == {a \in Held(m, key) : IsStart(m, a)}
OneStart       == \A key \in Key : \A a, b \in Starts(mem, key) : a = b

RecordsWhole ==
  /\ ReturnsToCaller /\ HeadersFirst /\ TablesShrink /\ TakesEmpty /\ HoldsValues
  /\ KeysAgree /\ PagesLead /\ OneStart

\* load follows the chain of a record that is found, part by part.
LoadFollows ==
  /\ call.op = "load" =>
       \/ pc \in {"l_start", "l_copy", "l_deleted", "done"}
       \/ At(DeletePoint) /\ d.back = "l_deleted"
  /\ pc = "l_copy" => l.at \in DataAddr /\ mem[l.at] # Bad /\ l.page = mem[l.at]
  /\ pc = "l_copy" \/ (pc = "done" /\ call.op = "load" /\ st = "OK") =>
       \A key \in Key : call.addr \in FoundAt(mem, key) =>
         /\ \A j \in DOMAIN l.got :
              l.got[j].key = key /\ l.got[j].val = mem[call.addr].val /\ l.got[j].part = j
         /\ pc = "l_copy" =>
              /\ l.at \in Held(mem, key)
              /\ l.page.val = mem[call.addr].val /\ l.page.part = Len(l.got) + 1

-----------------------------------------------------------------------------
(* Counting up and down.                                                   *)

\* What is true of 0, and of the next number of each, is true up to n.
LEMMA CountUp ==
  ASSUME NEW n \in Nat, NEW S, 0 \in S,
         \A j \in 0 .. n : j < n /\ j \in S => j + 1 \in S
  PROVE  \A j \in 0 .. n : j \in S
<1> DEFINE T == {j \in 0 .. n : j \notin S}
<1> SUFFICES ASSUME T # {} PROVE FALSE
  OBVIOUS
<1>1. T \in SUBSET Nat
  OBVIOUS
<1>2. PICK i \in Least(T) : TRUE
  BY <1>1, LeastExists
<1>3. i \in 0 .. n /\ i \notin S /\ \A j \in 0 .. n : j \notin S => i <= j
  BY <1>2 DEF Least
<1>4. i > 0 /\ i - 1 \in 0 .. n /\ i - 1 < n /\ ~(i <= i - 1)
  BY <1>3
<1>5. i - 1 \in S /\ (i - 1) + 1 = i
  BY <1>3, <1>4
<1> QED
  BY <1>3, <1>4, <1>5

\* What is true of n, and of the number before each, is true down to 0.
LEMMA CountDown ==
  ASSUME NEW n \in Nat, NEW S, n \in S,
         \A j \in 0 .. n : j < n /\ j + 1 \in S => j \in S
  PROVE  \A j \in 0 .. n : j \in S
<1> DEFINE T == {e \in 0 .. n : n - e \in S}
<1>1. 0 \in T
  BY n - 0 = n
<1>2. ASSUME NEW e \in 0 .. n, e < n, e \in T
      PROVE  e + 1 \in T
  <2>1. (n - (e + 1)) + 1 = n - e /\ n - (e + 1) \in 0 .. n /\ n - (e + 1) < n
    BY <1>2
  <2>2. n - e \in S
    BY <1>2
  <2> QED
    BY <1>2, <2>1, <2>2
<1> HIDE DEF T
<1>3. \A e \in 0 .. n : e \in T
  BY <1>1, <1>2, CountUp
<1>4. ASSUME NEW j \in 0 .. n
      PROVE  j \in S
  <2>1. n - j \in 0 .. n /\ n - (n - j) = j
    OBVIOUS
  <2>2. n - j \in T
    BY <1>3, <2>1
  <2> QED
    BY <2>1, <2>2 DEF T
<1> QED
  BY <1>4

-----------------------------------------------------------------------------
(* The recursion of Chain.                                                 *)

\* The chains of at most n hops, by those of one hop less.
ChainStep(m, f, n) ==
  [b \in Addr |->
     IF IsEnd(m, b) THEN <<b>>
     ELSE IF n = 0 \/ ~Linked(m, b, m[b].next) THEN <<b, None>>
     ELSE <<b>> \o f[n - 1][m[b].next]]

IsHop(m, f, k) == f = [n \in 0 .. k |-> ChainStep(m, f, n)]
Hop(m)         == CHOOSE f : IsHop(m, f, PagesCount)

\* Chain is the last of them.
LEMMA ChainIsHop ==
  ASSUME NEW m, NEW a
  PROVE  Chain(m, a) = Hop(m)[PagesCount][a]
BY DEF Chain, Hop, IsHop, ChainStep

\* A step of the recursion looks at the function one hop before, and no further.
LEMMA ChainStepSame ==
  ASSUME NEW m, NEW f, NEW g, NEW n \in Nat, n > 0 => f[n - 1] = g[n - 1]
  PROVE  ChainStep(m, f, n) = ChainStep(m, g, n)
<1>1. CASE n = 0
  BY <1>1 DEF ChainStep
<1>2. CASE n # 0
  BY <1>2 DEF ChainStep
<1> QED
  BY <1>1, <1>2

\* The chains of k hops are defined when those of one hop less are.
LEMMA HopExtends ==
  ASSUME NEW m, NEW k \in Nat, NEW f, k = 0 \/ IsHop(m, f, k - 1)
  PROVE  \E g : IsHop(m, g, k)
<1> DEFINE g == [n \in 0 .. k |-> IF n < k THEN f[n] ELSE ChainStep(m, f, k)]
<1>1. \A n \in 0 .. k : n < k => g[n] = f[n]
  OBVIOUS
<1>2. g[k] = ChainStep(m, f, k)
  OBVIOUS
<1>3. ASSUME NEW n \in 0 .. k, n < k
      PROVE  f[n] = ChainStep(m, f, n)
  <2>1. IsHop(m, f, k - 1) /\ n \in 0 .. k - 1
    BY <1>3
  <2> QED
    BY <2>1 DEF IsHop
<1>4. g = [n \in 0 .. k |-> g[n]]
  OBVIOUS
<1> HIDE DEF g
<1>5. ASSUME NEW n \in 0 .. k
      PROVE  g[n] = ChainStep(m, g, n)
  <2>1. g[n] = ChainStep(m, f, n)
    BY <1>1, <1>2, <1>3
  <2>2. n > 0 => f[n - 1] = g[n - 1]
    BY <1>1
  <2> QED
    BY <2>1, <2>2, ChainStepSame
<1>6. [n \in 0 .. k |-> g[n]] = [n \in 0 .. k |-> ChainStep(m, g, n)]
  BY <1>5
<1>7. IsHop(m, g, k)
  BY <1>4, <1>6 DEF IsHop
<1> QED
  BY <1>7

\* So they are defined.
LEMMA HopExists ==
  ASSUME NEW m
  PROVE  IsHop(m, Hop(m), PagesCount)
<1> DEFINE S == {k \in Nat : \E f : IsHop(m, f, k)}
<1>1. 0 \in S
  BY HopExtends
<1>2. ASSUME NEW j \in 0 .. PagesCount, j \in S
      PROVE  j + 1 \in S
  <2>1. PICK f : IsHop(m, f, j)
    BY <1>2
  <2>2. j + 1 \in Nat /\ (j + 1) - 1 = j
    OBVIOUS
  <2>3. IsHop(m, f, (j + 1) - 1)
    BY <2>1, <2>2
  <2>4. \E g : IsHop(m, g, j + 1)
    BY <2>2, <2>3, HopExtends
  <2> QED
    BY <2>2, <2>4
<1>3. PagesCount \in S
  <2> HIDE DEF S
  <2>1. \A j \in 0 .. PagesCount : j \in S
    BY <1>1, <1>2, Geometry, CountUp
  <2> QED
    BY <2>1, Geometry
<1> QED
  BY <1>3 DEF Hop

\* One hop.
LEMMA HopValue ==
  ASSUME NEW m, NEW n \in 0 .. PagesCount, NEW b \in Addr
  PROVE  Hop(m)[n][b] =
           IF IsEnd(m, b) THEN <<b>>
           ELSE IF n = 0 \/ ~Linked(m, b, m[b].next) THEN <<b, None>>
           ELSE <<b>> \o Hop(m)[n - 1][m[b].next]
<1>1. Hop(m)[n] = ChainStep(m, Hop(m), n)
  BY HopExists DEF IsHop
<1> QED
  BY <1>1 DEF ChainStep

-----------------------------------------------------------------------------
(* The pages of a record that has been written.                            *)

\* Each of the first n pages of a record holds its part of the value, and leads to
\* its neighbours.
LEMMA PartPage ==
  ASSUME call \in Call, NEW p \in [0 .. MaxLen -> DataAddr], NEW n \in Nat,
         n <= call.len, Parts(p, n), NEW j \in 0 .. n - 1
  PROVE  /\ j \in Nat /\ j < call.len /\ p[j] \in DataAddr /\ p[j] \in Addr /\ p[j] \in Nat
         /\ mem[p[j]] \in Page /\ mem[p[j]] # Bad
         /\ mem[p[j]].key = call.key /\ mem[p[j]].val = call.val
         /\ mem[p[j]].part = j + 1
         /\ mem[p[j]].prev = IF j = 0 THEN p[0] ELSE p[j - 1]
         /\ mem[p[j]].next = IF j + 1 >= call.len THEN p[j] ELSE p[j + 1]
<1>1. call.len \in Nat /\ call.len <= MaxLen /\ MaxLen \in Nat
  BY DataAssumption DEF Call
<1>2. /\ j \in Nat /\ j < call.len /\ j \in 0 .. MaxLen /\ 0 \in 0 .. MaxLen
      /\ j + 1 \in 0 .. MaxLen /\ (j # 0 => j - 1 \in 0 .. MaxLen)
  BY <1>1
<1> DEFINE prev == IF j = 0 THEN p[0] ELSE p[j - 1]
           next == IF j + 1 >= call.len THEN p[j] ELSE p[j + 1]
<1>3. \A k \in 0 .. MaxLen : p[k] \in DataAddr /\ p[k] \in Addr /\ p[k] \in Nat
  BY Geometry DEF DataAddr, Addr
<1>4. prev \in Nat /\ next \in Nat
  BY <1>2, <1>3
<1>5. call.key \in Key /\ call.val \in Values \cup {Junk}
  BY DEF Call
<1>6. mem[p[j]] = DataPage(call.key, prev, next, call.val, j + 1)
  BY DEF Parts
<1> HIDE DEF prev, next
<1>7. mem[p[j]] \in Page /\ mem[p[j]].prev = prev /\ mem[p[j]].next = next
  BY <1>2, <1>4, <1>5, <1>6, MisreadAssumption DEF DataPage, Page
<1>8. mem[p[j]].key = call.key /\ mem[p[j]].val = call.val /\ mem[p[j]].part = j + 1
  BY <1>6 DEF DataPage
<1> QED
  BY <1>2, <1>3, <1>7, <1>8, BadAssumption DEF prev, next

\* A record of one page or more has been written to the pages p.
RecordAt(p) ==
  /\ mem \in Image /\ call \in Call /\ call.len > 0
  /\ p \in [0 .. MaxLen -> DataAddr]
  /\ Rising(p, call.len - 1) /\ Parts(p, call.len)

\* The lengths and the pages of a record that has been written, as numbers.
LEMMA RecordLength ==
  ASSUME NEW p, RecordAt(p)
  PROVE  /\ call.len \in Nat \ {0} /\ call.len <= MaxLen /\ MaxLen \in Nat
         /\ \A j \in 0 .. call.len - 1 :
              j \in 0 .. MaxLen /\ p[j] \in DataAddr /\ p[j] \in Addr /\ p[j] \in Nat
<1>1. MaxLen \in Nat
  BY DataAssumption
<1>2. call.len \in 0 .. MaxLen
  BY DEF RecordAt, Call
<1>3. call.len \in Nat \ {0} /\ call.len <= MaxLen
  BY <1>1, <1>2 DEF RecordAt
<1>4. ASSUME NEW j \in 0 .. call.len - 1
      PROVE  j \in 0 .. MaxLen /\ p[j] \in DataAddr
  BY <1>1, <1>3 DEF RecordAt
<1>5. DataAddr \subseteq Addr /\ Addr \subseteq Nat
  BY Geometry DEF DataAddr, Addr
<1> QED
  BY <1>1, <1>3, <1>4, <1>5

\* Each page holds its part of the value, and leads to its neighbours.
LEMMA RecordPage ==
  ASSUME NEW p, RecordAt(p), NEW j \in 0 .. call.len - 1
  PROVE  /\ mem[p[j]] \in Page /\ mem[p[j]] # Bad
         /\ mem[p[j]].key = call.key /\ mem[p[j]].val = call.val
         /\ mem[p[j]].part = j + 1
         /\ mem[p[j]].prev = IF j = 0 THEN p[0] ELSE p[j - 1]
         /\ mem[p[j]].next = IF j + 1 >= call.len THEN p[j] ELSE p[j + 1]
<1>1. call.len \in Nat /\ call.len <= call.len
  BY RecordLength
<1>2. Parts(p, call.len) /\ call \in Call /\ p \in [0 .. MaxLen -> DataAddr]
  BY DEF RecordAt
<1> QED
  BY <1>1, <1>2, PartPage

\* The pages go up, so that each is as far from the first one as it is from
\* the start of the record, or further.
LEMMA RecordAhead ==
  ASSUME NEW p, RecordAt(p)
  PROVE  \A j \in 0 .. call.len - 1 : j <= p[j]
<1> DEFINE n == call.len - 1
           S == {j \in 0 .. n : j <= p[j]}
<1>1. n \in Nat
  BY RecordLength
<1>2. 0 \in S
  BY <1>1, RecordLength
<1>3. ASSUME NEW j \in 0 .. n, j < n /\ j \in S
      PROVE  j + 1 \in S
  <2>1. j \in 0 .. n /\ j + 1 \in 0 .. n /\ j < j + 1
    BY <1>1, <1>3
  <2>2. p[j] < p[j + 1]
    BY <2>1 DEF RecordAt, Rising
  <2>3. p[j] \in Nat /\ p[j + 1] \in Nat /\ j <= p[j]
    BY <1>3, <2>1, RecordLength
  <2> QED
    BY <2>1, <2>2, <2>3
<1> HIDE DEF S
<1>4. \A j \in 0 .. n : j \in S
  BY <1>1, <1>2, <1>3, CountUp
<1> QED
  BY <1>4 DEF S

\* From each page the chain leads to the pages that follow it, and ends there.
LEMMA RecordTail ==
  ASSUME NEW p, RecordAt(p)
  PROVE  \A j \in 0 .. call.len - 1 :
           Hop(mem)[PagesCount - j][p[j]] = [i \in 1 .. call.len - j |-> p[j + i - 1]]
<1> DEFINE n == call.len - 1
           Tail0(j) == [i \in 1 .. call.len - j |-> p[j + i - 1]]
           S == {j \in 0 .. n : Hop(mem)[PagesCount - j][p[j]] = Tail0(j)}
<1>1. n \in Nat /\ call.len = n + 1
  BY RecordLength
<1>2. \A j \in 0 .. n : PagesCount - j \in 0 .. PagesCount /\ p[j] \in Addr
                         /\ p[j] <= PagesCount - 1 /\ j <= p[j]
  BY RecordLength, RecordAhead, Geometry DEF Addr
<1>3. n \in S
  <2>1. n \in 0 .. n /\ n + 1 >= call.len
    BY <1>1
  <2>2. IsEnd(mem, p[n])
    BY <2>1, RecordPage DEF IsEnd
  <2>3. Hop(mem)[PagesCount - n][p[n]] = <<p[n]>>
    BY <1>2, <2>1, <2>2, HopValue
  <2>4. Tail0(n) = <<p[n]>>
    <3>1. call.len - n = 1 /\ n + 1 - 1 = n
      BY <1>1
    <3>2. Tail0(n) = [i \in 1 .. 1 |-> p[n + i - 1]]
      BY <3>1
    <3>3. \A i \in 1 .. 1 : n + i - 1 = n
      BY <1>1
    <3> QED
      BY <3>2, <3>3
  <2> QED
    BY <2>1, <2>3, <2>4
<1>4. ASSUME NEW j \in 0 .. n, j < n /\ j + 1 \in S
      PROVE  j \in S
  <2>1. j + 1 \in 0 .. n /\ ~(j + 1 >= call.len) /\ j \in Nat /\ j < j + 1
    BY <1>1, <1>4
  <2>2. mem[p[j]].next = p[j + 1] /\ mem[p[j]].key = call.key
    BY <2>1, RecordPage
  <2>3. mem[p[j + 1]] # Bad /\ mem[p[j + 1]].key = call.key
    BY <2>1, RecordPage
  <2>4. p[j] < p[j + 1] /\ p[j] \in Nat /\ p[j + 1] \in Nat
    BY <1>2, <2>1, RecordLength DEF RecordAt, Rising
  <2>5. ~IsEnd(mem, p[j]) /\ Linked(mem, p[j], mem[p[j]].next)
    BY <1>2, <2>1, <2>2, <2>3, <2>4 DEF IsEnd, Linked, Readable
  <2>6. PagesCount - j # 0 /\ (PagesCount - j) - 1 = PagesCount - (j + 1)
    BY <1>2, <2>1, Geometry
  <2>7. Hop(mem)[PagesCount - j][p[j]] = <<p[j]>> \o Hop(mem)[PagesCount - (j + 1)][p[j + 1]]
    BY <1>2, <2>2, <2>5, <2>6, HopValue
  <2>8. Hop(mem)[PagesCount - (j + 1)][p[j + 1]] = Tail0(j + 1)
    BY <1>4
  <2>9. <<p[j]>> \o Tail0(j + 1) = Tail0(j)
    <3> DEFINE k == call.len - (j + 1)
    <3>1. k \in Nat /\ call.len - j = 1 + k
      BY <1>1, <2>1
    <3>2. /\ Tail0(j + 1) \in Seq(Addr) /\ Len(Tail0(j + 1)) = k
          /\ \A i \in 1 .. k : Tail0(j + 1)[i] = p[j + i]
      <4>1. \A i \in 1 .. k : (j + 1) + i - 1 = j + i /\ j + i \in 0 .. n
        BY <1>1, <2>1
      <4>2. Tail0(j + 1) = [i \in 1 .. k |-> p[j + i]]
        BY <4>1
      <4>3. \A i \in 1 .. k : p[j + i] \in Addr
        BY <1>2, <4>1
      <4> QED
        BY <3>1, <4>2, <4>3
    <3>3. p[j] \in Addr
      BY <1>2
    <3> HIDE DEF Tail0
    <3>4. /\ Len(<<p[j]>> \o Tail0(j + 1)) = 1 + k
          /\ <<p[j]>> \o Tail0(j + 1) = [i \in 1 .. 1 + k |->
               IF i = 1 THEN p[j] ELSE Tail0(j + 1)[i - 1]]
      BY <3>1, <3>2, <3>3
    <3>5. \A i \in 1 .. 1 + k : (IF i = 1 THEN p[j] ELSE Tail0(j + 1)[i - 1]) = p[j + i - 1]
      <4> SUFFICES ASSUME NEW i \in 1 .. 1 + k
                   PROVE  (IF i = 1 THEN p[j] ELSE Tail0(j + 1)[i - 1]) = p[j + i - 1]
        OBVIOUS
      <4>1. CASE i = 1
        BY <2>1, <4>1
      <4>2. CASE i # 1
        <5>1. i - 1 \in 1 .. k /\ j + (i - 1) = j + i - 1
          BY <2>1, <3>1, <4>2
        <5> QED
          BY <3>2, <4>2, <5>1
      <4> QED
        BY <4>1, <4>2
    <3>6. Tail0(j) = [i \in 1 .. 1 + k |-> p[j + i - 1]]
      BY <3>1 DEF Tail0
    <3> HIDE DEF k
    <3> QED
      BY <3>4, <3>5, <3>6
  <2> QED
    BY <2>7, <2>8, <2>9
<1> HIDE DEF S
<1>5. \A j \in 0 .. n : j \in S
  BY <1>1, <1>3, <1>4, CountDown
<1> QED
  BY <1>5 DEF S

-----------------------------------------------------------------------------
(* The record that a client gets.                                          *)

\* The chain from the address the record was given is that of its pages.
LEMMA RecordChain ==
  ASSUME NEW p, RecordAt(p)
  PROVE  /\ p[0] = call.addr
         /\ Chain(mem, call.addr) = [i \in 1 .. call.len |-> p[i - 1]]
<1>1. call.len \in Nat /\ 0 \in 0 .. call.len - 1
  BY RecordLength
<1>2. p[0] = call.addr
  BY DEF RecordAt, Rising
<1>3. PagesCount - 0 = PagesCount /\ call.len - 0 = call.len
  BY <1>1, Geometry
<1>4. Hop(mem)[PagesCount][p[0]] = [i \in 1 .. call.len |-> p[0 + i - 1]]
  <2>1. Hop(mem)[PagesCount - 0][p[0]] = [i \in 1 .. call.len - 0 |-> p[0 + i - 1]]
    BY <1>1, RecordTail
  <2> QED
    BY <1>3, <2>1
<1>5. [i \in 1 .. call.len |-> p[0 + i - 1]] = [i \in 1 .. call.len |-> p[i - 1]]
  <2>1. \A i \in 1 .. call.len : 0 + i - 1 = i - 1
    BY <1>1
  <2> QED
    BY <2>1
<1> QED
  BY <1>2, <1>4, <1>5, ChainIsHop

\* It is complete, and holds the parts of the value in order.
LEMMA RecordContent ==
  ASSUME NEW p, RecordAt(p)
  PROVE  /\ Complete(mem, call.addr)
         /\ ContentAt(mem, call.addr) = Content(call.val, call.len)
<1> DEFINE c == Chain(mem, call.addr)
<1>1. DOMAIN c = 1 .. call.len /\ \A i \in 1 .. call.len : c[i] = p[i - 1]
  BY RecordChain
<1>2. \A i \in 1 .. call.len : i - 1 \in 0 .. call.len - 1 /\ (i - 1) + 1 = i
  BY RecordLength
<1>3. \A i \in 1 .. call.len : c[i] \in Nat
  BY <1>1, <1>2, RecordLength
<1>4. Complete(mem, call.addr)
  BY <1>1, <1>3, NoneAssumption DEF Complete, ChainPages
<1>5. \A i \in 1 .. call.len : mem[c[i]].val = call.val /\ mem[c[i]].part = i
  BY <1>1, <1>2, RecordPage
<1>6. ContentAt(mem, call.addr)
        = [i \in 1 .. call.len |-> [val |-> call.val, part |-> i]]
  <2> HIDE DEF c
  <2>1. ContentAt(mem, call.addr)
          = [i \in 1 .. call.len |-> [val |-> mem[c[i]].val, part |-> mem[c[i]].part]]
    BY <1>1 DEF ContentAt, c
  <2> QED
    BY <1>5, <2>1
<1> QED
  BY <1>4, <1>6 DEF Content, Promise!Content

\* The key is found at that address and nowhere else.
LEMMA RecordFound ==
  ASSUME NEW p, RecordAt(p), Written(p), MacroblockIndex(call.addr) \in Searched
  PROVE  FoundAt(mem, call.key) = {call.addr}
<1>1. 0 \in 0 .. call.len - 1 /\ p[0] = call.addr
  <2>1. 0 \in 0 .. call.len - 1
    BY RecordLength
  <2> QED
    BY <2>1, RecordChain
<1>2. call.addr \in DataAddr /\ call.addr \in Addr
  BY <1>1, RecordLength
<1>3. call.addr \in FoundAt(mem, call.key)
  <2>1. LoadsAsStart(mem, call.addr)
    BY <1>1, <1>2, RecordPage DEF LoadsAsStart, Readable, IsStart
  <2>2. Table(mem, MacroblockIndex(call.addr))[PageIndex(call.addr)]
          = [key |-> call.key, st |-> "OK"]
    BY <1>1 DEF Written
  <2> QED
    BY <1>2, <2>1, <2>2 DEF FoundAt, Listed, ListedKey
<1>4. ASSUME NEW a \in FoundAt(mem, call.key)
      PROVE  a = call.addr
  <2> DEFINE b == MacroblockIndex(a)
             i == PageIndex(a)
  <2>1. /\ a \in DataAddr /\ b \in Searched /\ LoadsAsStart(mem, a)
        /\ Table(mem, b)[i].st = "OK" /\ Table(mem, b)[i].key = call.key
    BY DEF FoundAt, Listed, ListedKey
  <2>2. i \in Index /\ a = PageAddress(b, i)
    <3>1. a \in Nat
      BY <2>1, Geometry DEF DataAddr, Addr
    <3> QED
      BY <2>1, <3>1, PageIndexInRange, AddressOfPlace
  <2>3. ListsOnly(Table(mem, b), b, p, call.len)
    BY <2>1 DEF Written, TablesListOnly
  <2> HIDE DEF b, i
  <2>4. PICK j \in 0 .. call.len - 1 : p[j] = a
    BY <2>1, <2>2, <2>3 DEF ListsOnly
  <2>5. j = 0
    <3> SUFFICES ASSUME j # 0 PROVE FALSE
      OBVIOUS
    <3>1. j \in Nat /\ j - 1 \in 0 .. call.len - 1 /\ j - 1 < j
      BY RecordLength
    <3>2. mem[a].prev = p[j - 1] /\ mem[a].prev = a
      BY <2>1, <2>4, RecordPage DEF LoadsAsStart, IsStart
    <3>3. p[j - 1] < p[j] /\ p[j] \in Nat
      BY <3>1, RecordLength DEF RecordAt, Rising
    <3> QED
      BY <2>4, <3>2, <3>3
  <2> QED
    BY <1>1, <2>4, <2>5
<1> QED
  BY <1>3, <1>4

\* What a client gets for a key that is found at one complete chain.
LEMMA StoredComplete ==
  ASSUME NEW m, NEW key, NEW x,
         {a \in Least(FoundAt(m, key)) : Complete(m, a)} = {x}
  PROVE  Stored(m, key) = [content |-> ContentAt(m, x), pages |-> ChainPages(m, x)]
<1> DEFINE record(a) == [content |-> ContentAt(m, a), pages |-> ChainPages(m, a)]
           found     == {a \in Least(FoundAt(m, key)) : Complete(m, a)}
           records   == {record(a) : a \in found}
<1>1. Stored(m, key) = IF records = {} THEN [content |-> << >>, pages |-> {}]
                       ELSE CHOOSE r \in records : TRUE
  BY DEF Stored
<1> HIDE DEF record
<1>2. records = {record(x)}
  OBVIOUS
<1>3. Stored(m, key) = record(x)
  <2> HIDE DEF records
  <2> QED
    BY <1>1, <1>2
<1> QED
  BY <1>3 DEF record

\* save and rewrite that answer STORAGE_OK have stored the record
\* (StorageData.cpp save and rewrite): its pages hold the parts of the value in
\* order, linked from the address that was asked for, and the tables lead the
\* key there and nowhere else.  A record of no page is none, and in the pages
\* after the last whole macroblock, where no search looks, none is found.
THEOREM SavedIsStored ==
  Spec => [](/\ Healthy /\ call.len > 0 /\ MacroblockIndex(call.addr) \in Searched
             => SaveStores)
<1>1. VInv => (/\ Healthy /\ call.len > 0 /\ MacroblockIndex(call.addr) \in Searched
               => SaveStores)
  <2> SUFFICES ASSUME VInv, Healthy, call.len > 0,
                      MacroblockIndex(call.addr) \in Searched,
                      pc = "done", call.op \in {"save", "rewrite"}, st = "OK"
               PROVE  /\ Stored(mem, call.key).content = Content(call.val, call.len)
                      /\ FoundAt(mem, call.key) = {call.addr}
    BY DEF SaveStores
  <2>1. PICK p \in [0 .. MaxLen -> DataAddr] : Written(p)
    BY DEF VInv, WInv, RecordWritten
  <2>2. RecordAt(p)
    BY <2>1 DEF RecordAt, Written, VInv, HInv, IInv, TypeOK, DeviceType, DataType
  <2>3. FoundAt(mem, call.key) = {call.addr}
    BY <2>1, <2>2, RecordFound
  <2>4. Least({call.addr}) = {call.addr}
    <3>1. call.addr \in Nat
      BY <2>2, Geometry DEF RecordAt, Call, Addr
    <3> QED
      BY <3>1 DEF Least
  <2>5. {a \in Least(FoundAt(mem, call.key)) : Complete(mem, a)} = {call.addr}
    BY <2>2, <2>3, <2>4, RecordContent
  <2>6. Stored(mem, call.key).content = ContentAt(mem, call.addr)
    BY <2>5, StoredComplete
  <2> QED
    BY <2>2, <2>3, <2>6, RecordContent
<1> QED
  BY <1>1, WriteInductive, PTL

-----------------------------------------------------------------------------
(* Searches for an empty page.                                             *)

\* One that comes back has found the next one, or there is none.
LEMMA EmptySearchEnds ==
  ASSUME HealthyStep, HeaderIsTable, EmptySearch, SearchNext, s.mode = "EMPTY",
         pc' \notin SearchPoint \cup HeaderPoint
  PROVE  \/ st' = "OK" /\ NextEmpty(mem, s.from, s'.found)
         \/ st' = "NOT_FOUND" /\ NoEmpty(mem, s.from)
<1>1. s \in SearchFrame
  BY DEF HealthyStep, IInv, TypeOK, SearchType
<1>2. CASE SearchBlock
  <2>1. pc = "s_block" /\ s.found = None
    BY <1>2 DEF SearchBlock, EmptySearch, At, SearchPoint
  <2>2. s.mb >= MacroblocksCount /\ st' = "NOT_FOUND"
    BY <1>2, <2>1 DEF SearchBlock, LoadHeader, HeaderPoint, Return
  <2>3. \A b \in Searched : b < s.mb
    <3>1. s.mb \in Nat /\ MacroblocksCount \in Nat
      BY <1>1, Geometry, MacroblockInRange DEF SearchFrame
    <3> QED
      BY <2>2, <3>1 DEF Searched
  <2>4. NoEmpty(mem, s.from)
    BY <2>1, <2>3 DEF NoEmpty, EmptySearch, At, SearchPoint
  <2> QED
    BY <2>2, <2>4
<1>3. CASE SearchHeader
  <2>1. pc = "s_header" /\ st = "OK"
    BY <1>3 DEF SearchHeader, HeaderIsTable, LoadPoint
  <2>2. EmptyFrom(h.page.toc, ScanFrom) # {} /\ st' = "OK"
    BY <1>3, <2>1 DEF SearchHeader, SearchPoint, Goto, Return
  <2>3. PICK i \in EmptyFrom(h.page.toc, ScanFrom) :
          s' = [s EXCEPT !.found = PageAddress(s.mb, i)]
    BY <1>3, <2>1, <2>2 DEF SearchHeader
  <2>4. s'.found = PageAddress(s.mb, i)
    BY <1>1, <2>3 DEF SearchFrame
  <2> QED
    BY <2>1, <2>2, <2>4, EmptyFound
<1>4. CASE SearchUnit
  <2>1. pc = "s_unit"
    BY <1>4 DEF SearchUnit
  <2> QED
    BY <2>1 DEF EmptySearch, At, SearchPoint
<1> QED
  BY <1>2, <1>3, <1>4 DEF SearchNext

\* The steps of the library keep it so.
LEMMA SearchEmptyAnswer ==
  ASSUME HealthyStep, HeaderIsTable, EmptySearch, EmptyAnswer, SearchNext,
         UNCHANGED <<call, d, w, l>>
  PROVE  EmptyAnswer'
<1>1. /\ s.back \in SearchReturn /\ pc \in SearchPoint /\ s \in SearchFrame
  BY DEF HealthyStep, IInv, TypeOK, SearchType, SearchFrame, SearchNext,
    SearchBlock, SearchHeader, SearchUnit, SearchPoint
<1>2. mem' = mem /\ s'.mode = s.mode /\ s'.from = s.from /\ s'.back = s.back
  BY <1>1 DEF SearchFrame, SearchNext, SearchBlock, SearchHeader, SearchUnit, device
<1>3. \/ pc' \in SearchPoint
      \/ pc' = s.back
      \/ pc' = "h_load" /\ h'.back = "s_header"
  BY <1>1 DEF SearchNext, SearchBlock, SearchHeader, SearchUnit, LoadHeader,
    NoHeader, Return, Goto, control, SearchPoint
<1>4. FindingEmpty' => FindingEmpty
  BY DEF FindingEmpty
<1>5. FindingEmpty' => /\ s'.mode = "EMPTY" /\ s'.from = 0 /\ s'.back = "done"
                       /\ At(SearchPoint)' \/ pc' = "done"
  BY <1>2, <1>3, <1>4 DEF EmptyAnswer, At, SearchPoint, HeaderPoint
<1>6. ASSUME pc' \in {"w_target", "w_found"} \/ (pc' = "done" /\ FindingEmpty')
      PROVE  \/ st' = "OK" /\ NextEmpty(mem', s'.from, s'.found)
             \/ st' = "NOT_FOUND" /\ NoEmpty(mem', s'.from)
  <2>1. pc' = s.back /\ pc' \notin SearchPoint \cup HeaderPoint
    BY <1>3, <1>6 DEF SearchPoint, HeaderPoint
  <2>2. s.mode = "EMPTY"
    BY <1>1, <1>4, <1>6, <2>1 DEF EmptySearch, EmptyAnswer, At
  <2> QED
    BY <1>2, <2>1, <2>2, EmptySearchEnds
<1> QED
  BY <1>5, <1>6 DEF EmptyAnswer

\* Every step leaves the answer of a search for an empty page right.
LEMMA NextEmptyAnswer ==
  ASSUME HealthyStep, HeaderIsTable, EmptySearch, EmptyAnswer, [Next]_vars
  PROVE  EmptyAnswer'
<1>1. CASE Request
  <2>1. ASSUME pc' \notin {"w_target", "w_found"}, ~FindingEmpty'
        PROVE  EmptyAnswer'
    BY <2>1 DEF EmptyAnswer
  <2>2. ASSUME NEW mode, NEW key, Find(mode, key)
        PROVE  EmptyAnswer'
    <3>1. /\ call'.mode = mode /\ pc' = "s_block" /\ s'.mode = mode
          /\ s'.from = 0 /\ s'.back = "done"
      BY <2>2 DEF Find, Search, NoSearch, NoCall
    <3> QED
      BY <3>1 DEF EmptyAnswer, FindingEmpty, At, SearchPoint
  <2>3. /\ \A addr, len : Load(addr, len) =>
             call'.op = "load" /\ pc' \in {"done", "l_start"}
        /\ \A key : DeleteData(key) => call'.op = "delete" /\ pc' = "d_block"
        /\ \A addr : ClearAddress(addr) => call'.op = "clear" /\ pc' = "c_start"
        /\ Format => call'.op = "format" /\ pc' = "m_block"
    BY DEF Load, DeleteData, ClearAddress, Format, Enter, Refuse, Return, Delete,
      NoCall
  <2>4. \A addr, key, val, len :
          Save(addr, key, val, len) \/ Rewrite(addr, key, val, len) =>
            call'.op \in {"save", "rewrite"} /\ pc' \in {"done", "v_start", "w_start"}
    <3> SUFFICES ASSUME NEW addr, NEW key, NEW val, NEW len,
                        Save(addr, key, val, len) \/ Rewrite(addr, key, val, len)
                 PROVE  call'.op \in {"save", "rewrite"}
                          /\ pc' \in {"done", "v_start", "w_start"}
      OBVIOUS
    <3>1. call'.op \in {"save", "rewrite"}
      BY DEF Save, Rewrite, Write, Enter, Refuse, NoCall
    <3>2. pc' \in {"done", "v_start", "w_start"}
      BY DEF Save, Rewrite, Write, Enter, Refuse, Return
    <3> QED
      BY <3>1, <3>2
  <2> QED
    BY <1>1, <2>1, <2>2, <2>3, <2>4 DEF Request, FindingEmpty
<1>2. CASE HeaderNext /\ UNCHANGED <<s, call, d, w, l>>
  <2>1. h \in HeaderFrame /\ h.back \in HeaderReturn /\ pc \in HeaderPoint
    BY <1>2 DEF HealthyStep, IInv, TypeOK, HeaderType, HeaderFrame, HeaderNext,
      HeaderLoad, HeaderSave, HeaderPoint
  <2>2. h'.back = h.back /\ pc' \in {"h_save", h.back}
    <3>1. CASE HeaderLoad
      BY <2>1, <3>1, HealthyHeaderLoad DEF HealthyStep
    <3>2. CASE HeaderSave
      BY <3>2, HealthyHeaderSave DEF HealthyStep, IInv, TypeOK
    <3> QED
      BY <1>2, <3>1, <3>2 DEF HeaderNext
  <2>3. pc' \notin {"w_target", "w_found", "done"}
    BY <2>1, <2>2 DEF HeaderReturn
  <2>4. FindingEmpty' => h.back = "s_header" /\ FindingEmpty
    BY <1>2, <2>1 DEF FindingEmpty, EmptyAnswer, At, SearchPoint, HeaderPoint,
      HeaderReturn
  <2> QED
    BY <1>2, <2>2, <2>3, <2>4 DEF EmptyAnswer, At, SearchPoint, HeaderPoint
<1>3. CASE SearchNext /\ UNCHANGED <<call, d, w, l>>
  BY <1>3, SearchEmptyAnswer
<1>4. CASE DeleteNext \/ RewriteEraseNext \/ RewriteWriteNext \/ SaveNext \/ LoadNext
             \/ ClearNext \/ FormatNext
  <2>1. /\ pc \in DeletePoint \cup RewritePoint \cup DataPoint \cup FormatPoint
        /\ call' = call
    BY <1>4 DEF DeleteNext, DeleteBlock, DeleteHeader, DeleteSaved, DeleteErase,
      RewriteEraseNext, RewriteStart, RewriteDeleted, RewriteHeader, RewriteTarget,
      RewriteErase, RewriteRest, RewriteWriteNext, RewriteNext, RewriteFound,
      RewriteSwitch, RewriteReload, RewritePage, RewriteEnd, SaveNext, SaveStart,
      SaveCheck, SaveRewritten, SaveUndone, LoadNext, LoadStart, LoadCopy,
      LoadDeleted, ClearNext, ClearStart, ClearLoad, FormatNext, FormatBlock,
      FormatHeader, FormatSaved, FormatErase, DeletePoint, RewritePoint, DataPoint,
      FormatPoint
  <2>2. ~FindingEmpty'
    <3>1. ~FindingEmpty
      BY <2>1 DEF EmptyAnswer, At, SearchPoint, HeaderPoint, DeletePoint,
        RewritePoint, DataPoint, FormatPoint
    <3> QED
      BY <2>1, <3>1 DEF FindingEmpty
  <2>3. pc' \notin {"w_target", "w_found"}
    <3>1. CASE DeleteNext
      <4>1. d.back \in DeleteReturn
        BY DEF HealthyStep, IInv, TypeOK, DataType, DeleteFrame
      <4> QED
        BY <3>1, <4>1 DEF DeleteNext, DeleteBlock, DeleteHeader, DeleteSaved,
          DeleteErase, LoadHeader, SaveHeader, Return, Goto, DeleteReturn
    <3>2. CASE RewriteEraseNext
      BY <3>2 DEF RewriteEraseNext, RewriteStart, RewriteDeleted, RewriteHeader,
        RewriteTarget, RewriteErase, RewriteRest, RewriteBack, Delete, LoadHeader,
        EraseMore, Search, Return, Goto
    <3>3. CASE RewriteWriteNext
      BY <3>3 DEF RewriteWriteNext, RewriteNext, RewriteFound, RewriteSwitch,
        RewriteReload, RewritePage, RewriteEnd, RewriteBack, SaveHeader, LoadHeader,
        Search, Return, Goto
    <3>4. CASE SaveNext \/ LoadNext \/ ClearNext \/ FormatNext
      BY <2>1, <3>4 DEF SaveNext, SaveStart, SaveCheck, SaveRewritten, SaveUndone,
        LoadNext, LoadStart, LoadCopy, LoadDeleted, ClearNext, ClearStart, ClearLoad,
        FormatNext, FormatBlock, FormatHeader, FormatSaved, FormatErase, LoadHeader,
        SaveHeader, Delete, Return, Goto, control
    <3> QED
      BY <1>4, <3>1, <3>2, <3>3, <3>4
  <2> QED
    BY <2>2, <2>3 DEF EmptyAnswer
<1>5. CASE Answer \/ Crash
  BY <1>5 DEF Answer, Crash, Forget, NoCall, EmptyAnswer, FindingEmpty
<1>6. CASE Drive
  BY <1>6, HealthyDrive DEF Drive, HealthyStep, IInv, TypeOK
<1>7. CASE UNCHANGED vars
  <2>1. mem' = mem /\ pc' = pc /\ st' = st /\ h' = h /\ s' = s /\ call' = call
    BY <1>7 DEF vars, device, control, frames
  <2> QED
    BY <2>1 DEF EmptyAnswer, FindingEmpty, At
<1> QED
  BY <1>1, <1>2, <1>3, <1>4, <1>5, <1>6, <1>7 DEF Next, Library, DataNext

-----------------------------------------------------------------------------
(* A call that is not cut short.                                           *)

\* What holds at a step of the library.
RecordStep ==
  /\ WriteStep /\ WInv' /\ Healthy /\ Healthy' /\ ~Crash
  /\ EmptyAnswer /\ RecordsWhole

\* Power has not been lost before if it has not been now.
LEMMA UncutBefore ==
  ASSUME DeviceType, BusyCounted, [Next]_vars, Uncut'
  PROVE  Uncut /\ ~Crash
<1>1. Healthy
  BY HealthyBefore DEF Uncut
<1>2. spent'.crash = spent.crash \/ spent'.crash = spent.crash + 1
  <2>1. CASE UNCHANGED device
    BY <2>1 DEF device
  <2>2. ASSUME NEW a, NEW pg, NEW status, SavePage(a, pg, status)
        PROVE  spent'.crash = spent.crash
    BY <2>2 DEF SavePage, device, DeviceType
  <2>3. ASSUME NEW S, NEW status, ErasePages(S, status)
        PROVE  spent'.crash = spent.crash
    BY <2>3 DEF ErasePages, device
  <2>4. CASE DeviceNext
    BY <2>4 DEF DeviceNext, TurnBusy, TurnReady, Wear, Decay, DeviceType
  <2>5. CASE PowerLoss(InMutation)
    BY <2>5 DEF PowerLoss, DeviceType
  <2> QED
    BY <2>1, <2>2, <2>3, <2>4, <2>5, DeviceStep
<1>3. spent.crash \in Nat /\ spent'.crash = 0
  BY DEF DeviceType, Uncut
<1>4. ~Crash
  <2> SUFFICES ASSUME Crash PROVE FALSE
    OBVIOUS
  <2>1. spent'.crash = spent.crash + 1
    BY DEF Crash, PowerLoss, DeviceType
  <2> QED
    BY <1>3, <2>1
<1> QED
  BY <1>1, <1>2, <1>3, <1>4 DEF Uncut

\* Each step of the library is one of the function it is in.
LEMMA PointOfStep ==
  /\ HeaderNext => pc \in HeaderPoint
  /\ SearchNext => pc \in SearchPoint
  /\ DeleteNext => pc \in DeletePoint /\ call' = call
  /\ RewriteEraseNext =>
       /\ pc \in {"w_start", "w_deleted", "w_header", "w_target", "w_erase", "w_rest"}
       /\ call' = call
  /\ RewriteWriteNext =>
       /\ pc \in {"w_next", "w_found", "w_switch", "w_reload", "w_page", "w_end"}
       /\ call' = call
  /\ SaveNext => /\ pc \in {"v_start", "v_check", "v_saved", "v_undone"}
                 /\ call' = call
  /\ LoadNext \/ ClearNext =>
       /\ pc \in {"l_start", "l_copy", "l_deleted", "c_start", "c_load"}
       /\ call' = call
  /\ FormatNext => pc \in FormatPoint /\ call' = call
<1>1. HeaderNext => pc \in HeaderPoint
  BY DEF HeaderNext, HeaderLoad, HeaderSave, HeaderPoint
<1>2. SearchNext => pc \in SearchPoint
  BY DEF SearchNext, SearchBlock, SearchHeader, SearchUnit, SearchPoint
<1>3. DeleteNext => pc \in DeletePoint /\ call' = call
  BY DEF DeleteNext, DeleteBlock, DeleteHeader, DeleteSaved, DeleteErase, DeletePoint
<1>4. RewriteEraseNext =>
        /\ pc \in {"w_start", "w_deleted", "w_header", "w_target", "w_erase", "w_rest"}
        /\ call' = call
  BY DEF RewriteEraseNext, RewriteStart, RewriteDeleted, RewriteHeader,
    RewriteTarget, RewriteErase, RewriteRest
<1>5. RewriteWriteNext =>
        /\ pc \in {"w_next", "w_found", "w_switch", "w_reload", "w_page", "w_end"}
        /\ call' = call
  BY DEF RewriteWriteNext, RewriteNext, RewriteFound, RewriteSwitch, RewriteReload,
    RewritePage, RewriteEnd
<1>6. SaveNext => pc \in {"v_start", "v_check", "v_saved", "v_undone"} /\ call' = call
  BY DEF SaveNext, SaveStart, SaveCheck, SaveRewritten, SaveUndone
<1>7. LoadNext \/ ClearNext =>
        /\ pc \in {"l_start", "l_copy", "l_deleted", "c_start", "c_load"}
        /\ call' = call
  BY DEF LoadNext, LoadStart, LoadCopy, LoadDeleted, ClearNext, ClearStart, ClearLoad
<1>8. FormatNext => pc \in FormatPoint /\ call' = call
  BY DEF FormatNext, FormatBlock, FormatHeader, FormatSaved, FormatErase, FormatPoint
<1> QED
  BY <1>1, <1>2, <1>3, <1>4, <1>5, <1>6, <1>7, <1>8

\* A call begins when there is none, without a write.
LEMMA RequestIdle ==
  Request => pc = "idle" /\ mem' = mem
<1>1. /\ \A mode, key : Find(mode, key) => pc = "idle" /\ mem' = mem
      /\ \A addr, len : Load(addr, len) => pc = "idle" /\ mem' = mem
      /\ \A key : DeleteData(key) => pc = "idle" /\ mem' = mem
      /\ \A addr : ClearAddress(addr) => pc = "idle" /\ mem' = mem
      /\ Format => pc = "idle" /\ mem' = mem
  BY DEF Find, Load, DeleteData, ClearAddress, Format, Enter, Refuse, device
<1>2. \A addr, key, val, len :
        Save(addr, key, val, len) \/ Rewrite(addr, key, val, len) =>
          pc = "idle" /\ mem' = mem
  BY DEF Save, Rewrite, Write, Enter, Refuse, device
<1> QED
  BY <1>1, <1>2 DEF Request

\* The library is in rewrite, or in a search or a header for it.
LEMMA WritingPoint ==
  ASSUME WritingAt
  PROVE  pc \in HeaderPoint \cup SearchPoint
                  \cup {"w_next", "w_found", "w_switch", "w_reload", "w_page", "w_end"}
BY DEF WritingAt, Within, At

\* Where there is a next empty page the tables are not without one.
LEMMA EmptyIsThere ==
  ASSUME NEW m, NEW from, NEW a, NextEmpty(m, from, a)
  PROVE  ~NoEmpty(m, from)
<1>1. /\ MacroblockIndex(a) \in Searched /\ MacroblockIndex(from) <= MacroblockIndex(a)
      /\ PageIndex(a) \in Index /\ PageIndex(a) >= PageIndex(from)
      /\ Table(m, MacroblockIndex(a))[PageIndex(a)].st = "EMPTY"
  BY DEF NextEmpty, EmptyFrom, Least
<1> QED
  BY <1>1 DEF NoEmpty, NoneEmpty

\* The pages are written without a failure: the writing of a record goes on
\* until the end.
LEMMA WritingStays ==
  ASSUME RecordStep, [Next]_vars, WritingAt, ~RewritePage, ~RewriteEnd
  PROVE  WritingAt' /\ call' = call /\ w'.n = w.n /\ w'.cur = w.cur
<1>1. DeviceType /\ BusyCounted
  BY DEF RecordStep, WriteStep, HealthyStep, IInv, TypeOK
<1>2. w \in RewriteFrame
  BY WriteTypes DEF RecordStep
<1>3. CASE HeaderNext /\ UNCHANGED <<s, call, d, w, l>>
  <2>1. pc # "w_next"
    BY <1>3, PointOfStep DEF HeaderPoint
  <2>2. Within({"w_found", "w_switch", "w_reload", "w_page"}) \/ At({"w_end"})
    BY <2>1 DEF WritingAt
  <2>3. Within({"w_found", "w_switch", "w_reload", "w_page"})' \/ At({"w_end"})'
    <3>1. /\ {"w_found", "w_switch", "w_reload", "w_page"} \cap HeaderPoint = {}
          /\ {"w_end"} \cap HeaderPoint = {}
      BY DEF HeaderPoint
    <3> QED
      BY <1>3, <2>2, <3>1, HeaderKeepsPoint DEF RecordStep, WriteStep
  <2> QED
    BY <1>3, <2>3 DEF WritingAt
<1>4. CASE SearchNext /\ UNCHANGED <<call, d, w, l>>
  <2>1. pc \in SearchPoint
    BY <1>4, PointOfStep
  <2>2. Within({"w_found", "w_switch", "w_reload", "w_page"})
    BY <2>1 DEF WritingAt, At, SearchPoint, HeaderPoint
  <2>3. {"w_found", "w_switch", "w_reload", "w_page"} \cap (HeaderPoint \cup SearchPoint) = {}
    BY DEF HeaderPoint, SearchPoint
  <2>4. Within({"w_found", "w_switch", "w_reload", "w_page"})'
    BY <1>4, <2>2, <2>3, SearchKeepsPoint DEF RecordStep, WriteStep
  <2> QED
    BY <1>4, <2>4 DEF WritingAt
<1>5. CASE RewriteNext
  <2>1. w.n < call.len => ~(w.cur >= PagesCount)
    <3> SUFFICES ASSUME w.n < call.len PROVE ~(w.cur >= PagesCount)
      OBVIOUS
    <3>1. w.cur \in DataAddr
      BY <1>5 DEF RewriteNext, RecordStep, WriteStep, Layout, WriteLayout
    <3> QED
      BY <3>1, Geometry DEF DataAddr, Addr
  <2>2. \/ pc' = "s_block" /\ s'.back = "w_found"
        \/ pc' = "h_save" /\ h'.back = "w_end"
    BY <1>5, <2>1 DEF RewriteNext, Search, SaveHeader, NoSearch, NoHeader
  <2> QED
    BY <1>5, <2>2 DEF RewriteNext, WritingAt, Within, At, SearchPoint, HeaderPoint
<1>6. CASE RewriteFound
  <2>1. pc = "w_found" /\ call' = call
    BY <1>6 DEF RewriteFound
  <2>2. st = "OK" \/ IsLastPage
    <3> SUFFICES ASSUME st # "OK", ~IsLastPage PROVE FALSE
      OBVIOUS
    <3>1. NoEmpty(mem, s.from)
      BY <2>1 DEF RecordStep, EmptyAnswer
    <3>2. s.from = w.cur + 1
      BY <2>1 DEF RecordStep, WriteStep, HealthyStep, IInv, SearchForward, Within, At
    <3>3. PICK p \in [0 .. MaxLen -> DataAddr] : Writes(p)
      BY <2>1, WritesNow DEF RecordStep
    <3>4. w.cur = p[w.n] /\ w.n \in w.n .. call.len - 2
      <4>1. w.n < call.len /\ w.n \in Nat /\ call.len \in Nat
        BY <2>1, WritesNow, WriteTypes DEF RecordStep
      <4> QED
        BY <3>3, <4>1 DEF Writes, IsLastPage
    <3>5. NextEmpty(mem, p[w.n] + 1, p[w.n + 1])
      BY <3>3, <3>4 DEF Writes
    <3> QED
      BY <3>1, <3>2, <3>4, <3>5, EmptyIsThere
  <2>3. w' = [w EXCEPT !.next = IF st = "OK" THEN s.found ELSE w.cur + 1]
    BY <1>6, <2>2 DEF RewriteFound
  <2>4. pc' = "w_switch" \/ (pc' = "h_save" /\ h'.back = "w_switch")
    BY <1>6, <2>2 DEF RewriteFound, SaveHeader, NoHeader, Return
  <2> QED
    BY <1>2, <2>1, <2>3, <2>4 DEF RewriteFrame, WritingAt, Within, At, HeaderPoint
<1>7. CASE RewriteSwitch
  <2>1. st = "OK"
    BY <1>7 DEF RewriteSwitch, RecordStep, RecordsWhole, TakesEmpty
  <2>2. pc' = "w_page" \/ (pc' = "h_load" /\ h'.back = "w_reload")
    BY <1>7, <2>1 DEF RewriteSwitch, LoadHeader, NoHeader, Goto
  <2> QED
    BY <1>7, <2>2 DEF RewriteSwitch, WritingAt, Within, At, HeaderPoint
<1>8. CASE RewriteReload
  <2>1. st = "OK"
    BY <1>8 DEF RewriteReload, RecordStep, WriteStep, HeaderIsTable, LoadPoint
  <2>2. pc' = "w_page" /\ w'.n = w.n /\ w'.cur = w.cur
    BY <1>2, <1>8, <2>1 DEF RewriteReload, Goto, RewriteFrame
  <2> QED
    BY <1>8, <2>2 DEF RewriteReload, WritingAt, Within, At
<1>9. CASE DeleteNext \/ RewriteEraseNext \/ SaveNext \/ LoadNext \/ ClearNext
             \/ FormatNext \/ Answer \/ Request
  <2>1. pc \notin HeaderPoint \cup SearchPoint
               \cup {"w_next", "w_found", "w_switch", "w_reload", "w_page", "w_end"}
    <3>1. CASE Request
      BY <3>1, RequestIdle DEF HeaderPoint, SearchPoint
    <3>2. CASE Answer
      BY <3>2 DEF Answer, HeaderPoint, SearchPoint
    <3> QED
      BY <1>9, <3>1, <3>2, PointOfStep DEF HeaderPoint, SearchPoint, DeletePoint,
        FormatPoint
  <2> QED
    BY <2>1, WritingPoint
<1>10. CASE Crash \/ Drive
  <2>1. ~Crash
    BY <1>1 DEF RecordStep
  <2>2. ~Drive
    BY <1>1, HealthyDrive DEF Drive, RecordStep
  <2> QED
    BY <1>10, <2>1, <2>2
<1>11. CASE UNCHANGED vars
  <2>1. pc' = pc /\ h' = h /\ s' = s /\ call' = call /\ w' = w
    BY <1>11 DEF vars, control, frames
  <2> QED
    BY <2>1 DEF WritingAt, Within, At
<1> QED
  BY <1>3, <1>4, <1>5, <1>6, <1>7, <1>8, <1>9, <1>10, <1>11 DEF Next, Library,
    DataNext, RewriteWriteNext

-----------------------------------------------------------------------------
(* What a step does to the drive.                                          *)

\* A page is written or erased by four of the steps.
LEMMA StepKinds ==
  ASSUME RecordStep, [Next]_vars
  PROVE  \/ mem' = mem
         \/ HeaderSave /\ UNCHANGED <<s, call, d, w, l>>
         \/ RewriteErase \/ RewriteRest \/ RewritePage
<1>1. DeviceType /\ BusyCounted
  BY DEF RecordStep, WriteStep, HealthyStep, IInv, TypeOK
<1>2. CASE HeaderNext /\ UNCHANGED <<s, call, d, w, l>>
  BY <1>2 DEF HeaderNext, HeaderLoad, device
<1>3. CASE SearchNext
  BY <1>3 DEF SearchNext, SearchBlock, SearchHeader, SearchUnit, device
<1>4. CASE DeleteNext
  <2>1. ~DeleteErase
    BY DEF DeleteErase, RecordStep, WriteStep, DeleteClears
  <2> QED
    BY <1>4, <2>1 DEF DeleteNext, DeleteBlock, DeleteHeader, DeleteSaved, device
<1>5. CASE RewriteEraseNext \/ RewriteWriteNext
  BY <1>5 DEF RewriteEraseNext, RewriteStart, RewriteDeleted, RewriteHeader,
    RewriteTarget, RewriteWriteNext, RewriteNext, RewriteFound, RewriteSwitch,
    RewriteReload, RewriteEnd, device
<1>6. CASE SaveNext \/ LoadNext \/ ClearNext
  BY <1>6 DEF SaveNext, SaveStart, SaveCheck, SaveRewritten, SaveUndone, LoadNext,
    LoadStart, LoadCopy, LoadDeleted, ClearNext, ClearStart, ClearLoad, device
<1>7. CASE FormatNext
  <2>1. ~FormatErase
    BY DEF FormatErase, RecordStep, RecordsWhole, TablesShrink
  <2> QED
    BY <1>7, <2>1 DEF FormatNext, FormatBlock, FormatHeader, FormatSaved, device
<1>8. CASE Request
  BY <1>8, RequestIdle
<1>9. CASE Answer
  BY <1>9 DEF Answer, device
<1>10. CASE Crash \/ Drive
  <2>1. ~Crash
    BY <1>1 DEF RecordStep
  <2>2. ~Drive
    BY <1>1, HealthyDrive DEF Drive, RecordStep
  <2> QED
    BY <1>10, <2>1, <2>2
<1>11. CASE UNCHANGED vars
  BY <1>11 DEF vars, device
<1> QED
  BY <1>2, <1>3, <1>4, <1>5, <1>6, <1>7, <1>8, <1>9, <1>10, <1>11 DEF Next, Library,
    DataNext

\* A header that is saved is the table of its macroblock from then on, and no
\* other table and no page of data changes.
LEMMA HeaderSaved ==
  ASSUME RecordStep, HeaderSave
  PROVE  /\ pc = "h_save" /\ pc' = h.back /\ st' = "OK" /\ h' = h
         /\ h.mb \in Macroblock /\ h.page.toc \in Toc
         /\ ValidCopies(mem', h.mb) # {} /\ Table(mem', h.mb) = h.page.toc
         /\ \A b \in Macroblock : b # h.mb /\ ValidCopies(mem, b) # {} =>
              ValidCopies(mem', b) # {} /\ Table(mem', b) = Table(mem, b)
         /\ \A a \in DataAddr : mem'[a] = mem[a]
<1>1. DeviceType /\ BusyCounted /\ h \in HeaderFrame /\ mem \in Image /\ DeleteClears
  BY DEF RecordStep, WriteStep, HealthyStep, IInv, TypeOK, HeaderType, DeviceType
<1>2. /\ mem' = [mem EXCEPT ![HeaderAddress(h.mb, h.copy)] = h.page]
      /\ pc' = h.back /\ st' = "OK" /\ h' = h
  BY <1>1, HealthyHeaderSave DEF RecordStep
<1>3. pc = "h_save" /\ h.copy = 0
  <2>1. pc = "h_save"
    BY DEF HeaderSave
  <2> QED
    BY <1>1, <2>1 DEF DeleteClears, HeaderPoint
<1>4. h.mb \in Macroblock /\ h.mb \in Nat /\ h.page \in Page /\ h.page.toc \in Toc
  BY <1>1, SearchedIsMacroblock DEF HeaderFrame, Page
<1>5. HeaderAddress(h.mb, 0) \in Addr /\ HeaderAddress(h.mb, 0) \notin DataAddr
  BY <1>4, Geometry, HeaderInStorage, HeaderIsNotData
<1>6. /\ mem'[HeaderAddress(h.mb, 0)] = h.page
      /\ \A a \in Addr : a # HeaderAddress(h.mb, 0) => mem'[a] = mem[a]
  BY <1>1, <1>2, <1>3, <1>5 DEF Image
<1>7. ValidCopies(mem', h.mb) # {} /\ Table(mem', h.mb) = h.page.toc
  BY <1>4, <1>6, TableSaved
<1>8. \A b \in Macroblock : b # h.mb /\ ValidCopies(mem, b) # {} =>
        ValidCopies(mem', b) # {} /\ Table(mem', b) = Table(mem, b)
  BY <1>4, <1>6, OtherTablesKept
<1>9. \A a \in DataAddr : mem'[a] = mem[a]
  BY <1>5, <1>6 DEF DataAddr
<1> QED
  BY <1>2, <1>3, <1>4, <1>7, <1>8, <1>9

\* Erasing pages for a record changes no table, and no page but those.
LEMMA BatchGone ==
  ASSUME RecordStep, RewriteErase \/ RewriteRest
  PROVE  /\ ~WritingAt /\ call' = call /\ SameTables(mem, mem')
         /\ \A a \in DataAddr :
              mem'[a] = mem[a] \/ (mem'[a] = Bad /\ a \in BatchPages)
<1>1. pc \in {"w_erase", "w_rest"} /\ call' = call
  BY DEF RewriteErase, RewriteRest
<1>2. ~WritingAt
  BY <1>1, WritingPoint DEF HeaderPoint, SearchPoint
<1>3. BatchPages \subseteq DataAddr
  BY <1>1 DEF RecordStep, WriteStep, WInv, ErasePlan, ErasingAt, Within, At
<1>4. mem' = mem \/ mem' = Erased(mem, BatchPages)
  <2>1. UNCHANGED device \/ \E status : ErasePages(BatchPages, status)
    BY DEF RewriteErase, RewriteRest
  <2> QED
    BY <2>1, HealthyErase DEF device, RecordStep, WriteStep, HealthyStep
<1>5. CASE mem' = mem
  BY <1>1, <1>2, <1>5 DEF SameTables
<1>6. CASE mem' = Erased(mem, BatchPages)
  BY <1>1, <1>2, <1>3, <1>6, BatchErased DEF RecordStep
<1> QED
  BY <1>4, <1>5, <1>6

\* A page that is written is one of data, all headers are there, and no table
\* changes.
LEMMA PageSaved ==
  ASSUME RecordStep, RewritePage
  PROVE  /\ pc = "w_page" /\ pc' = "w_next" /\ w' = PageWritten /\ call' = call
         /\ w'.n = w.n + 1 /\ w'.cur = w.next /\ w.n < call.len
         /\ w.cur \in DataAddr /\ mem'[w.cur] = CurrentPage
         /\ \A a \in Addr : a # w.cur => mem'[a] = mem[a]
         /\ SameTables(mem, mem')
         /\ \A b \in Searched : ValidCopies(mem, b) # {}
<1>1. PICK status \in {"OK", "BUSY", "ERROR"} :
        /\ SavePage(w.cur, CurrentPage, status)
        /\ status = "OK" => pc' = "w_next" /\ w' = PageWritten
  BY DEF RewritePage, Return
<1>2. status = "OK" /\ mem' = [mem EXCEPT ![w.cur] = CurrentPage]
  BY <1>1, HealthySave DEF RecordStep, WriteStep, HealthyStep, IInv, TypeOK
<1>3. pc = "w_page" /\ call' = call /\ w \in RewriteFrame /\ mem \in Image
  BY WriteTypes DEF RewritePage, RecordStep
<1>4. w.cur \in DataAddr
  BY <1>3 DEF RecordStep, WriteStep, Layout, WriteLayout, Within, At
<1>5. w.n < call.len /\ \A b \in Searched : ValidCopies(mem, b) # {}
  BY <1>3, WritesNow DEF RecordStep
<1>6. mem'[w.cur] = CurrentPage /\ \A a \in Addr : a # w.cur => mem'[a] = mem[a]
  BY <1>2, <1>3, <1>4 DEF Image, DataAddr
<1>7. SameTables(mem, mem')
  BY <1>4, <1>6, DataKeepsTables
<1>8. w'.n = w.n + 1 /\ w'.cur = w.next
  <2>1. w' = PageWritten
    BY <1>1, <1>2
  <2> QED
    BY <1>3, <2>1 DEF PageWritten, RewriteFrame
<1> QED
  BY <1>1, <1>2, <1>3, <1>4, <1>5, <1>6, <1>7, <1>8

\* No header is lost.
LEMMA HeadersKept ==
  ASSUME RecordStep, [Next]_vars, NEW b \in Macroblock, ValidCopies(mem, b) # {}
  PROVE  ValidCopies(mem', b) # {}
<1>1. CASE mem' = mem
  BY <1>1
<1>2. CASE HeaderSave
  BY <1>2, HeaderSaved
<1>3. CASE RewriteErase \/ RewriteRest
  BY <1>3, BatchGone DEF SameTables
<1>4. CASE RewritePage
  BY <1>4, PageSaved DEF SameTables
<1> QED
  BY <1>1, <1>2, <1>3, <1>4, StepKinds

\* The pages of data are written when all headers are there.
LEMMA NextHeadersFirst ==
  ASSUME RecordStep, [Next]_vars
  PROVE  HeadersFirst'
<1>1. HeadersFirst
  BY DEF RecordStep, RecordsWhole
<1>2. CASE \A b \in Searched : ValidCopies(mem, b) # {}
  BY <1>2, HeadersKept, SearchedIsMacroblock DEF HeadersFirst
<1>3. CASE \A a \in DataAddr : mem[a] = Bad
  <2>1. CASE mem' = mem
    BY <1>3, <2>1 DEF HeadersFirst
  <2>2. CASE HeaderSave
    BY <1>3, <2>2, HeaderSaved DEF HeadersFirst
  <2>3. CASE RewriteErase \/ RewriteRest
    BY <1>3, <2>3, BatchGone DEF HeadersFirst
  <2>4. CASE RewritePage
    BY <1>2, <2>4, PageSaved
  <2> QED
    BY <1>2, <2>1, <2>2, <2>3, <2>4, StepKinds
<1> QED
  BY <1>1, <1>2, <1>3 DEF HeadersFirst

-----------------------------------------------------------------------------
(* The points a step leads to.                                             *)

\* A step of a function leads to a point of its own, to the caller, or into a
\* function that it calls, which is to come back to one of its points.
LEMMA NextPoint ==
  ASSUME RecordStep
  PROVE  /\ HeaderNext => pc' \in {"h_save", h.back} /\ h'.back = h.back
         /\ SearchNext =>
              /\ s'.back = s.back
              /\ \/ pc' \in SearchPoint \/ pc' = s.back
                 \/ pc' = "h_load" /\ h'.back = "s_header"
         /\ DeleteNext =>
              /\ d'.back = d.back /\ d'.key = d.key
              /\ \/ pc' \in DeletePoint \/ pc' = d.back
                 \/ pc' = "h_load" /\ h'.back = "d_header"
                 \/ DeleteHeader /\ pc' = "h_save" /\ h'.back = "d_saved"
         /\ RewriteEraseNext =>
              \/ pc' \in {"done", "v_saved", "w_rest", "w_target", "w_erase", "w_next"}
              \/ pc' = "h_load" /\ h'.back = "w_header"
              \/ pc' = "d_block" /\ d'.back = "w_deleted"
              \/ pc' = "s_block" /\ s'.back = "w_target"
         /\ RewriteWriteNext =>
              \/ pc' \in {"done", "v_saved", "w_switch", "w_page", "w_next"}
              \/ pc' \in HeaderPoint /\ h'.back \in {"w_switch", "w_reload", "w_end"}
              \/ pc' = "s_block" /\ s'.back = "w_found"
         /\ SaveNext =>
              \/ pc' \in {"done", "w_start"}
              \/ pc' = "h_load" /\ h'.back = "v_check"
              \/ pc' = "d_block" /\ d'.back = "v_undone"
         /\ LoadNext =>
              \/ pc' \in {"done", "l_copy"}
              \/ pc' = "d_block" /\ d'.back = "l_deleted"
         /\ ClearNext =>
              pc' \in {"done", "c_load"} \/ (pc' = "d_block" /\ d'.back = "done")
         /\ FormatNext =>
              \/ pc' \in {"done", "m_block", "m_erase"}
              \/ pc' = "h_load" /\ h'.back = "m_header"
              \/ FormatHeader /\ pc' = "h_save" /\ h'.back = "m_saved"
         /\ Request =>
              \/ pc' \in {"done", "l_start", "c_start", "v_start", "w_start"}
              \/ Format /\ pc' = "m_block"
              \/ pc' = "d_block" /\ d'.back = "done"
              \/ pc' = "s_block" /\ s'.back = "done"
<1>1. /\ h \in HeaderFrame /\ s \in SearchFrame /\ d \in DeleteFrame
  BY DEF RecordStep, WriteStep, HealthyStep, IInv, TypeOK, HeaderType, SearchType,
    DataType
<1>2. HeaderNext => pc' \in {"h_save", h.back} /\ h'.back = h.back
  <2>1. HeaderLoad => pc' \in {"h_save", h.back} /\ h'.back = h.back
    BY <1>1, HealthyHeaderLoad DEF RecordStep, WriteStep, HealthyStep
  <2>2. HeaderSave => pc' \in {"h_save", h.back} /\ h'.back = h.back
    BY HeaderSaved
  <2> QED
    BY <2>1, <2>2 DEF HeaderNext
<1>3. SearchNext =>
        /\ s'.back = s.back
        /\ \/ pc' \in SearchPoint \/ pc' = s.back
           \/ pc' = "h_load" /\ h'.back = "s_header"
  <2>1. SearchNext => s'.back = s.back /\ pc \in SearchPoint
    BY <1>1, PointOfStep DEF SearchNext, SearchBlock, SearchHeader, SearchUnit,
      SearchFrame
  <2>2. SearchNext =>
          \/ pc' \in SearchPoint \/ pc' = s.back
          \/ pc' = "h_load" /\ h'.back = "s_header"
    BY <2>1 DEF SearchNext, SearchBlock, SearchHeader, SearchUnit, LoadHeader,
      NoHeader, Return, Goto, control, SearchPoint
  <2> QED
    BY <2>1, <2>2
<1>4. DeleteNext =>
        /\ d'.back = d.back /\ d'.key = d.key
        /\ \/ pc' \in DeletePoint \/ pc' = d.back
           \/ pc' = "h_load" /\ h'.back = "d_header"
           \/ DeleteHeader /\ pc' = "h_save" /\ h'.back = "d_saved"
  <2>1. DeleteNext => d'.back = d.back /\ d'.key = d.key
    BY <1>1 DEF DeleteNext, DeleteBlock, DeleteHeader, DeleteSaved, DeleteErase,
      DeleteFrame
  <2>2. DeleteNext =>
          \/ pc' \in DeletePoint \/ pc' = d.back
          \/ pc' = "h_load" /\ h'.back = "d_header"
          \/ DeleteHeader /\ pc' = "h_save" /\ h'.back = "d_saved"
    BY DEF DeleteNext, DeleteBlock, DeleteHeader, DeleteSaved, DeleteErase,
      LoadHeader, SaveHeader, NoHeader, Return, Goto, DeletePoint
  <2> QED
    BY <2>1, <2>2
<1>5. RewriteEraseNext =>
        \/ pc' \in {"done", "v_saved", "w_rest", "w_target", "w_erase", "w_next"}
        \/ pc' = "h_load" /\ h'.back = "w_header"
        \/ pc' = "d_block" /\ d'.back = "w_deleted"
        \/ pc' = "s_block" /\ s'.back = "w_target"
  BY DEF RewriteEraseNext, RewriteStart, RewriteDeleted, RewriteHeader,
    RewriteTarget, RewriteErase, RewriteRest, RewriteBack, EraseMore, Search,
    NoSearch, Delete, NoDelete, LoadHeader, NoHeader, Return, Goto
<1>6. RewriteWriteNext =>
        \/ pc' \in {"done", "v_saved", "w_switch", "w_page", "w_next"}
        \/ pc' \in HeaderPoint /\ h'.back \in {"w_switch", "w_reload", "w_end"}
        \/ pc' = "s_block" /\ s'.back = "w_found"
  BY DEF RewriteWriteNext, RewriteNext, RewriteFound, RewriteSwitch,
    RewriteReload, RewritePage, RewriteEnd, RewriteBack, Search, NoSearch,
    SaveHeader, LoadHeader, NoHeader, Return, Goto, HeaderPoint
<1>7. SaveNext =>
        \/ pc' \in {"done", "w_start"}
        \/ pc' = "h_load" /\ h'.back = "v_check"
        \/ pc' = "d_block" /\ d'.back = "v_undone"
  BY DEF SaveNext, SaveStart, SaveCheck, SaveRewritten, SaveUndone,
    LoadHeader, NoHeader, Delete, NoDelete, Return, Goto
<1>8. LoadNext =>
        \/ pc' \in {"done", "l_copy"}
        \/ pc' = "d_block" /\ d'.back = "l_deleted"
  BY DEF LoadNext, LoadStart, LoadCopy, LoadDeleted, Delete, NoDelete,
    Return, Goto, control
<1>9. ClearNext => pc' \in {"done", "c_load"} \/ (pc' = "d_block" /\ d'.back = "done")
  BY DEF ClearNext, ClearStart, ClearLoad, Delete, NoDelete, Return, Goto
<1>10. FormatNext =>
         \/ pc' \in {"done", "m_block", "m_erase"}
         \/ pc' = "h_load" /\ h'.back = "m_header"
         \/ FormatHeader /\ pc' = "h_save" /\ h'.back = "m_saved"
  BY DEF FormatNext, FormatBlock, FormatHeader, FormatSaved, FormatErase,
    LoadHeader, SaveHeader, NoHeader, Return, Goto
<1>11. Request =>
         \/ pc' \in {"done", "l_start", "c_start", "v_start", "w_start"}
         \/ Format /\ pc' = "m_block"
         \/ pc' = "d_block" /\ d'.back = "done"
         \/ pc' = "s_block" /\ s'.back = "done"
  <2>1. /\ \A mode, key : Find(mode, key) => pc' = "s_block" /\ s'.back = "done"
        /\ \A addr, len : Load(addr, len) => pc' \in {"done", "l_start"}
        /\ \A key : DeleteData(key) => pc' = "d_block" /\ d'.back = "done"
        /\ \A addr : ClearAddress(addr) => pc' = "c_start"
        /\ Format => pc' = "m_block"
    BY DEF Find, Load, DeleteData, ClearAddress, Format, Enter, Refuse, Return, Search,
      NoSearch, Delete, NoDelete
  <2>2. \A addr, key, val, len :
          Save(addr, key, val, len) \/ Rewrite(addr, key, val, len) =>
            pc' \in {"done", "v_start", "w_start"}
    BY DEF Save, Rewrite, Write, Enter, Refuse, Return
  <2> QED
    BY <2>1, <2>2 DEF Request
<1> QED
  BY <1>2, <1>3, <1>4, <1>5, <1>6, <1>7, <1>8, <1>9, <1>10, <1>11

\* A call returns to the point it was made at.
LEMMA NextReturnsToCaller ==
  ASSUME RecordStep, [Next]_vars
  PROVE  ReturnsToCaller'
<1>1. h.back \in HeaderReturn /\ s.back \in SearchReturn /\ d.back \in DeleteReturn
  BY DEF RecordStep, WriteStep, HealthyStep, IInv, TypeOK, HeaderType, SearchType,
    DataType, HeaderFrame, SearchFrame, DeleteFrame
<1>2. ReturnsToCaller
  BY DEF RecordStep, RecordsWhole
<1> USE DEF ReturnsToCaller, At, SearchPoint, DeletePoint, HeaderPoint
<1>3. CASE HeaderNext /\ UNCHANGED <<s, call, d, w, l>>
  <2>1. h.back # "idle"
    BY <1>2, <1>3, PointOfStep
  <2> QED
    BY <1>1, <1>2, <1>3, <2>1, NextPoint, PointOfStep DEF HeaderReturn
<1>4. CASE SearchNext /\ UNCHANGED <<call, d, w, l>>
  <2>1. s.back # "idle"
    BY <1>2, <1>4, PointOfStep
  <2> QED
    BY <1>1, <1>4, <2>1, NextPoint DEF SearchReturn
<1>5. CASE DeleteNext
  <2>1. d.back # "idle"
    BY <1>2, <1>5, PointOfStep
  <2> QED
    BY <1>1, <1>5, <2>1, NextPoint DEF DeleteReturn
<1>6. CASE RewriteEraseNext
  BY <1>6, NextPoint
<1>7. CASE RewriteWriteNext
  BY <1>7, NextPoint
<1>8. CASE SaveNext \/ LoadNext \/ ClearNext
  BY <1>8, NextPoint
<1>9. CASE FormatNext
  BY <1>9, NextPoint
<1>10. CASE Request
  BY <1>10, NextPoint
<1>11. CASE Answer \/ Crash
  BY <1>11 DEF Answer, Crash, Forget
<1>12. CASE Drive
  BY <1>12, HealthyDrive DEF Drive, RecordStep, WriteStep, HealthyStep, IInv,
    TypeOK
<1>13. CASE UNCHANGED vars
  BY <1>2, <1>13 DEF vars, control, frames
<1> QED
  BY <1>3, <1>4, <1>5, <1>6, <1>7, <1>8, <1>9, <1>10, <1>11, <1>12, <1>13 DEF Next,
    Library, DataNext

\* A macroblock that has been emptied stays so until its header is saved.
LEMMA EmptiedStays ==
  ASSUME RecordStep, [Next]_vars, NEW b \in Searched, Emptied(b),
         HeaderSave => h.mb # b
  PROVE  Emptied(b)'
<1>1. b \in Macroblock
  BY SearchedIsMacroblock
<1>2. CASE mem' = mem
  BY <1>2 DEF Emptied, NoneTaken
<1>3. CASE HeaderSave
  BY <1>1, <1>3, HeaderSaved DEF Emptied, NoneTaken
<1>4. CASE RewriteErase \/ RewriteRest
  BY <1>1, <1>4, BatchGone DEF Emptied, NoneTaken, SameTables
<1>5. CASE RewritePage
  BY <1>1, <1>5, PageSaved DEF Emptied, NoneTaken, SameTables
<1> QED
  BY <1>2, <1>3, <1>4, <1>5, StepKinds

\* deleteData and format list less and less.
LEMMA NextTablesShrink ==
  ASSUME RecordStep, [Next]_vars
  PROVE  TablesShrink'
<1>1. /\ h.back \in HeaderReturn /\ s.back \in SearchReturn /\ d.back \in DeleteReturn
      /\ h \in HeaderFrame /\ h.page \in Page /\ h.page.toc \in Toc
  BY DEF RecordStep, WriteStep, HealthyStep, IInv, TypeOK, HeaderType, SearchType,
    DataType, HeaderFrame, SearchFrame, DeleteFrame, Page
<1>2. TablesShrink /\ ReturnsToCaller /\ HeaderIsTable /\ DeleteClears
  BY DEF RecordStep, RecordsWhole, WriteStep
<1>3. ASSUME pc' # "h_save" \/ h'.back \notin {"d_saved", "m_saved"},
             pc' \notin {"m_erase", "m_saved"}, ~At(FormatPoint)'
      PROVE  TablesShrink'
  BY <1>3 DEF TablesShrink
<1>4. CASE HeaderNext /\ UNCHANGED <<s, call, d, w, l, fmt>>
  <2>1. pc' = "h_save" => h'.back \in LoadPoint
    <3>1. CASE HeaderLoad
      BY <1>2, <3>1, <1>4, NextPoint DEF HeaderLoad, HeaderIsTable
    <3>2. CASE HeaderSave
      BY <1>1, <3>2, HeaderSaved DEF HeaderReturn
    <3> QED
      BY <1>4, <3>1, <3>2 DEF HeaderNext
  <2>2. pc' # "m_erase"
    BY <1>1, <1>4, NextPoint DEF HeaderReturn
  <2>3. ASSUME pc' = "m_saved"
        PROVE  st' = "OK" /\ Emptied(fmt)'
    <3>1. HeaderSave /\ h.back = "m_saved"
      <4>1. h.back = "m_saved"
        BY <1>4, <2>3, NextPoint
      <4>2. ~HeaderLoad
        BY <1>2, <4>1 DEF HeaderLoad, HeaderIsTable, LoadPoint
      <4> QED
        BY <1>4, <4>1, <4>2 DEF HeaderNext
    <3>2. h.mb = fmt /\ NoneTaken(h.page.toc)
      BY <1>2, <3>1 DEF TablesShrink, HeaderSave
    <3> QED
      BY <1>4, <3>1, <3>2, HeaderSaved DEF Emptied, NoneTaken
  <2>4. ASSUME At(FormatPoint)', NEW b \in Searched, b < fmt
        PROVE  Emptied(b)'
    <3>1. FormatPoint \cap HeaderPoint = {}
      BY DEF FormatPoint, HeaderPoint
    <3>2. At(FormatPoint)
      BY <1>4, <2>4, <3>1, HeaderKeepsPoint DEF RecordStep, WriteStep
    <3>3. Emptied(b) /\ b \in Nat
      BY <1>2, <2>4, <3>2, SearchedIsMacroblock DEF TablesShrink
    <3>4. HeaderSave => h.mb # b
      <4> SUFFICES ASSUME HeaderSave PROVE h.mb # b
        OBVIOUS
      <4>1. h.back \in {"m_header", "m_saved"}
        <5>1. pc = "h_save" /\ h.back \in FormatPoint
          BY <3>2 DEF HeaderSave, At, HeaderPoint, FormatPoint
        <5> QED
          BY <1>1, <5>1 DEF FormatPoint, HeaderReturn
      <4>2. CASE h.back = "m_header"
        BY <1>2, <3>3, <4>2 DEF HeaderSave, HeaderIsTable, LoadPoint, Emptied
      <4>3. CASE h.back = "m_saved"
        BY <1>2, <2>4, <3>3, <4>3 DEF HeaderSave, TablesShrink
      <4> QED
        BY <4>1, <4>2, <4>3
    <3> QED
      BY <3>3, <3>4, EmptiedStays
  <2> QED
    BY <1>4, <2>1, <2>2, <2>3, <2>4 DEF TablesShrink, LoadPoint
<1>5. CASE SearchNext
  BY <1>1, <1>3, <1>5, NextPoint DEF SearchReturn, At, FormatPoint, HeaderPoint,
    SearchPoint
<1>6. CASE DeleteNext
  <2>1. DeleteHeader /\ pc' = "h_save" /\ h'.back = "d_saved" => TablesShrink'
    <3> SUFFICES ASSUME DeleteHeader, pc' = "h_save", h'.back = "d_saved"
                 PROVE  TablesShrink'
      OBVIOUS
    <3>1. pc = "d_header" /\ st = "OK" /\ mem' = mem /\ d' = d
      BY DEF DeleteHeader, Return, device, RecordStep, WriteStep, DeleteClears
    <3>2. h' = [NoHeader EXCEPT !.mb = d.mb,
                                !.page = [h.page EXCEPT !.toc = Cleared(@, d.key)],
                                !.back = "d_saved"]
      BY <3>1 DEF DeleteHeader, SaveHeader
    <3>3. h'.mb = d.mb /\ h'.page.toc = Cleared(h.page.toc, d.key)
      BY <1>1, <3>2 DEF NoHeader, Page
    <3>4. h.page.toc = Table(mem, h.mb) /\ h.mb = d.mb
      <4>1. h.mb = d.mb
        BY <1>2, <3>1 DEF DeleteClears, At
      <4> QED
        BY <1>2, <3>1, <4>1 DEF HeaderIsTable, LoadPoint
    <3>5. h'.page.toc = Cleared(Table(mem', h'.mb), d'.key)
      BY <3>1, <3>3, <3>4
    <3> QED
      BY <3>5 DEF TablesShrink, At, FormatPoint, HeaderPoint
  <2>2. \/ pc' \in DeletePoint \/ pc' = d.back
        \/ pc' = "h_load" /\ h'.back = "d_header"
        \/ DeleteHeader /\ pc' = "h_save" /\ h'.back = "d_saved"
    BY <1>6, NextPoint
  <2> QED
    BY <1>1, <1>3, <2>1, <2>2 DEF DeleteReturn, At, FormatPoint, HeaderPoint, DeletePoint
<1>7. CASE RewriteEraseNext
  BY <1>3, <1>7, NextPoint DEF At, FormatPoint, HeaderPoint
<1>8. CASE RewriteWriteNext
  BY <1>3, <1>8, NextPoint DEF At, FormatPoint, HeaderPoint
<1>9. CASE SaveNext \/ LoadNext \/ ClearNext
  BY <1>3, <1>9, NextPoint DEF At, FormatPoint, HeaderPoint
<1>10. CASE FormatNext
  <2>1. pc \in FormatPoint /\ At(FormatPoint)
    BY <1>10, PointOfStep DEF At
  <2>2. mem' = mem
    <3>1. pc # "h_save"
      BY <2>1 DEF FormatPoint
    <3> QED
      BY <1>2, <1>10 DEF TablesShrink, FormatNext, FormatBlock, FormatHeader,
        FormatSaved, FormatErase, device
  <2>3. \A b : Emptied(b)' <=> Emptied(b)
    BY <2>2 DEF Emptied, NoneTaken
  <2>4. pc' # "m_erase" /\ pc' # "m_saved"
    BY <1>2, <1>10 DEF TablesShrink, FormatNext, FormatBlock, FormatHeader,
      FormatSaved, FormatErase, LoadHeader, SaveHeader, Return, Goto
  <2>5. \A b \in Searched : b < fmt' => Emptied(b)
    <3>1. \A b \in Searched : b < fmt => Emptied(b)
      BY <1>2, <2>1 DEF TablesShrink
    <3>2. fmt' = fmt \/ (pc = "m_saved" /\ fmt' = fmt + 1)
      BY <1>2, <1>10 DEF TablesShrink, FormatNext, FormatBlock, FormatHeader,
        FormatSaved, FormatErase
    <3>3. fmt \in Nat /\ \A b \in Searched : b \in Nat
      BY Geometry, SearchedIsMacroblock DEF RecordStep, WriteStep, HealthyStep, IInv,
        TypeOK
    <3>4. pc = "m_saved" => Emptied(fmt)
      BY <1>2 DEF TablesShrink
    <3>5. \A b \in Searched : b < fmt + 1 => b < fmt \/ b = fmt
      BY <3>3
    <3> QED
      BY <3>1, <3>2, <3>4, <3>5
  <2>6. pc' = "h_save" =>
          h'.back = "m_saved" /\ h'.mb = fmt' /\ NoneTaken(h'.page.toc)
    <3> SUFFICES ASSUME pc' = "h_save"
                 PROVE  h'.back = "m_saved" /\ h'.mb = fmt' /\ NoneTaken(h'.page.toc)
      OBVIOUS
    <3>1. FormatHeader
      BY <1>10, NextPoint
    <3>2. /\ fmt' = fmt
          /\ h' = [NoHeader EXCEPT !.mb = fmt,
                                   !.page = [h.page EXCEPT !.toc = Formatted(@)],
                                   !.back = "m_saved"]
      BY <3>1 DEF FormatHeader, SaveHeader, Return
    <3>3. h'.back = "m_saved" /\ h'.mb = fmt /\ h'.page.toc = Formatted(h.page.toc)
      BY <1>1, <3>2 DEF NoHeader, Page
    <3>4. NoneTaken(Formatted(h.page.toc))
      BY DEF NoneTaken, Formatted, FormattedUnit, BlockedUnit, EmptyUnit
    <3> QED
      BY <3>2, <3>3, <3>4
  <2> QED
    BY <2>3, <2>4, <2>5, <2>6 DEF TablesShrink
<1>11. CASE Request
  <2>1. Format => fmt' = 0 /\ pc' = "m_block"
    BY <1>2 DEF Format, Enter, ReturnsToCaller
  <2>2. Format => TablesShrink'
    <3>1. \A b \in Searched : ~(b < 0)
      BY SearchedIsMacroblock
    <3> QED
      BY <2>1, <3>1 DEF TablesShrink
  <2>3. \/ pc' \in {"done", "l_start", "c_start", "v_start", "w_start"}
        \/ Format /\ pc' = "m_block"
        \/ pc' = "d_block" /\ d'.back = "done"
        \/ pc' = "s_block" /\ s'.back = "done"
    BY <1>11, NextPoint
  <2> QED
    BY <1>3, <2>2, <2>3 DEF At, FormatPoint, HeaderPoint
<1>12. CASE Answer \/ Crash
  BY <1>3, <1>12 DEF Answer, Crash, Forget, At, FormatPoint, HeaderPoint
<1>13. CASE Drive
  BY <1>13, HealthyDrive DEF Drive, RecordStep, WriteStep, HealthyStep, IInv,
    TypeOK
<1>14. CASE UNCHANGED vars
  <2>1. mem' = mem /\ pc' = pc /\ st' = st /\ h' = h /\ d' = d /\ fmt' = fmt
    BY <1>14 DEF vars, device, control, frames
  <2> QED
    BY <1>2, <2>1 DEF TablesShrink, At, Emptied, NoneTaken
<1> QED
  BY <1>4, <1>5, <1>6, <1>7, <1>8, <1>9, <1>10, <1>11, <1>12, <1>13, <1>14 DEF Next,
    Library, DataNext

-----------------------------------------------------------------------------
(* The pages that are written.                                             *)

\* The writing of the pages starts at the first one.
LEMMA WritingStarts ==
  ASSUME RecordStep, [Next]_vars, WritingAt', ~WritingAt
  PROVE  w'.n = 0 /\ ~w'.loaded /\ pc' = "w_next"
<1>1. h.back \in HeaderReturn /\ s.back \in SearchReturn /\ d.back \in DeleteReturn
  BY DEF RecordStep, WriteStep, HealthyStep, IInv, TypeOK, HeaderType, SearchType,
    DataType, HeaderFrame, SearchFrame, DeleteFrame
<1>2. /\ {"w_found", "w_switch", "w_reload", "w_page"}
             \cap (HeaderPoint \cup SearchPoint) = {}
      /\ {"w_end"} \cap HeaderPoint = {}
  BY DEF HeaderPoint, SearchPoint
<1>3. CASE HeaderNext /\ UNCHANGED <<s, call, d, w, l>>
  <2>1. pc' # "w_next"
    BY <1>1, <1>3, NextPoint DEF HeaderReturn
  <2>2. {"w_found", "w_switch", "w_reload", "w_page"} \cap HeaderPoint = {}
    BY <1>2
  <2>3. WritingAt
    BY <1>2, <1>3, <2>1, <2>2, HeaderKeepsPoint DEF WritingAt, RecordStep, WriteStep
  <2> QED
    BY <2>3
<1>4. CASE SearchNext /\ UNCHANGED <<call, d, w, l>>
  <2>1. pc' # "w_next" /\ ~At({"w_end"})'
    BY <1>1, <1>4, NextPoint DEF SearchReturn, At, SearchPoint, HeaderPoint
  <2>2. WritingAt
    BY <1>2, <1>4, <2>1, SearchKeepsPoint DEF WritingAt, RecordStep, WriteStep
  <2> QED
    BY <2>2
<1>5. CASE RewriteEraseNext
  <2>1. pc' = "w_next"
    BY <1>5, NextPoint DEF WritingAt, Within, At, SearchPoint, HeaderPoint
  <2>2. pc = "w_rest" /\ w' = w
    BY <1>5, <2>1 DEF RewriteEraseNext, RewriteStart, RewriteDeleted, RewriteHeader,
      RewriteTarget, RewriteErase, RewriteRest, RewriteBack, EraseMore, Search,
      Delete, LoadHeader, Return, Goto
  <2> QED
    BY <2>1, <2>2 DEF RecordStep, WriteStep, WInv, ErasePlan, ErasingAt
<1>6. CASE RewriteWriteNext
  BY <1>6, PointOfStep DEF WritingAt, Within, At
<1>7. ASSUME \/ pc' \in {"idle", "done", "w_start", "l_start", "l_copy", "c_start",
                          "c_load", "v_start", "m_block", "m_erase"}
                          \cup DeletePoint \cup DeleteReturn
             \/ pc' = "s_block" /\ s'.back = "done"
             \/ pc' \in HeaderPoint
                  /\ h'.back \in {"d_header", "d_saved", "v_check", "m_header", "m_saved"}
      PROVE  FALSE
  BY <1>7 DEF WritingAt, Within, At, SearchPoint, HeaderPoint, DeletePoint, DeleteReturn
<1>8. CASE DeleteNext
  BY <1>1, <1>7, <1>8, NextPoint DEF HeaderPoint
<1>9. CASE SaveNext \/ LoadNext \/ ClearNext \/ FormatNext \/ Request
  BY <1>7, <1>9, NextPoint DEF HeaderPoint, DeletePoint
<1>10. CASE Answer \/ Crash
  BY <1>7, <1>10 DEF Answer, Crash, Forget
<1>11. CASE Drive
  BY <1>11, HealthyDrive DEF Drive, RecordStep, WriteStep, HealthyStep, IInv,
    TypeOK
<1>12. CASE UNCHANGED vars
  <2>1. pc' = pc /\ h' = h /\ s' = s
    BY <1>12 DEF vars, control, frames
  <2> QED
    BY <2>1 DEF WritingAt, Within, At
<1> QED
  BY <1>3, <1>4, <1>5, <1>6, <1>8, <1>9, <1>10, <1>11, <1>12 DEF Next, Library,
    DataNext

\* While a record is written, all tables a search looks at are on the drive.
LEMMA WritingHeaders ==
  ASSUME RecordStep, WritingAt
  PROVE  \A b \in Searched : ValidCopies(mem, b) # {}
<1>1. Within(RewritePoint \ {"w_start"})
  BY DEF WritingAt, Within, At, RewritePoint
<1> QED
  BY <1>1 DEF RecordStep, WriteStep, WInv, HeadersThere

\* A header that is saved while a record is written is the one in use.
LEMMA WritingSaves ==
  ASSUME RecordStep, HeaderSave, WritingAt
  PROVE  \/ h.mb \notin Searched
         \/ /\ h.back \in {"w_switch", "w_end"} /\ h.mb = w.header.mb
            /\ h.page = w.header.page
<1>1. pc = "h_save"
  BY DEF HeaderSave
<1>2. h.back \in {"w_switch", "w_reload", "w_end", "s_header", "w_found", "w_page"}
                  \cup SearchPoint
  BY <1>1 DEF WritingAt, Within, At, HeaderPoint, SearchPoint
<1>3. h.back \in HeaderReturn
  BY DEF RecordStep, WriteStep, HealthyStep, IInv, TypeOK, HeaderType, HeaderFrame
<1>4. h.back \in {"w_switch", "w_reload", "w_end", "s_header"}
  BY <1>2, <1>3 DEF HeaderReturn, SearchPoint
<1>5. CASE h.back \in {"w_switch", "w_end"}
  BY <1>1, <1>5 DEF RecordStep, WriteStep, HeaderIsTable
<1>6. CASE h.back \in {"w_reload", "s_header"}
  <2>1. ValidCopies(mem, h.mb) = {}
    BY <1>1, <1>6 DEF RecordStep, WriteStep, HeaderIsTable, LoadPoint
  <2> QED
    BY <2>1, WritingHeaders
<1> QED
  BY <1>4, <1>5, <1>6

\* The plan of a record that is being written.
LEMMA PlanOfWriting ==
  ASSUME WriteStep, WritingAt
  PROVE  /\ \E p \in [0 .. MaxLen -> DataAddr] : Writes(p)
         /\ w.n \in Nat /\ call.len \in Nat /\ w.n <= call.len /\ call.len <= MaxLen
         /\ MaxLen \in Nat
BY WriteTypes DEF WriteStep, WInv, WritePlan

LEMMA WritingPlan ==
  ASSUME RecordStep, WritingAt
  PROVE  /\ \E p \in [0 .. MaxLen -> DataAddr] : Writes(p)
         /\ w.n \in Nat /\ call.len \in Nat /\ w.n <= call.len /\ call.len <= MaxLen
         /\ MaxLen \in Nat
BY PlanOfWriting DEF RecordStep

\* The pages that are taken next are not listed.
LEMMA NextTakesEmpty ==
  ASSUME RecordStep, [Next]_vars
  PROVE  TakesEmpty'
<1>1. h.back \in HeaderReturn /\ s.back \in SearchReturn /\ d.back \in DeleteReturn
  BY DEF RecordStep, WriteStep, HealthyStep, IInv, TypeOK, HeaderType, SearchType,
    DataType, HeaderFrame, SearchFrame, DeleteFrame
<1>2. TakesEmpty /\ DataAddr \subseteq Addr
  BY DEF RecordStep, RecordsWhole, DataAddr
<1>3. pc' = "w_switch" => st' = "OK"
  <2>1. CASE HeaderNext
    <3>1. HeaderLoad => pc' # "w_switch"
      <4>1. HeaderLoad => h.back \in LoadPoint
        BY DEF HeaderLoad, RecordStep, WriteStep, HeaderIsTable
      <4> QED
        BY <2>1, <4>1, NextPoint DEF LoadPoint
    <3> QED
      BY <2>1, <3>1, HeaderSaved DEF HeaderNext
  <2>2. CASE RewriteWriteNext
    <3>1. pc' = "w_switch" => RewriteFound \/ RewriteNext \/ RewriteSwitch
                                \/ RewriteReload \/ RewritePage \/ RewriteEnd
      BY <2>2 DEF RewriteWriteNext
    <3> QED
      BY <3>1 DEF RewriteNext, RewriteFound, RewriteSwitch, RewriteReload, RewritePage,
        RewriteEnd, RewriteBack, Search, SaveHeader, LoadHeader, Return, Goto
  <2>3. CASE UNCHANGED vars
    BY <1>2, <2>3 DEF TakesEmpty, vars, control
  <2>4. CASE Drive
    BY <2>4, HealthyDrive DEF Drive, RecordStep, WriteStep, HealthyStep, IInv,
      TypeOK
  <2>5. CASE Answer \/ Crash
    BY <2>5 DEF Answer, Crash, Forget
  <2>6. CASE SearchNext \/ DeleteNext \/ RewriteEraseNext \/ SaveNext \/ LoadNext
               \/ ClearNext \/ FormatNext \/ Request
    BY <1>1, <2>6, NextPoint DEF SearchReturn, DeleteReturn, SearchPoint, DeletePoint
  <2> QED
    BY <2>1, <2>2, <2>3, <2>4, <2>5, <2>6 DEF Next, Library, DataNext
<1>4. ASSUME WritingAt', 0 < w'.n, w'.n < call'.len
      PROVE  /\ MacroblockIndex(w'.cur) \in Searched
             /\ Table(mem', MacroblockIndex(w'.cur))[PageIndex(w'.cur)].st = "EMPTY"
  <2>1. WritingAt
    BY <1>4, WritingStarts
  <2>2. PICK p \in [0 .. MaxLen -> DataAddr] : Writes(p)
    BY <2>1, WritingPlan
  <2>3. CASE RewritePage
    <3>1. /\ pc = "w_page" /\ w'.n = w.n + 1 /\ w'.cur = w.next /\ call' = call
          /\ SameTables(mem, mem') /\ \A b \in Searched : ValidCopies(mem, b) # {}
      BY <2>3, PageSaved
    <3>2. w.n \in Nat /\ call.len \in Nat /\ w.n + 1 < call.len
      BY <1>4, <2>1, <3>1, WritingPlan
    <3>3. w.next = p[w.n + 1] /\ w.n \in w.n .. call.len - 2
      BY <2>2, <3>1, <3>2 DEF Writes, IsLastPage, At
    <3>4. NextEmpty(mem, p[w.n] + 1, w'.cur)
      BY <2>2, <3>1, <3>3 DEF Writes
    <3>5. /\ MacroblockIndex(w'.cur) \in Searched
          /\ Table(mem, MacroblockIndex(w'.cur))[PageIndex(w'.cur)].st = "EMPTY"
      BY <3>4 DEF NextEmpty, EmptyFrom, Least
    <3> QED
      BY <3>1, <3>5, SearchedIsMacroblock DEF SameTables
  <2>4. ~RewriteEnd
    <3> SUFFICES ASSUME RewriteEnd PROVE FALSE
      OBVIOUS
    <3>1. pc' \in {"v_saved", "done"}
      BY DEF RewriteEnd, Return, RewriteBack
    <3> QED
      BY <1>4, <3>1 DEF WritingAt, Within, At, SearchPoint, HeaderPoint
  <2>5. CASE ~RewritePage
    <3>1. call' = call /\ w'.n = w.n /\ w'.cur = w.cur
      BY <2>1, <2>4, <2>5, WritingStays
    <3>2. /\ MacroblockIndex(w.cur) \in Searched
          /\ Table(mem, MacroblockIndex(w.cur))[PageIndex(w.cur)].st = "EMPTY"
      BY <1>2, <1>4, <2>1, <3>1 DEF TakesEmpty
    <3>3. CASE mem' = mem
      BY <3>1, <3>2, <3>3
    <3>4. CASE HeaderSave
      <4>1. CASE h.mb # MacroblockIndex(w.cur)
        BY <2>1, <3>1, <3>2, <3>4, <4>1, HeaderSaved, WritingHeaders,
          SearchedIsMacroblock
      <4>2. CASE h.mb = MacroblockIndex(w.cur)
        <5>1. h.mb = w.header.mb /\ h.page = w.header.page
          BY <2>1, <3>2, <3>4, <4>2, WritingSaves
        <5>2. w.cur = p[w.n] /\ w.cur \in DataAddr /\ w.n \in 0 .. call.len - 1
          BY <1>4, <2>1, <2>2, <3>1, WritingPlan DEF Writes
        <5>3. PageIndex(w.cur) \in Index /\ w.cur = PageAddress(h.mb, PageIndex(w.cur))
          BY <3>2, <4>2, <5>2, SearchedPage, AddressOfPlace
        <5>4. \A j \in 0 .. w.n - 1 : p[j] # PageAddress(w.header.mb, PageIndex(w.cur))
          <6> SUFFICES ASSUME NEW j \in 0 .. w.n - 1 PROVE p[j] # w.cur
            BY <5>1, <5>3
          <6>1. j \in 0 .. call.len - 1 /\ j < w.n /\ j \in 0 .. MaxLen
            BY <2>1, <5>2, WritingPlan
          <6>2. p[j] < p[w.n]
            BY <2>2, <5>2, <6>1 DEF Writes, Rising
          <6>3. p[j] \in Nat /\ p[w.n] \in Nat
            BY <5>2, <6>1, Geometry DEF DataAddr, Addr
          <6> QED
            BY <5>2, <6>2, <6>3
        <5>5. w.header.page.toc[PageIndex(w.cur)] = Table(mem, w.header.mb)[PageIndex(w.cur)]
          BY <2>2, <5>3, <5>4 DEF Writes
        <5> QED
          BY <3>1, <3>2, <3>4, <4>2, <5>1, <5>5, HeaderSaved
      <4> QED
        BY <4>1, <4>2
    <3>5. ~RewriteErase /\ ~RewriteRest
      BY <2>1, BatchGone
    <3> QED
      BY <2>5, <3>3, <3>4, <3>5, StepKinds
  <2> QED
    BY <2>3, <2>5
<1>5. ASSUME NEW a \in DataAddr, mem'[a] # Bad
      PROVE  IsStart(mem', a) \/ MacroblockIndex(a) \in Searched
  <2>1. CASE mem'[a] = mem[a]
    BY <1>2, <1>5, <2>1 DEF TakesEmpty, IsStart
  <2>2. CASE mem'[a] # mem[a]
    <3>1. RewritePage
      BY <1>5, <2>2, StepKinds, HeaderSaved, BatchGone
    <3>2. a = w.cur
      BY <1>2, <2>2, <3>1, PageSaved
    <3>3. CASE w.n = 0
      <4>1. mem'[a] = CurrentPage /\ CurrentPage.prev = w.cur
        BY <3>1, <3>2, <3>3, PageSaved DEF CurrentPage, DataPage
      <4> QED
        BY <3>2, <4>1 DEF IsStart
    <3>4. CASE w.n # 0
      <4>1. WritingAt /\ w.n < call.len
        BY <3>1, PageSaved DEF WritingAt, Within, At
      <4>2. 0 < w.n
        BY <3>4, <4>1, WritingPlan
      <4> QED
        BY <1>2, <3>2, <4>1, <4>2 DEF TakesEmpty
    <3> QED
      BY <3>3, <3>4
  <2> QED
    BY <2>1, <2>2
<1> QED
  BY <1>3, <1>4, <1>5 DEF TakesEmpty

\* Only values of clients are written to pages of data.
LEMMA NextHoldsValues ==
  ASSUME RecordStep, [Next]_vars
  PROVE  HoldsValues'
<1>1. HoldsValues /\ DataAddr \subseteq Addr
  BY DEF RecordStep, RecordsWhole, DataAddr
<1>2. call'.op \in {"save", "rewrite"} => call'.val \in Values
  <2>1. CASE call' = call
    BY <1>1, <2>1 DEF HoldsValues
  <2>2. CASE Request
    <3>1. /\ \A mode, key : Find(mode, key) => call'.op = "find"
          /\ \A addr, len : Load(addr, len) => call'.op = "load"
          /\ \A key : DeleteData(key) => call'.op = "delete"
          /\ \A addr : ClearAddress(addr) => call'.op = "clear"
          /\ Format => call'.op = "format"
      BY DEF Find, Load, DeleteData, ClearAddress, Format, Enter, Refuse, NoCall
    <3>2. \A addr, key, val, len :
            Save(addr, key, val, len) \/ Rewrite(addr, key, val, len) => call'.val = val
      <4> SUFFICES ASSUME NEW addr, NEW key, NEW val, NEW len,
                          Save(addr, key, val, len) \/ Rewrite(addr, key, val, len)
                   PROVE  call'.val = val
        OBVIOUS
      <4>1. PICK op \in {"save", "rewrite"} :
              call' = [NoCall EXCEPT !.op = op, !.addr = addr, !.key = key, !.val = val,
                                     !.len = len]
        BY DEF Save, Rewrite, Write, Enter, Refuse
      <4> QED
        BY <4>1 DEF NoCall
    <3> QED
      BY <2>2, <3>1, <3>2 DEF Request
  <2>3. CASE Answer \/ Crash
    BY <2>3 DEF Answer, Crash, Forget, NoCall
  <2>4. CASE Drive \/ UNCHANGED vars
    BY <2>1, <2>4 DEF Drive, vars, frames
  <2>5. CASE DeleteNext \/ RewriteEraseNext \/ RewriteWriteNext \/ SaveNext \/ LoadNext
               \/ ClearNext \/ FormatNext
    BY <2>1, <2>5, PointOfStep
  <2> QED
    BY <2>1, <2>2, <2>3, <2>4, <2>5 DEF Next, Library, DataNext
<1>3. ASSUME NEW a \in DataAddr, mem'[a] # Bad
      PROVE  mem'[a].val \in Values
  <2>1. CASE mem'[a] = mem[a]
    BY <1>1, <1>3, <2>1 DEF HoldsValues
  <2>2. CASE mem'[a] # mem[a]
    <3>1. RewritePage
      BY <1>3, <2>2, StepKinds, HeaderSaved, BatchGone
    <3>2. mem'[a] = CurrentPage /\ pc = "w_page"
      BY <1>1, <2>2, <3>1, PageSaved
    <3>3. call.op \in {"save", "rewrite"}
      <4>1. Writing
        BY <3>2 DEF Writing, Within, At, RewritePoint
      <4> QED
        BY <4>1 DEF RecordStep, WriteStep, Layout, WriteLayout
    <3> QED
      BY <1>1, <3>2, <3>3 DEF HoldsValues, CurrentPage, DataPage
  <2> QED
    BY <2>1, <2>2
<1> QED
  BY <1>2, <1>3 DEF HoldsValues

-----------------------------------------------------------------------------
(* The pages of a key, from a step to the next.                            *)

\* The pages of a record that have been written hold their parts of it.
LEMMA WrittenPage ==
  ASSUME WriteStep, WritingAt, NEW p \in [0 .. MaxLen -> DataAddr], Writes(p),
         NEW j \in 0 .. w.n - 1
  PROVE  /\ j \in Nat /\ j < call.len /\ p[j] \in DataAddr /\ p[j] \in Nat
         /\ mem[p[j]] # Bad /\ mem[p[j]].key = call.key /\ mem[p[j]].val = call.val
         /\ mem[p[j]].part = j + 1
         /\ mem[p[j]].prev = IF j = 0 THEN p[0] ELSE p[j - 1]
         /\ mem[p[j]].next = IF j + 1 >= call.len THEN p[j] ELSE p[j + 1]
<1>1. w.n \in Nat /\ w.n <= call.len /\ call \in Call
  BY PlanOfWriting, WriteTypes
<1>2. Parts(p, w.n)
  BY DEF Writes
<1> QED
  BY <1>1, <1>2, PartPage

\* A header that is saved changes its table only where a page of the record
\* that is being written is registered, or where a page is taken off, and then
\* the tables up to that one list no page of its key any more.
LEMMA HeaderEntries ==
  ASSUME RecordStep, HeaderSave, ValidCopies(mem, h.mb) # {}, NEW i \in Index
  PROVE  \/ h.page.toc[i] = Table(mem, h.mb)[i]
         \/ /\ WritingAt /\ h.page.toc[i] = [key |-> call.key, st |-> "OK"]
            /\ mem[PageAddress(h.mb, i)] # Bad
            /\ mem[PageAddress(h.mb, i)].key = call.key
         \/ /\ ~WritingAt /\ h.page.toc[i].st # "OK"
            /\ \/ h.back = "m_saved"
               \/ h.back = "d_saved" /\ Table(mem, h.mb)[i].key = d.key
            /\ \A b \in Searched : b <= h.mb =>
                 Unlisted(Table(mem', b), Table(mem, h.mb)[i].key)
<1>1. /\ pc = "h_save" /\ h.mb \in Macroblock /\ Table(mem', h.mb) = h.page.toc
      /\ \A b \in Searched : b # h.mb /\ ValidCopies(mem, b) # {} =>
           Table(mem', b) = Table(mem, b)
  BY HeaderSaved, SearchedIsMacroblock
<1>2. h.back \in {"d_saved", "m_saved", "w_switch", "w_end"}
  <2>1. h.back \in HeaderReturn
    BY DEF RecordStep, WriteStep, HealthyStep, IInv, TypeOK, HeaderType, HeaderFrame
  <2>2. h.back # "idle"
    BY <1>1 DEF RecordStep, RecordsWhole, ReturnsToCaller, HeaderPoint
  <2>3. h.back \notin LoadPoint
    BY <1>1 DEF RecordStep, WriteStep, HeaderIsTable
  <2> QED
    BY <2>1, <2>2, <2>3 DEF HeaderReturn, LoadPoint
<1>3. h.mb \in Nat /\ Searched \subseteq Nat
  BY <1>1, SearchedIsMacroblock
<1>4. CASE h.back \in {"w_switch", "w_end"}
  <2>1. WritingAt
    BY <1>1, <1>4 DEF WritingAt, Within, At, HeaderPoint
  <2>2. h.mb = w.header.mb /\ h.page = w.header.page
    BY <1>1, <1>4 DEF RecordStep, WriteStep, HeaderIsTable
  <2>3. PICK p \in [0 .. MaxLen -> DataAddr] : Writes(p)
    BY <2>1, WritingPlan
  <2>4. \/ h.page.toc[i] = Table(mem, h.mb)[i]
        \/ \E j \in 0 .. w.n - 1 : p[j] = PageAddress(h.mb, i)
    BY <2>2, <2>3 DEF Writes
  <2>5. ASSUME NEW j \in 0 .. w.n - 1, p[j] = PageAddress(h.mb, i)
        PROVE  /\ h.page.toc[i] = [key |-> call.key, st |-> "OK"]
               /\ mem[PageAddress(h.mb, i)] # Bad
               /\ mem[PageAddress(h.mb, i)].key = call.key
    <3>1. w.n \in Nat /\ w.n > 0
      BY <2>1, <2>5, WritingPlan
    <3>2. w.loaded
      BY <2>1, <3>1 DEF RecordStep, WriteStep, WInv, WritePlan
    <3>3. MacroblockIndex(p[j]) = h.mb /\ PageIndex(p[j]) = i
      BY <1>3, <2>5, PlaceOfPage
    <3>4. h.page.toc[i] = [key |-> call.key, st |-> "OK"]
      BY <2>2, <2>3, <3>2, <3>3 DEF Writes, ListsAll, TableInUse
    <3>5. mem[p[j]] # Bad /\ mem[p[j]].key = call.key
      BY <2>1, <2>3, WrittenPage DEF RecordStep
    <3> QED
      BY <2>5, <3>4, <3>5
  <2> QED
    BY <2>1, <2>4, <2>5
<1>5. CASE h.back = "d_saved"
  <2>1. ~WritingAt
    BY <1>1, <1>5 DEF WritingAt, Within, At, HeaderPoint, SearchPoint
  <2>2. /\ h.page.toc = Cleared(Table(mem, h.mb), d.key)
        /\ h.mb = d.mb /\ \A b \in Searched : b < d.mb => NoRecord(mem, b, d.key)
    BY <1>1, <1>5 DEF RecordStep, RecordsWhole, TablesShrink, WriteStep, DeleteClears,
      At, HeaderPoint, DeletePoint
  <2>3. CASE Table(mem, h.mb)[i].key # d.key
    BY <2>2, <2>3 DEF Cleared, ClearedUnit
  <2>4. CASE Table(mem, h.mb)[i].key = d.key
    <3>1. h.page.toc[i].st # "OK"
      BY <2>2, <2>4 DEF Cleared, ClearedUnit, EmptyUnit
    <3>2. ASSUME NEW b \in Searched, b <= h.mb
          PROVE  Unlisted(Table(mem', b), d.key)
      <4>1. CASE b = h.mb
        BY <1>1, <2>2, <4>1 DEF Unlisted, Cleared, ClearedUnit, EmptyUnit
      <4>2. CASE b # h.mb
        BY <1>1, <1>3, <2>2, <3>2, <4>2 DEF NoRecord
      <4> QED
        BY <4>1, <4>2
    <3> QED
      BY <1>5, <2>1, <2>4, <3>1, <3>2
  <2> QED
    BY <2>3, <2>4
<1>6. CASE h.back = "m_saved"
  <2>1. ~WritingAt
    BY <1>1, <1>6 DEF WritingAt, Within, At, HeaderPoint, SearchPoint
  <2>2. /\ h.mb = fmt /\ NoneTaken(h.page.toc)
        /\ \A b \in Searched : b < fmt => Emptied(b)
    BY <1>1, <1>6 DEF RecordStep, RecordsWhole, TablesShrink, At, HeaderPoint,
      FormatPoint
  <2>3. ASSUME NEW b \in Searched, b <= h.mb
        PROVE  NoneTaken(Table(mem', b))
    <3>1. CASE b = h.mb
      BY <1>1, <2>2, <3>1
    <3>2. CASE b # h.mb
      BY <1>1, <1>3, <2>2, <2>3, <3>2 DEF Emptied
    <3> QED
      BY <3>1, <3>2
  <2> QED
    BY <1>6, <2>1, <2>2, <2>3 DEF NoneTaken, Unlisted
<1> QED
  BY <1>2, <1>4, <1>5, <1>6

\* What becomes of the pages of a key, but for one that is being written: none
\* joins them or changes, and none goes while one before it stays, unless it is
\* erased.
KeepsKey(key) ==
  /\ Held(mem', key) \subseteq Held(mem, key)
  /\ \A a \in DataAddr : mem'[a] # Bad /\ mem'[a].key = key => mem'[a] = mem[a]
  /\ \A a \in Held(mem', key), c \in Held(mem, key) :
       a <= c /\ mem'[c] # Bad => c \in Held(mem', key)

\* Where no table changes they are the pages that are left.
LEMMA SameHeld ==
  ASSUME NEW m, NEW n, NEW key, NEW a \in DataAddr,
         \A b \in Searched : Table(n, b) = Table(m, b), n[a] = m[a]
  PROVE  a \in Held(n, key) <=> a \in Held(m, key)
<1>1. a \in Listed(n, "OK") <=> a \in Listed(m, "OK")
  BY DEF Listed
<1>2. a \in Listed(m, "OK") => ListedKey(n, a) = ListedKey(m, a)
  BY DEF Listed, ListedKey
<1> QED
  BY <1>1, <1>2 DEF Held

\* The pages of a key are pages of data that hold it.
LEMMA HeldFacts ==
  ASSUME NEW m, NEW key, NEW a \in Held(m, key)
  PROVE  /\ a \in DataAddr /\ MacroblockIndex(a) \in Searched
         /\ Table(m, MacroblockIndex(a))[PageIndex(a)].st = "OK"
         /\ Table(m, MacroblockIndex(a))[PageIndex(a)].key = key
         /\ m[a] # Bad /\ m[a].key = key
BY DEF Held, Listed, ListedKey

\* A header that is saved keeps the pages of a key so.
LEMMA HeaderKeepsKey ==
  ASSUME RecordStep, HeaderSave, \A b \in Searched : ValidCopies(mem, b) # {},
         NEW key \in Key, ~(WritingAt /\ key = call.key)
  PROVE  KeepsKey(key)
<1>1. /\ \A a \in DataAddr : mem'[a] = mem[a]
      /\ \A b \in Searched : b # h.mb => Table(mem', b) = Table(mem, b)
      /\ Table(mem', h.mb) = h.page.toc
  BY HeaderSaved, SearchedIsMacroblock
<1>2. CASE h.mb \notin Searched
  <2>1. \A b \in Searched : Table(mem', b) = Table(mem, b)
    BY <1>1, <1>2
  <2>2. \A a \in DataAddr : a \in Held(mem', key) <=> a \in Held(mem, key)
    BY <1>1, <2>1, SameHeld
  <2> QED
    BY <1>1, <2>2, HeldFacts DEF KeepsKey
<1>3. CASE h.mb \in Searched
  <2>1. ASSUME NEW a \in Held(mem', key)
        PROVE  a \in Held(mem, key)
    <3>1. a \in DataAddr /\ MacroblockIndex(a) \in Searched /\ PageIndex(a) \in Index
      BY HeldFacts, SearchedPage
    <3>2. CASE MacroblockIndex(a) # h.mb
      BY <1>1, <2>1, <3>1, <3>2, HeldFacts DEF Held, Listed, ListedKey
    <3>3. CASE MacroblockIndex(a) = h.mb
      <4>1. h.page.toc[PageIndex(a)].st = "OK" /\ h.page.toc[PageIndex(a)].key = key
        BY <1>1, <3>3, HeldFacts
      <4>2. ~(WritingAt /\ h.page.toc[PageIndex(a)] = [key |-> call.key, st |-> "OK"])
        BY <4>1
      <4>3. h.page.toc[PageIndex(a)] = Table(mem, h.mb)[PageIndex(a)]
        BY <1>3, <3>1, <4>1, <4>2, HeaderEntries
      <4> QED
        BY <1>1, <2>1, <3>1, <3>3, <4>1, <4>3, HeldFacts DEF Held, Listed, ListedKey
    <3> QED
      BY <3>2, <3>3
  <2>2. ASSUME NEW a \in Held(mem', key), NEW c \in Held(mem, key), a <= c
        PROVE  c \in Held(mem', key)
    <3>1. /\ a \in DataAddr /\ MacroblockIndex(a) \in Searched /\ PageIndex(a) \in Index
          /\ c \in DataAddr /\ MacroblockIndex(c) \in Searched /\ PageIndex(c) \in Index
      BY HeldFacts, SearchedPage
    <3>2. MacroblockIndex(a) <= MacroblockIndex(c)
      <4>1. a \in Nat /\ c \in Nat /\ PerBlock \in Nat /\ 0 < PerBlock
        BY <3>1, Geometry DEF DataAddr, Addr
      <4> QED
        BY <2>2, <4>1, DivMonotone DEF MacroblockIndex
    <3>3. CASE MacroblockIndex(c) # h.mb
      BY <1>1, <3>1, <3>3, HeldFacts DEF Held, Listed, ListedKey
    <3>4. CASE MacroblockIndex(c) = h.mb
      <4>1. /\ Table(mem, h.mb)[PageIndex(c)].st = "OK"
            /\ Table(mem, h.mb)[PageIndex(c)].key = key
            /\ mem[c] # Bad /\ mem[c].key = key
            /\ c = PageAddress(h.mb, PageIndex(c))
        BY <3>1, <3>4, HeldFacts, AddressOfPlace
      <4>2. ~(WritingAt /\ mem[c].key = call.key)
        BY <4>1
      <4>3. ~ \A b \in Searched : b <= h.mb => Unlisted(Table(mem', b), key)
        BY <3>1, <3>2, <3>4, HeldFacts DEF Unlisted
      <4>4. h.page.toc[PageIndex(c)] = Table(mem, h.mb)[PageIndex(c)]
        BY <1>3, <3>1, <4>1, <4>2, <4>3, HeaderEntries
      <4> QED
        BY <1>1, <3>1, <3>4, <4>1, <4>4 DEF Held, Listed, ListedKey
    <3> QED
      BY <3>3, <3>4
  <2> QED
    BY <1>1, <2>1, <2>2 DEF KeepsKey
<1> QED
  BY <1>2, <1>3

\* All steps do.
LEMMA NextKeepsKey ==
  ASSUME RecordStep, [Next]_vars, NEW key \in Key, ~(WritingAt /\ key = call.key)
  PROVE  KeepsKey(key)
<1>1. CASE mem' = mem
  BY <1>1 DEF KeepsKey
<1>2. CASE HeaderSave
  <2>1. CASE \A b \in Searched : ValidCopies(mem, b) # {}
    BY <1>2, <2>1, HeaderKeepsKey
  <2>2. CASE \A a \in DataAddr : mem[a] = Bad
    <3>1. \A a \in DataAddr : mem'[a] = Bad
      BY <1>2, <2>2, HeaderSaved
    <3> QED
      BY <3>1, HeldFacts DEF KeepsKey
  <2> QED
    BY <2>1, <2>2 DEF RecordStep, RecordsWhole, HeadersFirst
<1>3. CASE RewriteErase \/ RewriteRest
  <2>1. CASE \A b \in Searched : ValidCopies(mem, b) # {}
    <3>1. \A b \in Searched : Table(mem', b) = Table(mem, b)
      BY <1>3, <2>1, BatchGone, SearchedIsMacroblock DEF SameTables
    <3>2. \A a \in DataAddr : mem'[a] # Bad => mem'[a] = mem[a]
      BY <1>3, BatchGone
    <3>3. ASSUME NEW a \in DataAddr, mem'[a] # Bad
          PROVE  a \in Held(mem', key) <=> a \in Held(mem, key)
      BY <3>1, <3>2, <3>3, SameHeld
    <3> QED
      BY <3>2, <3>3, HeldFacts DEF KeepsKey
  <2>2. CASE \A a \in DataAddr : mem[a] = Bad
    <3>1. \A a \in DataAddr : mem'[a] = Bad
      BY <1>3, <2>2, BatchGone
    <3> QED
      BY <3>1, HeldFacts DEF KeepsKey
  <2> QED
    BY <2>1, <2>2 DEF RecordStep, RecordsWhole, HeadersFirst
<1>4. CASE RewritePage
  <2>1. /\ w.cur \in DataAddr /\ mem'[w.cur] = CurrentPage /\ pc = "w_page"
        /\ \A a \in DataAddr : a # w.cur => mem'[a] = mem[a]
        /\ \A b \in Searched : Table(mem', b) = Table(mem, b)
    BY <1>4, PageSaved, SearchedIsMacroblock DEF SameTables, DataAddr
  <2>2. WritingAt
    BY <2>1 DEF WritingAt, Within, At
  <2>3. mem'[w.cur].key # key
    BY <2>1, <2>2 DEF CurrentPage, DataPage
  <2>4. mem[w.cur] = Bad
    <3>1. PICK p \in [0 .. MaxLen -> DataAddr] : Writes(p)
      BY <2>2, WritingPlan
    <3>2. w.n < call.len /\ w.n \in w.n .. call.len - 1
      BY <1>4, <2>2, WritingPlan, PageSaved
    <3> QED
      BY <3>1, <3>2 DEF Writes
  <2>5. \A a \in DataAddr : a # w.cur => (a \in Held(mem', key) <=> a \in Held(mem, key))
    BY <2>1, SameHeld
  <2>6. w.cur \notin Held(mem', key) /\ w.cur \notin Held(mem, key)
    BY <2>3, <2>4, HeldFacts
  <2> QED
    BY <2>1, <2>3, <2>5, <2>6, HeldFacts DEF KeepsKey
<1> QED
  BY <1>1, <1>2, <1>3, <1>4, StepKinds

\* A link to a page of a key leads to a page of data.
LEMMA LinkToData ==
  ASSUME NEW m, NEW a \in DataAddr, NEW c, m[a] # Bad, Linked(m, a, c),
         \A b \in Addr : m[b] # Bad => IF IsMacroblockAddress(b) THEN m[b].key = NoKey
                                       ELSE m[b].key \in UserKey
  PROVE  c \in DataAddr /\ m[c] # Bad /\ m[c].key = m[a].key /\ c # a
<1>1. c \in Addr /\ m[c] # Bad /\ m[c].key = m[a].key /\ c # a
  BY DEF Linked, Readable
<1>2. m[a].key \in UserKey
  BY DEF DataAddr
<1>3. NoKey \notin UserKey
  BY DataAssumption DEF NoKey, UserKey
<1> QED
  BY <1>1, <1>2, <1>3 DEF DataAddr

\* The pages of a record that has been written completely lead to each other.
LEMMA WrittenLeads ==
  ASSUME WriteStep, RecordsWhole, pc = "w_end"
  PROVE  /\ Leads(mem, call.key)
         /\ \A a \in Listed(mem, "OK") :
              mem[a] # Bad => mem[a].key = ListedKey(mem, a)
<1>1. pc = "w_end" /\ WritingAt
  BY DEF WritingAt, At
<1>2. /\ w.n = call.len /\ w.header.page.toc = Table(mem, w.header.mb)
  BY <1>1 DEF WriteStep, WInv, WritePlan, At
<1>3. PICK p \in [0 .. MaxLen -> DataAddr] : Writes(p)
  BY <1>1, PlanOfWriting
<1>4. \A j \in 0 .. call.len - 1 :
        Table(mem, MacroblockIndex(p[j]))[PageIndex(p[j])] = [key |-> call.key, st |-> "OK"]
  BY <1>2, <1>3 DEF Writes, ListsAll, TableInUse
<1>5. \A i, j \in 0 .. call.len - 1 : i < j => p[i] < p[j]
  BY <1>3 DEF Writes, Rising
<1>6. ASSUME NEW a \in Held(mem, call.key)
      PROVE  \E j \in 0 .. call.len - 1 : p[j] = a
  <2>1. /\ a \in DataAddr /\ MacroblockIndex(a) \in Searched /\ PageIndex(a) \in Index
        /\ Table(mem, MacroblockIndex(a))[PageIndex(a)].st = "OK"
        /\ Table(mem, MacroblockIndex(a))[PageIndex(a)].key = call.key
    BY <1>6, HeldFacts, SearchedPage
  <2>2. \E j \in 0 .. w.n - 1 : p[j] = PageAddress(MacroblockIndex(a), PageIndex(a))
    BY <1>3, <2>1 DEF Writes, TablesListOnly, ListsOnly
  <2> QED
    BY <1>2, <2>1, <2>2, AddressOfPlace
<1>7. ASSUME NEW j \in 0 .. call.len - 1, j # 0
      PROVE  p[j] \in Held(mem, call.key)
  <2>1. /\ j \in Nat /\ p[j] \in DataAddr /\ p[j] \in Nat /\ mem[p[j]] # Bad
        /\ mem[p[j]].key = call.key /\ mem[p[j]].prev = p[j - 1]
    BY <1>1, <1>2, <1>3, <1>7, WrittenPage
  <2>2. j - 1 \in 0 .. call.len - 1 /\ j - 1 < j /\ j - 1 \in 0 .. w.n - 1
    BY <1>1, <1>2, <1>7, PlanOfWriting
  <2>3. p[j - 1] < p[j] /\ p[j - 1] \in Nat
    BY <1>1, <1>3, <1>5, <2>2, WrittenPage
  <2>4. ~IsStart(mem, p[j])
    BY <2>1, <2>3 DEF IsStart
  <2>5. MacroblockIndex(p[j]) \in Searched
    BY <2>1, <2>4 DEF RecordsWhole, TakesEmpty
  <2> QED
    BY <1>4, <2>1, <2>5 DEF Held, Listed, ListedKey
<1>8. ASSUME NEW a \in Held(mem, call.key)
      PROVE  LeadsOn(mem, a, call.key)
  <2>1. PICK j \in 0 .. call.len - 1 : p[j] = a
    BY <1>6, <1>8
  <2>2. /\ j \in Nat /\ call.len \in Nat /\ j \in 0 .. w.n - 1
        /\ mem[a].val = call.val /\ mem[a].part = j + 1
        /\ mem[a].prev = IF j = 0 THEN p[0] ELSE p[j - 1]
        /\ mem[a].next = IF j + 1 >= call.len THEN p[j] ELSE p[j + 1]
    BY <1>1, <1>2, <1>3, <2>1, WrittenPage, PlanOfWriting
  <2>3. ASSUME Linked(mem, a, mem[a].next)
        PROVE  /\ mem[a].next \in Held(mem, call.key)
               /\ mem[mem[a].next].val = mem[a].val
               /\ mem[mem[a].next].part = mem[a].part + 1
    <3>1. j + 1 < call.len
      BY <2>1, <2>2, <2>3 DEF Linked
    <3>2. j + 1 \in 0 .. call.len - 1 /\ j + 1 # 0 /\ j + 1 \in 0 .. w.n - 1
      BY <1>2, <2>2, <3>1
    <3>3. mem[a].next = p[j + 1]
      BY <2>2, <3>1
    <3>4. mem[p[j + 1]].val = call.val /\ mem[p[j + 1]].part = j + 2
      <4>1. \A k \in 0 .. w.n - 1 :
              k \in Nat /\ mem[p[k]].val = call.val /\ mem[p[k]].part = k + 1
        BY <1>1, <1>3, WrittenPage
      <4> QED
        BY <2>2, <3>2, <4>1
    <3> QED
      BY <1>7, <2>2, <3>2, <3>3, <3>4
  <2>4. ASSUME IsStart(mem, a)
        PROVE  mem[a].part = 1
    <3>1. CASE j = 0
      BY <2>2, <3>1
    <3>2. CASE j # 0
      <4>1. j - 1 \in 0 .. call.len - 1 /\ j - 1 < j /\ j - 1 \in 0 .. w.n - 1
        BY <1>2, <2>2, <3>2
      <4>2. p[j - 1] < p[j] /\ p[j - 1] \in Nat /\ p[j] \in Nat
        BY <1>1, <1>3, <1>5, <2>2, <4>1, WrittenPage
      <4> QED
        BY <2>1, <2>2, <2>4, <3>2, <4>2 DEF IsStart
    <3> QED
      BY <3>1, <3>2
  <2> QED
    BY <2>3, <2>4 DEF LeadsOn
<1>9. ASSUME NEW a \in Listed(mem, "OK"), mem[a] # Bad
      PROVE  mem[a].key = ListedKey(mem, a)
  <2>1. CASE ~(WritingAt /\ 0 < w.n /\ a = call.addr)
    BY <1>9, <2>1 DEF RecordsWhole, KeysAgree
  <2>2. CASE 0 < w.n /\ a = call.addr
    <3>1. 0 \in 0 .. w.n - 1
      BY <1>1, <2>2, PlanOfWriting
    <3>2. p[0] = a
      BY <1>3, <2>2 DEF Writes, Rising
    <3>3. mem[a].key = call.key
      BY <1>1, <1>3, <3>1, <3>2, WrittenPage
    <3> QED
      BY <1>2, <1>4, <3>1, <3>2, <3>3 DEF ListedKey
  <2> QED
    BY <2>1, <2>2
<1> QED
  BY <1>8, <1>9 DEF Leads

\* The pages of a key lead on after a step.
LEMMA LeadsKept ==
  ASSUME RecordStep, [Next]_vars, NEW key \in Key, KeepsKey(key), Leads(mem, key)
  PROVE  Leads(mem', key)
<1> SUFFICES ASSUME NEW a \in Held(mem', key) PROVE LeadsOn(mem', a, key)
  BY DEF Leads
<1>1. a \in DataAddr /\ mem'[a] # Bad /\ mem'[a].key = key
  BY HeldFacts
<1>2. a \in Held(mem, key) /\ mem'[a] = mem[a] /\ LeadsOn(mem, a, key)
  BY <1>1 DEF KeepsKey, Leads
<1>3. CASE Linked(mem', a, mem'[a].next)
  <2>1. \A b \in Addr : mem'[b] # Bad => IF IsMacroblockAddress(b)
                                         THEN mem'[b].key = NoKey
                                         ELSE mem'[b].key \in UserKey
    BY DEF RecordStep, WriteStep, Layout, MemLayout, IsTable
  <2>2. /\ mem'[a].next \in DataAddr /\ mem'[mem'[a].next] # Bad
        /\ mem'[mem'[a].next].key = key /\ mem'[a].next # a
    BY <1>1, <1>3, <2>1, LinkToData
  <2>3. mem'[mem'[a].next] = mem[mem'[a].next]
    BY <2>2 DEF KeepsKey
  <2>4. mem[a].next \in DataAddr /\ Linked(mem, a, mem[a].next)
    BY <1>1, <1>2, <2>2, <2>3 DEF Linked, Readable, DataAddr
  <2>5. mem[a].next \in Held(mem, key)
    BY <1>2, <2>4 DEF LeadsOn
  <2>6. a <= mem[a].next
    BY <1>1, <1>2 DEF RecordStep, WriteStep, HealthyStep, IInv, ChainsForward
  <2>7. mem'[a].next \in Held(mem', key)
    BY <1>2, <2>2, <2>5, <2>6 DEF KeepsKey
  <2> QED
    BY <1>2, <2>3, <2>4, <2>7 DEF LeadsOn, IsStart
<1>4. CASE ~Linked(mem', a, mem'[a].next)
  BY <1>2, <1>4 DEF LeadsOn, IsStart
<1> QED
  BY <1>3, <1>4

\* The pages listed under a key are those of one record after every step.
LEMMA NextPagesLead ==
  ASSUME RecordStep, [Next]_vars
  PROVE  PagesLead'
<1> SUFFICES ASSUME NEW key \in Key
             PROVE  (WritingAt' /\ key = call'.key) \/ Leads(mem', key)
  BY DEF PagesLead
<1>1. (WritingAt /\ key = call.key) \/ Leads(mem, key)
  BY DEF RecordStep, RecordsWhole, PagesLead
<1>2. CASE ~(WritingAt /\ key = call.key)
  BY <1>1, <1>2, NextKeepsKey, LeadsKept
<1>3. CASE WritingAt /\ key = call.key
  <2>1. CASE RewriteEnd
    BY <1>3, <2>1, WrittenLeads DEF RecordStep, RewriteEnd, device
  <2>2. CASE RewritePage
    BY <1>3, <2>2, PageSaved DEF WritingAt
  <2>3. CASE ~RewriteEnd /\ ~RewritePage
    BY <1>3, <2>3, WritingStays
  <2> QED
    BY <2>1, <2>2, <2>3
<1> QED
  BY <1>2, <1>3

\* They hold one start of a record at most.
LEMMA NextOneStart ==
  ASSUME RecordStep, [Next]_vars
  PROVE  OneStart'
<1> SUFFICES ASSUME NEW key \in Key, NEW a \in Starts(mem', key), NEW c \in Starts(mem', key)
             PROVE  a = c
  BY DEF OneStart
<1>1. a \in Held(mem', key) /\ c \in Held(mem', key)
  BY DEF Starts
<1>2. OneStart
  BY DEF RecordStep, RecordsWhole
<1>3. CASE ~(WritingAt /\ key = call.key)
  <2>1. KeepsKey(key)
    BY <1>3, NextKeepsKey
  <2>2. a \in Starts(mem, key) /\ c \in Starts(mem, key)
    BY <1>1, <2>1, HeldFacts DEF KeepsKey, Starts, IsStart
  <2> QED
    BY <1>2, <2>2 DEF OneStart
<1>4. CASE WritingAt /\ key = call.key /\ RewriteEnd
  BY <1>2, <1>4 DEF RewriteEnd, device, OneStart
<1>5. CASE WritingAt /\ key = call.key /\ ~RewriteEnd
  <2>1. WritingAt' /\ call' = call
    BY <1>5, WritingStays, PageSaved DEF WritingAt
  <2>2. PICK p \in [0 .. MaxLen -> DataAddr] : Writes(p)'
    BY <2>1 DEF RecordStep, WInv, WritePlan
  <2>3. call'.len \in Nat /\ w'.n \in Nat /\ w'.n <= call'.len
    <3>1. call' \in Call /\ w' \in RewriteFrame /\ MaxLen \in Nat
      BY DataAssumption DEF RecordStep, WriteStep, IInv, TypeOK, DataType
    <3>2. w'.n <= call'.len
      BY <2>1 DEF RecordStep, WInv, WritePlan
    <3> QED
      BY <3>1, <3>2 DEF Call, RewriteFrame
  <2>4. ASSUME NEW b \in Starts(mem', key)
        PROVE  b = p[0]
    <3>1. /\ b \in DataAddr /\ MacroblockIndex(b) \in Searched /\ PageIndex(b) \in Index
          /\ Table(mem', MacroblockIndex(b))[PageIndex(b)].st = "OK"
          /\ Table(mem', MacroblockIndex(b))[PageIndex(b)].key = call'.key
          /\ mem'[b].prev = b
      BY <1>5, <2>1, <2>4, HeldFacts, SearchedPage DEF Starts, IsStart
    <3>2. \E j \in 0 .. w'.n - 1 : p[j] = PageAddress(MacroblockIndex(b), PageIndex(b))
      BY <2>2, <3>1 DEF Writes, TablesListOnly, ListsOnly
    <3>3. PICK j \in 0 .. w'.n - 1 : p[j] = b
      BY <3>1, <3>2, AddressOfPlace
    <3>4. mem'[b].prev = IF j = 0 THEN p[0] ELSE p[j - 1]
      <4>1. \A k \in 0 .. w'.n - 1 :
              \E next : mem'[p[k]] = DataPage(call'.key, IF k = 0 THEN p[0] ELSE p[k - 1],
                                            next, call'.val, k + 1)
        BY <2>2 DEF Writes, Parts
      <4>2. PICK next : mem'[b] = DataPage(call'.key, IF j = 0 THEN p[0] ELSE p[j - 1],
                                           next, call'.val, j + 1)
        BY <3>3, <4>1
      <4> QED
        BY <4>2 DEF DataPage
    <3>5. CASE j # 0
      <4>1. j \in 0 .. call'.len - 1 /\ j - 1 \in 0 .. call'.len - 1 /\ j - 1 < j
        BY <2>3, <3>5
      <4>2. p[j - 1] < p[j]
        BY <2>2, <4>1 DEF Writes, Rising
      <4>3. b \in Nat
        BY <3>1, Geometry DEF DataAddr, Addr
      <4> QED
        BY <3>1, <3>3, <3>4, <3>5, <4>2, <4>3
    <3> QED
      BY <3>3, <3>5
  <2> QED
    BY <2>4
<1> QED
  BY <1>3, <1>4, <1>5

\* The pages are listed under the keys they hold.
LEMMA NextKeysAgree ==
  ASSUME RecordStep, [Next]_vars
  PROVE  KeysAgree'
<1> SUFFICES ASSUME NEW a \in Listed(mem', "OK"), mem'[a] # Bad,
                    mem'[a].key # ListedKey(mem', a)
             PROVE  WritingAt' /\ 0 < w'.n /\ a = call'.addr
  BY DEF KeysAgree
<1>1. /\ a \in DataAddr /\ MacroblockIndex(a) \in Searched /\ PageIndex(a) \in Index
      /\ Table(mem', MacroblockIndex(a))[PageIndex(a)].st = "OK"
      /\ Table(mem', MacroblockIndex(a))[PageIndex(a)].key # mem'[a].key
  BY SearchedPage DEF Listed, ListedKey
<1>2. ASSUME a \in Listed(mem, "OK"), mem'[a] = mem[a],
             ListedKey(mem, a) = ListedKey(mem', a)
      PROVE  WritingAt' /\ 0 < w'.n /\ a = call'.addr
  <2>1. WritingAt /\ 0 < w.n /\ a = call.addr
    BY <1>2 DEF RecordStep, RecordsWhole, KeysAgree
  <2>2. ~RewriteEnd
    BY <1>2, WrittenLeads DEF RecordStep, RewriteEnd
  <2>3. CASE RewritePage
    BY <2>1, <2>3, PageSaved, WritingPlan DEF WritingAt
  <2>4. CASE ~RewritePage
    BY <2>1, <2>2, <2>4, WritingStays
  <2> QED
    BY <2>3, <2>4
<1>3. CASE mem' = mem
  BY <1>2, <1>3
<1>4. (\A b \in Searched : ValidCopies(mem, b) # {}) \/ (\A b \in DataAddr : mem[b] = Bad)
  BY DEF RecordStep, RecordsWhole, HeadersFirst
<1>5. CASE HeaderSave
  <2>1. /\ \A b \in DataAddr : mem'[b] = mem[b]
        /\ \A b \in Searched :
             b # h.mb /\ ValidCopies(mem, b) # {} => Table(mem', b) = Table(mem, b)
        /\ Table(mem', h.mb) = h.page.toc
    BY <1>5, HeaderSaved, SearchedIsMacroblock
  <2>2. \A b \in Searched : ValidCopies(mem, b) # {}
    BY <1>1, <1>4, <2>1
  <2>3. CASE MacroblockIndex(a) # h.mb
    BY <1>1, <1>2, <2>1, <2>2, <2>3 DEF Listed, ListedKey
  <2>4. CASE MacroblockIndex(a) = h.mb
    <3>1. a = PageAddress(h.mb, PageIndex(a))
      BY <1>1, <2>4, AddressOfPlace
    <3>2. h.page.toc[PageIndex(a)] # [key |-> call.key, st |-> "OK"] \/ mem[a].key # call.key
      BY <1>1, <2>1, <2>4
    <3>3. h.page.toc[PageIndex(a)] = Table(mem, h.mb)[PageIndex(a)]
      BY <1>1, <1>5, <2>1, <2>2, <2>4, <3>1, <3>2, HeaderEntries
    <3> QED
      BY <1>1, <1>2, <2>1, <2>4, <3>3 DEF Listed, ListedKey
  <2> QED
    BY <2>3, <2>4
<1>6. CASE RewriteErase \/ RewriteRest
  <2>1. mem'[a] = mem[a]
    BY <1>1, <1>6, BatchGone
  <2>2. \A b \in Searched : Table(mem', b) = Table(mem, b)
    BY <1>1, <1>4, <1>6, <2>1, BatchGone, SearchedIsMacroblock DEF SameTables
  <2> QED
    BY <1>1, <1>2, <2>1, <2>2 DEF Listed, ListedKey
<1>7. CASE RewritePage
  <2>1. /\ w.cur \in DataAddr /\ pc = "w_page" /\ call' = call /\ w'.n = w.n + 1
        /\ \A b \in DataAddr : b # w.cur => mem'[b] = mem[b]
        /\ \A b \in Searched : Table(mem', b) = Table(mem, b)
        /\ WritingAt'
    BY <1>7, PageSaved, SearchedIsMacroblock DEF SameTables, DataAddr, WritingAt
  <2>2. CASE a # w.cur
    BY <1>1, <1>2, <2>1, <2>2 DEF Listed, ListedKey
  <2>3. CASE a = w.cur
    <3>1. WritingAt /\ w.n < call.len /\ w.n \in Nat
      <4>1. WritingAt
        BY <2>1 DEF WritingAt, Within, At
      <4> QED
        BY <1>7, <4>1, PageSaved, WritingPlan
    <3>2. w.n = 0
      <4>1. 0 < w.n => Table(mem, MacroblockIndex(w.cur))[PageIndex(w.cur)].st = "EMPTY"
        BY <3>1 DEF RecordStep, RecordsWhole, TakesEmpty
      <4> QED
        BY <1>1, <2>1, <2>3, <3>1, <4>1
    <3>3. PICK p \in [0 .. MaxLen -> DataAddr] : Writes(p)
      BY <3>1, WritingPlan
    <3>4. w.cur = call.addr
      BY <3>1, <3>2, <3>3 DEF Writes, Rising
    <3> QED
      BY <2>1, <2>3, <3>2, <3>4
  <2> QED
    BY <2>2, <2>3
<1> QED
  BY <1>3, <1>5, <1>6, <1>7, StepKinds

\* A step keeps the records whole.
LEMMA NextRecordsWhole ==
  ASSUME RecordStep, [Next]_vars
  PROVE  RecordsWhole'
BY NextReturnsToCaller, NextHeadersFirst, NextTablesShrink, NextTakesEmpty,
  NextHoldsValues, NextKeysAgree, NextPagesLead, NextOneStart DEF RecordsWhole

-----------------------------------------------------------------------------
(* Following the chain of a record.                                        *)

\* Apart from the steps of load itself, a call that loads is at a point of the
\* delete that it may need, and no step leads another call to its points.
LEMMA LoadPoints ==
  ASSUME RecordStep, LoadFollows, [Next]_vars, ~LoadNext, ~ UNCHANGED vars
  PROVE  /\ pc' # "l_copy" /\ ~(pc' = "done" /\ call'.op = "load" /\ st' = "OK")
         /\ call'.op = "load" =>
              \/ pc' \in {"l_start", "l_copy", "l_deleted", "done"}
              \/ At(DeletePoint)' /\ d'.back = "l_deleted"
<1>1. h.back \in HeaderReturn /\ s.back \in SearchReturn /\ d.back \in DeleteReturn
  BY DEF RecordStep, WriteStep, HealthyStep, IInv, TypeOK, HeaderType, SearchType,
    DataType, HeaderFrame, SearchFrame, DeleteFrame
<1>2. DeviceType /\ BusyCounted
  BY DEF RecordStep, WriteStep, HealthyStep, IInv, TypeOK
<1>3. CASE Request
  <2>1. pc' # "l_copy"
    BY <1>3, NextPoint
  <2>2. /\ \A mode, key : Find(mode, key) => call'.op = "find"
        /\ \A key : DeleteData(key) => call'.op = "delete"
        /\ \A addr : ClearAddress(addr) => call'.op = "clear"
        /\ Format => call'.op = "format"
    BY DEF Find, DeleteData, ClearAddress, Format, Enter, NoCall
  <2>3. ASSUME NEW addr, NEW key, NEW val, NEW len,
               Save(addr, key, val, len) \/ Rewrite(addr, key, val, len)
        PROVE  call'.op # "load"
    <3>1. PICK op \in {"save", "rewrite"} :
            call' = [NoCall EXCEPT !.op = op, !.addr = addr, !.key = key, !.val = val,
                                   !.len = len]
      BY <2>3 DEF Save, Rewrite, Write, Enter, Refuse
    <3> QED
      BY <3>1 DEF NoCall
  <2>4. ASSUME NEW addr, NEW len, Load(addr, len)
        PROVE  pc' = "l_start" \/ (pc' = "done" /\ st' = "OOM")
    BY <2>4 DEF Load, Enter, Refuse, Return
  <2> QED
    BY <1>3, <2>1, <2>2, <2>3, <2>4 DEF Request
<1>4. CASE Answer
  BY <1>4 DEF Answer, Forget, NoCall
<1>5. ~Crash /\ ~Drive
  BY <1>2, HealthyDrive DEF RecordStep, Drive
<1>6. CASE HeaderNext /\ UNCHANGED <<s, call, d, w, l>>
  <2>1. pc \in HeaderPoint /\ pc' \in {"h_save", h.back} /\ h'.back = h.back
    BY <1>6, PointOfStep, NextPoint
  <2>2. call.op = "load" => At(DeletePoint) /\ d.back = "l_deleted"
    BY <2>1 DEF LoadFollows, HeaderPoint
  <2>3. h.back \notin {"l_copy", "done"}
    BY <1>1 DEF HeaderReturn
  <2>4. At(DeletePoint) => At(DeletePoint)' /\ pc' # "done"
    BY <2>1, <2>3 DEF At, HeaderPoint, DeletePoint
  <2> QED
    BY <1>6, <2>1, <2>2, <2>3, <2>4 DEF HeaderPoint
<1>7. CASE SearchNext /\ UNCHANGED <<call, d, w, l>>
  <2>1. pc \in SearchPoint
    BY <1>7, PointOfStep
  <2>2. call.op # "load"
    BY <2>1 DEF LoadFollows, SearchPoint, At, DeletePoint, HeaderPoint
  <2> QED
    BY <1>1, <1>7, <2>2, NextPoint DEF SearchPoint, SearchReturn
<1>8. CASE DeleteNext
  <2>1. pc \in DeletePoint /\ call' = call
    BY <1>8, PointOfStep
  <2>2. call.op = "load" => d.back = "l_deleted"
    BY <2>1 DEF LoadFollows, DeletePoint, At
  <2>3. /\ d'.back = d.back
        /\ \/ pc' \in DeletePoint \/ pc' = d.back
           \/ pc' = "h_load" /\ h'.back = "d_header"
           \/ pc' = "h_save" /\ h'.back = "d_saved"
    BY <1>8, NextPoint
  <2> QED
    BY <1>1, <2>1, <2>2, <2>3 DEF At, DeletePoint, HeaderPoint, DeleteReturn
<1>9. CASE RewriteEraseNext \/ RewriteWriteNext \/ SaveNext
  <2>1. /\ call' = call
        /\ pc \notin {"l_start", "l_copy", "l_deleted", "done"}
        /\ pc \notin DeletePoint \cup HeaderPoint
    BY <1>9, PointOfStep DEF DeletePoint, HeaderPoint
  <2>2. call.op # "load"
    BY <2>1 DEF LoadFollows, At
  <2>3. pc' # "l_copy"
    BY <1>9, NextPoint DEF HeaderPoint
  <2> QED
    BY <2>1, <2>2, <2>3
<1>10. CASE ClearNext \/ FormatNext
  <2>1. /\ call' = call
        /\ pc \notin {"l_start", "l_copy", "l_deleted", "done"}
        /\ pc \notin DeletePoint \cup HeaderPoint
    <3>1. ClearNext => pc \in {"c_start", "c_load"}
      BY DEF ClearNext, ClearStart, ClearLoad
    <3> QED
      BY <1>10, <3>1, PointOfStep DEF DeletePoint, HeaderPoint, FormatPoint
  <2>2. call.op # "load"
    BY <2>1 DEF LoadFollows, At
  <2>3. pc' # "l_copy"
    BY <1>10, NextPoint
  <2> QED
    BY <2>1, <2>2, <2>3
<1> QED
  BY <1>3, <1>4, <1>5, <1>6, <1>7, <1>8, <1>9, <1>10 DEF Next, Library, DataNext

\* A page at which a key is found holds it, unless a record is being written.
LEMMA FoundIsHeld ==
  ASSUME KeysAgree, ~WritingAt, NEW key, NEW a \in FoundAt(mem, key)
  PROVE  a \in Held(mem, key) /\ IsStart(mem, a)
BY DEF KeysAgree, FoundAt, Held, LoadsAsStart, Readable

\* load follows the chain of a record that is found, part by part.
LEMMA NextLoadFollows ==
  ASSUME RecordStep, LoadFollows, [Next]_vars
  PROVE  LoadFollows'
<1>1. CASE UNCHANGED vars
  BY <1>1 DEF LoadFollows, At, vars, device, control, frames
<1>2. CASE ~LoadNext /\ ~ UNCHANGED vars
  BY <1>2, LoadPoints DEF LoadFollows
<1>3. CASE LoadDeleted
  BY <1>3 DEF LoadDeleted, Return, LoadFollows, At, HeaderPoint, DeletePoint
<1>4. KeysAgree /\ PagesLead
  BY DEF RecordStep, RecordsWhole
<1>5. CASE LoadStart
  <2>1. /\ pc = "l_start" /\ call' = call /\ mem' = mem
        /\ \/ pc' = "done" /\ st' # "OK"
           \/ /\ pc' = "l_copy" /\ call.addr \in Addr /\ ~IsMacroblockAddress(call.addr)
              /\ LoadsAsStart(mem, call.addr)
              /\ l' = [NoLoad EXCEPT !.at = call.addr, !.page = mem[call.addr]]
    BY <1>5 DEF LoadStart, Return, Goto, device, LoadsAsStart, Readable
  <2>2. ~WritingAt
    BY <2>1, WritingPoint DEF HeaderPoint, SearchPoint
  <2>3. CASE pc' = "done" /\ st' # "OK"
    BY <2>1, <2>3 DEF LoadFollows
  <2>4. CASE pc' = "l_copy"
    <3>1. /\ l'.at = call.addr /\ l'.page = mem[call.addr] /\ l'.got = << >>
      BY <2>1, <2>4 DEF NoLoad
    <3>2. call.addr \in DataAddr /\ mem[call.addr] # Bad
      BY <2>1, <2>4 DEF DataAddr, LoadsAsStart, Readable
    <3>3. ASSUME NEW key \in Key, call.addr \in FoundAt(mem, key)
          PROVE  call.addr \in Held(mem, key) /\ mem[call.addr].part = 1
      <4>1. call.addr \in Held(mem, key) /\ IsStart(mem, call.addr)
        BY <1>4, <2>2, <3>3, FoundIsHeld
      <4> QED
        BY <1>4, <2>2, <4>1 DEF PagesLead, Leads, LeadsOn
    <3>4. DOMAIN l'.got = {} /\ Len(l'.got) = 0
      BY <3>1
    <3> QED
      BY <2>1, <2>4, <3>1, <3>2, <3>3, <3>4 DEF LoadFollows
  <2> QED
    BY <2>1, <2>3, <2>4
<1>6. CASE LoadCopy
  <2>1. pc = "l_copy" /\ call' = call /\ mem' = mem
    BY <1>6 DEF LoadCopy, device
  <2>2. l \in LoadFrame /\ l.got \in Seq(Page) /\ l.page \in Page
    BY DEF RecordStep, WriteStep, HealthyStep, IInv, TypeOK, DataType, LoadFrame
  <2>3. /\ l.at \in DataAddr /\ mem[l.at] # Bad /\ l.page = mem[l.at]
        /\ \A key \in Key : call.addr \in FoundAt(mem, key) =>
             /\ \A j \in DOMAIN l.got :
                  l.got[j].key = key /\ l.got[j].val = mem[call.addr].val /\ l.got[j].part = j
             /\ l.at \in Held(mem, key)
             /\ l.page.val = mem[call.addr].val /\ l.page.part = Len(l.got) + 1
    BY <2>1 DEF LoadFollows
  <2>4. ~WritingAt
    BY <2>1, WritingPoint DEF HeaderPoint, SearchPoint
  <2> DEFINE got == Append(l.got, l.page)
  <2>5. /\ DOMAIN got = 1 .. Len(l.got) + 1 /\ DOMAIN l.got = 1 .. Len(l.got)
        /\ Len(got) = Len(l.got) + 1
        /\ \A j \in 1 .. Len(l.got) : got[j] = l.got[j]
        /\ got[Len(l.got) + 1] = l.page /\ Len(l.got) \in Nat
    BY <2>2
  <2>6. \A key \in Key : call.addr \in FoundAt(mem, key) =>
          \A j \in DOMAIN got :
            got[j].key = key /\ got[j].val = mem[call.addr].val /\ got[j].part = j
    <3> SUFFICES ASSUME NEW key \in Key, call.addr \in FoundAt(mem, key),
                        NEW j \in DOMAIN got
                 PROVE  /\ got[j].key = key /\ got[j].val = mem[call.addr].val
                        /\ got[j].part = j
      OBVIOUS
    <3>1. CASE j \in 1 .. Len(l.got)
      BY <2>3, <2>5, <3>1
    <3>2. CASE j = Len(l.got) + 1
      BY <2>3, <2>5, <3>2, HeldFacts
    <3> HIDE DEF got
    <3> QED
      BY <2>5, <3>1, <3>2
  <2>7. \/ /\ NextLoads
           /\ l' = [at |-> l.page.next, page |-> mem[l.page.next], got |-> got]
           /\ pc' = pc
        \/ l'.got = got /\ (pc' = "done" \/ (pc' = "d_block" /\ d'.back = "l_deleted"))
    BY <1>6, <2>2 DEF LoadCopy, control, LoadFrame, Return, Delete, NoDelete
  <2> HIDE DEF got
  <2>8. CASE /\ NextLoads /\ pc' = pc
             /\ l' = [at |-> l.page.next, page |-> mem[l.page.next], got |-> got]
    <3>1. Linked(mem, l.at, l.page.next)
      BY <2>3, <2>8 DEF NextLoads, Linked
    <3>2. l.page.next \in DataAddr /\ mem[l.page.next] # Bad
      <4>1. \A b \in Addr : mem[b] # Bad => IF IsMacroblockAddress(b)
                                            THEN mem[b].key = NoKey
                                            ELSE mem[b].key \in UserKey
        BY DEF RecordStep, WriteStep, Layout, MemLayout, IsTable
      <4> QED
        BY <2>3, <3>1, <4>1, LinkToData
    <3>3. ASSUME NEW key \in Key, call.addr \in FoundAt(mem, key)
          PROVE  /\ l.page.next \in Held(mem, key)
                 /\ mem[l.page.next].val = mem[call.addr].val
                 /\ mem[l.page.next].part = Len(l.got) + 2
      <4>1. LeadsOn(mem, l.at, key)
        BY <1>4, <2>3, <2>4, <3>3 DEF PagesLead, Leads
      <4> QED
        BY <2>3, <2>5, <3>1, <3>3, <4>1 DEF LeadsOn
    <3>4. /\ l'.at = l.page.next /\ l'.page = mem[l.page.next] /\ l'.got = got
          /\ Len(l'.got) + 1 = Len(l.got) + 2
      BY <2>5, <2>8
    <3> QED
      BY <2>1, <2>6, <2>8, <3>2, <3>3, <3>4 DEF LoadFollows
  <2>9. CASE l'.got = got /\ (pc' = "done" \/ (pc' = "d_block" /\ d'.back = "l_deleted"))
    BY <2>1, <2>6, <2>9 DEF LoadFollows, At, DeletePoint
  <2> QED
    BY <2>7, <2>8, <2>9
<1> QED
  BY <1>1, <1>2, <1>3, <1>5, <1>6 DEF LoadNext

-----------------------------------------------------------------------------
(* What is true of records in every behaviour.                             *)

\* The invariant of a record that is written, with that of all records.
RInv ==
  /\ VInv /\ (Healthy => EmptyAnswer)
  /\ Uncut => RecordsWhole /\ LoadFollows

\* A library on a drive that is all erased satisfies it,
LEMMA InitRInv == Init => RInv
<1> SUFFICES ASSUME Init PROVE RInv
  OBVIOUS
<1>1. /\ pc = "idle" /\ call = NoCall /\ fmt = 0 /\ \A a \in Addr : mem[a] = Bad
      /\ DataAddr \subseteq Addr
  BY DEF Init, HeaderInit, DeviceInit, DataAddr
<1>2. ~WritingAt /\ ~At(SearchPoint) /\ ~At(DeletePoint) /\ ~At(FormatPoint)
  BY <1>1 DEF WritingAt, Within, At, HeaderPoint, SearchPoint, DeletePoint, FormatPoint
<1>3. EmptyAnswer
  BY <1>1 DEF EmptyAnswer, FindingEmpty, NoCall
<1>4. ReturnsToCaller /\ HeadersFirst /\ TablesShrink /\ TakesEmpty /\ HoldsValues
  BY <1>1, <1>2 DEF ReturnsToCaller, HeadersFirst, TablesShrink, TakesEmpty,
    HoldsValues, NoCall, HeaderPoint
<1>5. KeysAgree /\ \A key : Held(mem, key) = {}
  BY <1>1 DEF KeysAgree, Held, Listed
<1>6. PagesLead /\ OneStart
  BY <1>5 DEF PagesLead, Leads, OneStart, Starts
<1>7. LoadFollows
  BY <1>1 DEF LoadFollows, NoCall
<1> QED
  BY <1>3, <1>4, <1>5, <1>6, <1>7, InitVInv DEF RInv, RecordsWhole

\* what the proofs about records assume holds at a step that is no loss of power,
LEMMA RecordStepHolds ==
  ASSUME VInv, VInv', Healthy, Healthy', ~Crash, EmptyAnswer, RecordsWhole
  PROVE  RecordStep
<1>1. /\ HealthyStep /\ IInv' /\ DeleteClears /\ DeleteClears' /\ Layout /\ Layout'
      /\ HeaderIsTable /\ EmptySearch /\ EmptySearch' /\ WInv /\ WInv'
  BY DEF VInv, HInv, HealthyStep
<1> QED
  BY <1>1 DEF RecordStep, WriteStep

\* and every step preserves it.
LEMMA NextRInv == RInv /\ [Next]_vars => RInv'
<1> SUFFICES ASSUME RInv, [Next]_vars PROVE RInv'
  OBVIOUS
<1>1. VInv /\ VInv' /\ (Healthy' => Healthy) /\ (Uncut' => Uncut /\ ~Crash)
  BY NextVInv, HealthyBefore, UncutBefore DEF RInv, VInv, HInv, IInv, TypeOK
<1>2. ASSUME Healthy' PROVE EmptyAnswer'
  <2>1. HealthyStep /\ HeaderIsTable /\ EmptySearch /\ EmptyAnswer
    BY <1>1, <1>2 DEF RInv, VInv, HInv, HealthyStep
  <2> QED
    BY <2>1, NextEmptyAnswer
<1>3. ASSUME Uncut' PROVE RecordsWhole' /\ LoadFollows'
  <2>1. Healthy /\ Healthy' /\ Uncut /\ ~Crash
    BY <1>1, <1>3 DEF Uncut
  <2>2. RecordStep /\ LoadFollows
    BY <1>1, <2>1, RecordStepHolds DEF RInv
  <2> QED
    BY <2>2, NextRecordsWhole, NextLoadFollows
<1> QED
  BY <1>1, <1>2, <1>3 DEF RInv

\* So it holds in every behaviour.
LEMMA RecordsInductive == Spec => []RInv
BY InitRInv, NextRInv, PTL DEF Spec

\* A load at an address of a record that is whole copies parts of it.
LEMMA LoadsWhole == VInv /\ RecordsWhole /\ LoadFollows => LoadWhole
<1> SUFFICES ASSUME VInv, RecordsWhole, LoadFollows,
                    pc = "done", call.op = "load", st = "OK",
                    NEW key \in ClientKeys, call.addr \in FoundAt(mem, key)
             PROVE  /\ Whole([j \in DOMAIN l.got |-> [val  |-> l.got[j].val,
                                                      part |-> l.got[j].part]])
                    /\ \A j \in DOMAIN l.got : l.got[j].key = key
  BY DEF LoadWhole
<1>1. key \in Key
  BY ClientAssumption, DataAssumption DEF UserKey, Key
<1>2. l.got \in Seq(Page)
  BY DEF VInv, HInv, IInv, TypeOK, DataType, LoadFrame
<1> DEFINE v == mem[call.addr].val
           content == [j \in DOMAIN l.got |-> [val  |-> l.got[j].val,
                                               part |-> l.got[j].part]]
<1>3. \A j \in DOMAIN l.got :
        l.got[j].key = key /\ l.got[j].val = v /\ l.got[j].part = j
  BY <1>1 DEF LoadFollows
<1>4. v \in Values
  BY DEF RecordsWhole, HoldsValues, FoundAt, Listed, LoadsAsStart, Readable
<1>5. DOMAIN l.got = 1 .. Len(l.got) /\ Len(l.got) \in Nat
  BY <1>2
<1>6. content = [j \in 1 .. Len(l.got) |-> [val |-> v, part |-> j]]
  BY <1>3, <1>5
<1>7. Len(content) = Len(l.got)
  BY <1>5, <1>6
<1> HIDE DEF content, v
<1>8. content = Content(v, Len(content))
  BY <1>6, <1>7 DEF Content, Promise!Content
<1> QED
  BY <1>3, <1>4, <1>8 DEF Whole, content

\* load that returns STORAGE_OK (StorageData.cpp load) for an address at which a
\* key is found has copied the first parts of one value that was saved, all from
\* pages of that key: it never mixes two records, nor the parts of one.
THEOREM LoadedIsWhole == Spec => [](Uncut => LoadWhole)
BY LoadsWhole, RecordsInductive, PTL DEF RInv, Uncut

\* A key whose pages hold one start is found once.
LEMMA FindsOnce == RecordsWhole => FoundOnce
<1> SUFFICES ASSUME RecordsWhole, pc = "idle", NEW key \in ClientKeys
             PROVE  Cardinality(FoundAt(mem, key)) <= 1
  BY DEF FoundOnce
<1>1. key \in Key /\ ~WritingAt
  BY ClientAssumption, DataAssumption, WritingPoint DEF UserKey, Key, HeaderPoint,
    SearchPoint
<1>2. \A a \in FoundAt(mem, key) : a \in Starts(mem, key)
  BY <1>1, FoundIsHeld DEF RecordsWhole, Starts
<1>3. \A a, b \in FoundAt(mem, key) : a = b
  BY <1>1, <1>2 DEF RecordsWhole, OneStart
<1>4. CASE FoundAt(mem, key) = {}
  BY <1>4, FS_EmptySet
<1>5. CASE FoundAt(mem, key) # {}
  <2>1. PICK a \in FoundAt(mem, key) : FoundAt(mem, key) = {a}
    BY <1>3, <1>5
  <2>2. Cardinality({a}) = 1
    BY FS_Singleton
  <2> QED
    BY <2>1, <2>2
<1> QED
  BY <1>4, <1>5

\* Between two calls a key is found at one address at most (StorageAT.cpp find):
\* save of a key that is stored leaves no second start of it in any table.
THEOREM KeyIsFoundOnce == Spec => [](Uncut => FoundOnce)
BY FindsOnce, RecordsInductive, PTL DEF RInv, Uncut

\* The chain of a page of a key leads over pages of the key, until it breaks off.
LEMMA HopIsHeld ==
  ASSUME NEW m, NEW key, Leads(m, key)
  PROVE  \A n \in 0 .. PagesCount : \A b \in Held(m, key) :
           Hop(m)[n][b] \in Seq(Held(m, key) \cup {None})
<1> DEFINE H == Held(m, key)
           S == {n \in Nat : \A b \in H : Hop(m)[n][b] \in Seq(H \cup {None})}
<1>1. \A b \in H : b \in Addr
  BY HeldFacts DEF DataAddr
<1>2. ASSUME NEW n \in 0 .. PagesCount, n = 0 \/ n - 1 \in S, NEW b \in H
      PROVE  Hop(m)[n][b] \in Seq(H \cup {None})
  <2>1. CASE IsEnd(m, b)
    <3>1. Hop(m)[n][b] = <<b>>
      BY <1>1, <1>2, <2>1, HopValue
    <3> QED
      BY <3>1
  <2>2. CASE ~IsEnd(m, b) /\ (n = 0 \/ ~Linked(m, b, m[b].next))
    <3>1. Hop(m)[n][b] = <<b, None>>
      BY <1>1, <1>2, <2>2, HopValue
    <3> QED
      BY <3>1
  <2>3. CASE ~IsEnd(m, b) /\ n # 0 /\ Linked(m, b, m[b].next)
    <3>1. Hop(m)[n][b] = <<b>> \o Hop(m)[n - 1][m[b].next]
      BY <1>1, <1>2, <2>3, HopValue
    <3>2. m[b].next \in H
      BY <1>2, <2>3 DEF Leads, LeadsOn
    <3>3. Hop(m)[n - 1][m[b].next] \in Seq(H \cup {None})
      BY <1>2, <2>3, <3>2
    <3>4. <<b>> \in Seq(H \cup {None})
      BY <1>2
    <3> QED
      BY <3>1, <3>3, <3>4
  <2> QED
    BY <2>1, <2>2, <2>3
<1>3. 0 \in S
  BY <1>2, Geometry
<1>4. ASSUME NEW j \in 0 .. PagesCount, j < PagesCount, j \in S
      PROVE  j + 1 \in S
  <2>1. j + 1 \in 0 .. PagesCount /\ (j + 1) - 1 \in S /\ j + 1 \in Nat
    BY <1>4, Geometry
  <2> QED
    BY <1>2, <2>1
<1>5. \A j \in 0 .. PagesCount : j \in S
  <2> HIDE DEF S
  <2> QED
    BY <1>3, <1>4, Geometry, CountUp
<1> QED
  BY <1>5

\* So a record that is complete is on pages that are listed under its key.
LEMMA ChainIsHeld ==
  ASSUME NEW m, NEW key, Leads(m, key), NEW a \in Held(m, key), Complete(m, a)
  PROVE  ChainPages(m, a) \subseteq Held(m, key)
<1>1. Hop(m)[PagesCount][a] \in Seq(Held(m, key) \cup {None})
  BY HopIsHeld, Geometry
<1>2. Chain(m, a) \in Seq(Held(m, key) \cup {None})
  BY <1>1, ChainIsHop
<1>3. ASSUME NEW j \in DOMAIN Chain(m, a)
      PROVE  Chain(m, a)[j] \in Held(m, key)
  <2>1. Chain(m, a)[j] \in Held(m, key) \cup {None}
    BY <1>2
  <2>2. Chain(m, a)[j] # None
    BY DEF Complete, ChainPages
  <2> QED
    BY <2>1, <2>2
<1> QED
  BY <1>3 DEF ChainPages

\* The pages of a record that is whole are listed.
LEMMA CoversRecords == RecordsWhole => TablesCoverRecords
<1> SUFFICES ASSUME RecordsWhole, pc = "idle", NEW key \in ClientKeys,
                    NEW a \in FoundAt(mem, key), Complete(mem, a),
                    NEW b \in ChainPages(mem, a)
             PROVE  b \in Listed(mem, "OK") /\ ListedKey(mem, b) = key
  BY DEF TablesCoverRecords
<1>1. key \in Key /\ ~WritingAt
  BY ClientAssumption, DataAssumption, WritingPoint DEF UserKey, Key, HeaderPoint,
    SearchPoint
<1>2. a \in Held(mem, key) /\ Leads(mem, key)
  BY <1>1, FoundIsHeld DEF RecordsWhole, PagesLead
<1>3. b \in Held(mem, key)
  BY <1>2, ChainIsHeld
<1> QED
  BY <1>3 DEF Held

\* Between two calls the tables list all pages of a complete record under its
\* key (StorageData.cpp rewrite, deleteData), so that a search for an empty page
\* never answers with one of them.
THEOREM RecordsAreCovered == Spec => [](Uncut => TablesCoverRecords)
BY CoversRecords, RecordsInductive, PTL DEF RInv, Uncut

\* The empty page that a search from the first address ends at is the first one.
LEMMA NextEmptyLeast ==
  ASSUME NEW m, NEW a, NextEmpty(m, 0, a)
  PROVE  a \in Least(Listed(m, "EMPTY"))
<1>1. /\ a \in Listed(m, "EMPTY") /\ a \in DataAddr /\ MacroblockIndex(a) \in Searched
      /\ PageIndex(a) \in EmptyFrom(Table(m, MacroblockIndex(a)), PageIndex(0))
  BY DEF NextEmpty, EmptyFrom, Least, Listed
<1>2. MacroblockIndex(0) = 0 /\ PageIndex(0) = 0
  <2>1. 0 \div PerBlock = 0 /\ 0 % PerBlock = 0
    BY Geometry
  <2> QED
    BY <2>1, Geometry DEF MacroblockIndex, PageIndex, IsMacroblockAddress
<1> SUFFICES ASSUME NEW c \in Listed(m, "EMPTY") PROVE a <= c
  BY <1>1 DEF Least
<1> DEFINE ma == MacroblockIndex(a)
           mc == MacroblockIndex(c)
           ia == PageIndex(a)
           ic == PageIndex(c)
<1>3. /\ c \in DataAddr /\ mc \in Searched /\ ic \in Index /\ Table(m, mc)[ic].st = "EMPTY"
      /\ mc \in Nat /\ ma \in Nat /\ ia \in Index
  BY <1>1, SearchedPage DEF Listed
<1>4. /\ ic \in Nat /\ ia \in Nat /\ ic < DataPages /\ ia < DataPages
      /\ a = ma * PerBlock + Reserved + ia /\ c = mc * PerBlock + Reserved + ic
  <2>1. a = PageAddress(ma, ia) /\ c = PageAddress(mc, ic)
    BY <1>1, <1>3, AddressOfPlace
  <2> QED
    BY <1>3, <2>1, Geometry DEF Index, DataPages, PageAddress, MacroblockAddress
<1>5. ~(mc < ma)
  <2>1. mc < ma => NoneEmpty(Table(m, mc), 0)
    BY <1>2, <1>3 DEF NextEmpty
  <2> QED
    BY <1>3, <1>4, <2>1 DEF NoneEmpty
<1>6. ma = mc => ia <= ic
  BY <1>1, <1>2, <1>3, <1>4 DEF EmptyFrom, Least
<1> HIDE DEF ma, mc, ia, ic
<1>7. ma \in Nat /\ mc \in Nat
  BY <1>3
<1>8. CASE ma = mc
  BY <1>4, <1>6, <1>7, <1>8, Geometry
<1>9. CASE ma < mc
  <2>1. \A q, r \in Nat : q < r => (q + 1) * PerBlock <= r * PerBlock
    BY Geometry, ProductMonotone
  <2>2. (ma + 1) * PerBlock <= mc * PerBlock
    BY <1>7, <1>9, <2>1
  <2>3. (ma + 1) * PerBlock = ma * PerBlock + PerBlock
    BY <1>7, Geometry
  <2>4. ma * PerBlock \in Nat /\ mc * PerBlock \in Nat
    BY <1>7, Geometry
  <2> DEFINE x == ma * PerBlock
             y == mc * PerBlock
  <2>5. x \in Nat /\ y \in Nat /\ x + PerBlock <= y
        /\ a = x + Reserved + ia /\ c = y + Reserved + ic
    BY <1>4, <2>2, <2>3, <2>4
  <2> HIDE DEF x, y
  <2> QED
    BY <1>4, <2>5, Geometry DEF DataPages
<1> QED
  BY <1>5, <1>7, <1>8, <1>9

\* The answer to a search for an empty page is the first one of no record.
LEMMA FindsEmpty == RecordsWhole /\ EmptyAnswer => FindEmptyExact
<1> SUFFICES ASSUME RecordsWhole, EmptyAnswer, pc = "done", FindingEmpty
             PROVE  IF Listed(mem, "EMPTY") = {} THEN st = "NOT_FOUND"
                    ELSE /\ st = "OK" /\ s.found \in Least(Listed(mem, "EMPTY"))
                         /\ \A key \in ClientKeys : s.found \notin Stored(mem, key).pages
  BY DEF FindEmptyExact, FindingEmpty
<1>1. s.from = 0 /\ ~WritingAt
  BY WritingPoint DEF EmptyAnswer, HeaderPoint, SearchPoint
<1>2. \/ st = "OK" /\ NextEmpty(mem, 0, s.found)
      \/ st = "NOT_FOUND" /\ NoEmpty(mem, 0)
  BY <1>1 DEF EmptyAnswer
<1>3. CASE st = "NOT_FOUND" /\ NoEmpty(mem, 0)
  <2> SUFFICES ASSUME NEW a \in Listed(mem, "EMPTY") PROVE FALSE
    BY <1>3
  <2>1. /\ MacroblockIndex(a) \in Searched /\ PageIndex(a) \in Index
        /\ Table(mem, MacroblockIndex(a))[PageIndex(a)].st = "EMPTY"
        /\ MacroblockIndex(a) \in Nat
    BY SearchedPage DEF Listed
  <2>2. MacroblockIndex(0) = 0 /\ PageIndex(0) = 0
    <3>1. 0 \div PerBlock = 0 /\ 0 % PerBlock = 0
      BY Geometry
    <3> QED
      BY <3>1, Geometry DEF MacroblockIndex, PageIndex, IsMacroblockAddress
  <2> QED
    BY <1>3, <2>1, <2>2 DEF NoEmpty, NoneEmpty, Index
<1>4. CASE st = "OK" /\ NextEmpty(mem, 0, s.found)
  <2>1. s.found \in Least(Listed(mem, "EMPTY"))
    BY <1>4, NextEmptyLeast
  <2>2. ASSUME NEW key \in ClientKeys, s.found \in Stored(mem, key).pages
        PROVE  FALSE
    <3>1. PICK a \in FoundAt(mem, key) : Complete(mem, a) /\ s.found \in ChainPages(mem, a)
      BY <2>2 DEF Stored, Least
    <3>2. key \in Key
      BY ClientAssumption, DataAssumption DEF UserKey, Key
    <3>3. a \in Held(mem, key) /\ Leads(mem, key)
      BY <1>1, <3>1, <3>2, FoundIsHeld DEF RecordsWhole, PagesLead
    <3>4. s.found \in Held(mem, key)
      BY <3>1, <3>3, ChainIsHeld
    <3> QED
      BY <2>1, <3>4 DEF Held, Listed, Least
  <2> QED
    BY <1>4, <2>1, <2>2 DEF Least
<1> QED
  BY <1>2, <1>3, <1>4

\* find with FIND_MODE_EMPTY (StorageSearch.cpp StorageSearchEmpty) answers with
\* the first page that no table lists as taken or blocked, which is in no record
\* that is stored, and with STORAGE_NOT_FOUND only when there is none.
THEOREM EmptyIsRight == Spec => [](Uncut => FindEmptyExact)
BY FindsEmpty, RecordsInductive, PTL DEF RInv, Uncut

=============================================================================
