-------------------------- MODULE HTTPRouterProofs --------------------------
(***************************************************************************)
(* The router's types, its list of packs, and that it implements           *)
(* RouteTable, for any routes, urls and containers, any size of a pack and *)
(* both match modes.                                                       *)
(*                                                                         *)
(* What ties the packs to the table is Places: the k-th entry of the table *)
(* is the k-th binding of the scan that kept its route.  The scan skips    *)
(* the others because strmatch counts no character of a NULL route and     *)
(* only routes of ROUTE_BASE_LEN characters or more are ever lost.         *)
(***************************************************************************)
EXTENDS HTTPRouter, SequenceLemmas

-----------------------------------------------------------------------------
(* The bindings.                                                           *)

\* Whatever http_router_bind may put into a pack.
Bound == UNION {NewBindings(r, c) : r \in {s \in Routes : ~Refused(s)}, c \in Containers}

LEMMA BoundIs ==
    ASSUME NEW b \in Bound
    PROVE  /\ b \in BindingRecord
           /\ b.container \in Containers
           /\ b.route # NULL => b.route \in Routes /\ b.route_len = Len(b.route)
           /\ b.route = NULL => b.route_len > 0
<1> USE RouterAssumption
<1>1. PICK r \in {s \in Routes : ~Refused(s)}, c \in Containers : b \in NewBindings(r, c)
  BY DEF Bound
<1>2. Len(r) \in 0 .. ROUTE_MAX_LEN
  BY <1>1, LenProperties DEF Refused
<1>3. \/ b = Binding(r, Len(r), c)
      \/ b = Binding(NULL, Len(r), c) /\ Len(r) >= ROUTE_BASE_LEN
  BY <1>1 DEF NewBindings
<1> QED
  BY <1>1, <1>2, <1>3 DEF Binding, BindingRecord

\* The first characters of u and r agree as far as r goes exactly if u begins
\* with r.
LEMMA Matching ==
    ASSUME NEW S, NEW u \in Seq(S), NEW r \in Seq(S)
    PROVE  Len(LongestCommonPrefix({u, r})) >= Len(r) <=> IsPrefix(r, u)
<1> DEFINE C == CommonPrefixes({u, r})
           L == LongestCommonPrefix({u, r})
<1>1. Len(u) \in Nat /\ Len(r) \in Nat
  BY LenProperties
<1>2. \A p : p \in C <=> /\ p \in Prefixes(u) \cup Prefixes(r)
                         /\ IsPrefix(p, u) /\ IsPrefix(p, r)
  BY DEF CommonPrefixes
<1>3. \A p \in C : p \in Seq(S)
  <2>1. \A k \in 0 .. Len(u) : SubSeq(u, 1, k) \in Seq(S)
    BY <1>1, SubSeqProperties
  <2>2. \A k \in 0 .. Len(r) : SubSeq(r, 1, k) \in Seq(S)
    BY <1>1, SubSeqProperties
  <2> QED
    BY <1>2, <2>1, <2>2 DEF Prefixes
<1>4. \A p \in C : Len(p) \in 0 .. Len(r)
  BY <1>1, <1>2, <1>3, LenProperties DEF IsPrefix
<1>5. <<>> \in C
  <2>1. \A x \in {<<>>, u, r} : SubSeq(x, 1, 0) = <<>>
    BY SubSeqEmpty
  <2>2. <<>> \in Prefixes(u)
    BY <1>1, <2>1 DEF Prefixes
  <2>3. Len(<<>>) = 0
    BY EmptySeq
  <2>4. IsPrefix(<<>>, u) /\ IsPrefix(<<>>, r)
    BY <1>1, <2>1, <2>3 DEF IsPrefix
  <2> QED
    BY <1>2, <2>2, <2>4
<1> HIDE DEF C
<1>6. \E p \in C : \A q \in C : Len(q) <= Len(p)
  <2> DEFINE N == {Len(p) : p \in C}
  <2>1. N \subseteq 0 .. Len(r) /\ N # {}
    BY <1>4, <1>5
  <2> HIDE DEF N
  <2>2. PICK m \in N : \A n \in N : n <= m
    BY <1>1, <2>1, GreatestNumber
  <2>3. PICK p \in C : m = Len(p)
    BY <2>2 DEF N
  <2>4. \A q \in C : Len(q) \in N
    BY DEF N
  <2> QED
    BY <2>2, <2>3, <2>4
<1>7. L \in C /\ \A q \in C : Len(q) <= Len(L)
  BY <1>6 DEF LongestCommonPrefix, C
<1> HIDE DEF L
<1>8. ASSUME IsPrefix(r, u)
      PROVE  Len(L) >= Len(r)
  <2>1. SubSeq(r, 1, Len(r)) = r
    BY SubSeqFull
  <2>2. r \in Prefixes(r)
    <3>1. Len(r) \in 0 .. Len(r)
      BY <1>1
    <3>2. SubSeq(r, 1, Len(r)) \in Prefixes(r)
      BY <3>1 DEF Prefixes
    <3> QED
      BY <2>1, <3>2
  <2>3. IsPrefix(r, r)
    BY <1>1 DEF IsPrefix
  <2>4. r \in C
    BY <1>2, <1>8, <2>2, <2>3
  <2> QED
    BY <1>1, <1>4, <1>7, <2>4
<1>9. ASSUME Len(L) >= Len(r)
      PROVE  IsPrefix(r, u)
  <2>1. Len(L) = Len(r) /\ IsPrefix(L, u) /\ IsPrefix(L, r)
    BY <1>1, <1>2, <1>4, <1>7, <1>9
  <2> QED
    BY <2>1 DEF IsPrefix
<1> QED
  BY <1>8, <1>9 DEF L

\* The bindings the scan takes as candidates are those whose route is there
\* and begins the url.
LEMMA CandidateIs ==
    ASSUME NEW u \in Urls, NEW b \in Bound
    PROVE  strmatch(u, b.route) >= b.route_len <=> b.route # NULL /\ IsPrefix(b.route, u)
<1>1. CASE b.route = NULL
  <2>1. strmatch(u, b.route) = 0 /\ b.route_len \in Int /\ b.route_len > 0
    BY <1>1, BoundIs, RouterAssumption DEF strmatch, BindingRecord
  <2> QED
    BY <1>1, <2>1
<1>2. CASE b.route # NULL
  <2> DEFINE S == ToSet(u) \cup ToSet(b.route)
  <2>1. b.route \in Routes /\ b.route_len = Len(b.route)
    BY <1>2, BoundIs
  <2>2. u \in Seq(ToSet(u)) /\ b.route \in Seq(ToSet(b.route))
    BY <2>1, RouterAssumption
  <2>3. ToSet(u) \subseteq S /\ ToSet(b.route) \subseteq S
    OBVIOUS
  <2> HIDE DEF S
  <2>4. u \in Seq(S) /\ b.route \in Seq(S)
    BY <2>2, <2>3, SeqMonotonic
  <2> QED
    BY <1>2, <2>1, <2>4, Matching DEF strmatch
<1> QED
  BY <1>1, <1>2

-----------------------------------------------------------------------------
(* The table.                                                              *)

Pairs == Routes \X Containers

\* pos takes the entries of the table to their bindings: in order, each, and
\* only those that kept their route.
PlacedBy(pos, kept, scan) ==
    /\ \A k \in 1 .. Len(kept) :
        /\ pos[k] \in 1 .. Len(scan)
        /\ scan[pos[k]].route # NULL
        /\ kept[k] = <<scan[pos[k]].route, scan[pos[k]].container>>
    /\ \A j, k \in 1 .. Len(kept) : j < k => pos[j] < pos[k]
    /\ \A i \in 1 .. Len(scan) :
        scan[i].route # NULL => \E k \in 1 .. Len(kept) : pos[k] = i

Places(kept, scan) == \E pos : PlacedBy(pos, kept, scan)

\* One more binding.
LEMMA PlacesAppend ==
    ASSUME NEW scan \in Seq(Bound), NEW b \in Bound, NEW kept \in Seq(Pairs),
           Places(kept, scan)
    PROVE  /\ kept \o Entry(b) \in Seq(Pairs)
           /\ Places(kept \o Entry(b), Append(scan, b))
<1> DEFINE more == Append(scan, b)
           n == Len(scan)
           m == Len(kept)
<1>1. /\ n \in Nat /\ m \in Nat
      /\ Len(more) = n + 1 /\ more[n + 1] = b
      /\ \A i \in 1 .. n : more[i] = scan[i]
  BY LenProperties, AppendProperties
<1>2. PICK pos : PlacedBy(pos, kept, scan)
  BY DEF Places
<1> HIDE DEF more, n, m
<1>3. CASE b.route = NULL
  <2>1. kept \o Entry(b) = kept
    BY <1>3, ConcatEmptySeq DEF Entry
  <2>2. PlacedBy(pos, kept, more)
    <3>1. \A i \in 1 .. n + 1 : i \in 1 .. n \/ i = n + 1
      BY <1>1
    <3>2. \A i \in 1 .. n : i \in 1 .. n + 1
      BY <1>1
    <3> QED
      BY <1>1, <1>2, <1>3, <3>1, <3>2 DEF PlacedBy, n
  <2> QED
    BY <2>1, <2>2 DEF Places, more
<1>4. CASE b.route # NULL
  <2> DEFINE new == <<b.route, b.container>>
             table == Append(kept, new)
             to == [k \in 1 .. m + 1 |-> IF k <= m THEN pos[k] ELSE n + 1]
  <2>1. new \in Pairs
    BY <1>4, BoundIs DEF Pairs
  <2>2. kept \o Entry(b) = table /\ table \in Seq(Pairs)
    BY <1>4, <2>1, AppendProperties, AppendIsConcat DEF Entry
  <2>3. /\ Len(table) = m + 1 /\ table[m + 1] = new
        /\ \A k \in 1 .. m : table[k] = kept[k]
    BY <2>1, AppendProperties DEF m
  <2>4. /\ to[m + 1] = n + 1 /\ \A k \in 1 .. m : to[k] = pos[k] /\ k \in 1 .. m + 1
        /\ \A k \in 1 .. m + 1 : k \in 1 .. m \/ k = m + 1
        /\ \A i \in 1 .. n + 1 : i \in 1 .. n \/ i = n + 1
        /\ \A i \in 1 .. n : i \in 1 .. n + 1 /\ i < n + 1
        /\ m + 1 \in 1 .. m + 1 /\ n + 1 \in 1 .. n + 1
        /\ \A k \in 1 .. m : ~(m + 1 < k) /\ ~(m + 1 < m + 1)
    BY <1>1
  <2> HIDE DEF to, table
  <2>5. \A k \in 1 .. m + 1 :
            /\ to[k] \in 1 .. n + 1
            /\ more[to[k]].route # NULL
            /\ table[k] = <<more[to[k]].route, more[to[k]].container>>
    <3>1. \A k \in 1 .. m :
            /\ pos[k] \in 1 .. n /\ scan[pos[k]].route # NULL
            /\ kept[k] = <<scan[pos[k]].route, scan[pos[k]].container>>
      BY <1>2 DEF PlacedBy, n, m
    <3>2. ASSUME NEW k \in 1 .. m
          PROVE  /\ to[k] \in 1 .. n + 1
                 /\ more[to[k]] = scan[pos[k]]
                 /\ table[k] = kept[k]
      BY <1>1, <2>3, <2>4, <3>1
    <3>3. more[to[m + 1]] = b /\ to[m + 1] \in 1 .. n + 1 /\ table[m + 1] = <<b.route, b.container>>
      BY <1>1, <2>3, <2>4
    <3> QED
      BY <1>4, <2>4, <3>1, <3>2, <3>3
  <2>6. \A j, k \in 1 .. m + 1 : j < k => to[j] < to[k]
    <3>1. \A j, k \in 1 .. m : (j < k => pos[j] < pos[k]) /\ pos[k] \in 1 .. n
      BY <1>2 DEF PlacedBy, n, m
    <3>2. ASSUME NEW j \in 1 .. m + 1, NEW k \in 1 .. m + 1, j < k
          PROVE  to[j] < to[k]
      <4>1. j \in 1 .. m
        BY <2>4, <3>2
      <4>2. CASE k \in 1 .. m
        BY <2>4, <3>1, <3>2, <4>1, <4>2
      <4>3. CASE k = m + 1
        BY <2>4, <3>1, <4>1, <4>3
      <4> QED
        BY <2>4, <4>2, <4>3
    <3> QED
      BY <3>2
  <2>7. \A i \in 1 .. n + 1 : more[i].route # NULL => \E k \in 1 .. m + 1 : to[k] = i
    <3>1. \A i \in 1 .. n : scan[i].route # NULL => \E k \in 1 .. m : pos[k] = i
      BY <1>2 DEF PlacedBy, n, m
    <3> QED
      BY <1>1, <2>4, <3>1
  <2>8. PlacedBy(to, table, more)
    BY <1>1, <2>3, <2>5, <2>6, <2>7 DEF PlacedBy
  <2> QED
    BY <2>2, <2>8 DEF Places, more
<1> QED
  BY <1>3, <1>4

-----------------------------------------------------------------------------
(* The packs.                                                              *)

\* The inductive invariant: PacksFilled of a list of bindings that is one,
\* and the table's entries in the places of the bindings kept.
IInv ==
    /\ packs \in Seq(Seq(Bound)) /\ Len(packs) \in Nat \ {0}
    /\ PacksFilled
    /\ Kept \in Seq(Pairs)
    /\ Places(Kept, Scan)

LEMMA ScanTyped == ASSUME IInv PROVE Scan \in Seq(Bound)
  BY FlattenTyped DEF IInv, Scan

\* The entries of the bindings, one sequence of at most one each.
Entries(scan) == [i \in DOMAIN scan |-> Entry(scan[i])]

\* A binding comes last in the table if it kept its route.
LEMMA KeptAppend ==
    ASSUME NEW scan \in Seq(Bound), NEW b \in Bound
    PROVE  FlattenSeq(Entries(Append(scan, b))) = FlattenSeq(Entries(scan)) \o Entry(b)
<1>1. \A d \in Bound : Entry(d) \in Seq(Pairs)
  <2> SUFFICES ASSUME NEW d \in Bound PROVE Entry(d) \in Seq(Pairs)
    OBVIOUS
  <2>1. CASE d.route = NULL
    BY <2>1, EmptySeq DEF Entry
  <2>2. CASE d.route # NULL
    <3>1. <<d.route, d.container>> \in Pairs
      BY <2>2, BoundIs DEF Pairs
    <3> QED
      BY <2>2, <3>1 DEF Entry
  <2> QED
    BY <2>1, <2>2
<1> DEFINE n == Len(scan)
           more == Append(scan, b)
           old == Entries(scan)
<1>2. /\ n \in Nat /\ DOMAIN scan = 1 .. n /\ DOMAIN more = 1 .. n + 1
      /\ more \in Seq(Bound)
      /\ more[n + 1] = b /\ \A i \in 1 .. n : more[i] = scan[i]
      /\ \A i \in 1 .. n : scan[i] \in Bound
  BY LenProperties, AppendProperties, ElementOfSeq
<1> HIDE DEF n, more
<1>3. old \in Seq(Seq(Pairs)) /\ Len(old) = n
  <2>1. old = [i \in 1 .. n |-> Entry(scan[i])]
    BY <1>2 DEF Entries
  <2>2. \A i \in 1 .. n : Entry(scan[i]) \in Seq(Pairs)
    BY <1>1, <1>2
  <2> QED
    BY <1>2, <2>1, <2>2, IsASeq
<1>4. Entries(more) = Append(old, Entry(b))
  <2>1. Entries(more) = [i \in 1 .. n + 1 |-> Entry(more[i])]
    BY <1>2 DEF Entries
  <2>2. /\ Append(old, Entry(b)) \in Seq(Seq(Pairs))
        /\ Len(Append(old, Entry(b))) = n + 1
        /\ Append(old, Entry(b))[n + 1] = Entry(b)
        /\ \A i \in 1 .. n : Append(old, Entry(b))[i] = old[i]
    BY <1>1, <1>3, AppendProperties
  <2>3. \A i \in 1 .. n : old[i] = Entry(scan[i])
    BY <1>2 DEF Entries
  <2>4. \A i \in 1 .. n + 1 : i \in 1 .. n \/ i = n + 1
    BY <1>2
  <2>5. /\ Entries(more) \in Seq(Seq(Pairs)) /\ Len(Entries(more)) = n + 1
        /\ \A i \in 1 .. n + 1 : Entries(more)[i] = Entry(more[i])
    <3>1. \A i \in 1 .. n + 1 : Entry(more[i]) \in Seq(Pairs)
      BY <1>1, <1>2, <2>4
    <3> QED
      BY <1>2, <2>1, <3>1, IsASeq
  <2>6. \A i \in 1 .. n + 1 : Entries(more)[i] = Append(old, Entry(b))[i]
    BY <1>2, <2>2, <2>3, <2>4, <2>5
  <2> QED
    BY <2>2, <2>5, <2>6, SeqEqual
<1> HIDE DEF old
<1>5. FlattenSeq(Append(old, Entry(b))) = FlattenSeq(old) \o Entry(b)
  BY <1>1, <1>3, FlattenAppend
<1> QED
  BY <1>4, <1>5 DEF more, old

LEMMA EmptyRouter == ASSUME Init PROVE Scan = <<>> /\ Kept = <<>>
<1>1. <<>> \in Seq(Bound) /\ <<>> \in Seq(Seq(Bound))
  BY EmptySeq
<1>2. Scan = <<>>
  <2>1. packs = Append(<<>>, <<>>)
    BY DEF Init
  <2>2. FlattenSeq(packs) = FlattenSeq(<<>>) \o <<>>
    BY <1>1, <2>1, FlattenAppend
  <2>3. FlattenSeq(packs) = <<>>
    BY <1>1, <2>2, FlattenEmpty, ConcatEmptySeq
  <2> QED
    BY <2>3 DEF Scan
<1>3. [i \in DOMAIN Scan |-> Entry(Scan[i])] = <<>>
  BY <1>1, <1>2
<1> QED
  BY <1>2, <1>3, FlattenEmpty DEF Kept

LEMMA InitIInv == Init => IInv
<1> SUFFICES ASSUME Init PROVE IInv
  OBVIOUS
<1>1. <<>> \in Seq(Bound) /\ Len(<<>>) = 0 /\ <<>> \in Seq(Pairs)
  BY EmptySeq
<1>2. packs \in Seq(Seq(Bound)) /\ Len(packs) = 1 /\ packs[1] = <<>> /\ last = 1
  BY <1>1 DEF Init
<1>3. \A i \in DOMAIN packs : i = last /\ Len(packs[i]) = 0
  BY <1>1, <1>2
<1>4. Places(Kept, Scan)
  BY <1>1, EmptyRouter DEF Places, PlacedBy
<1> QED
  BY <1>1, <1>2, <1>3, <1>4, EmptyRouter, RouterAssumption DEF IInv, PacksFilled

\* What is left to show of a step that appends a binding to the scan.
LEMMA ScanStep ==
    ASSUME IInv, NEW b \in Bound, Scan' = Append(Scan, b)
    PROVE  /\ Kept' = Kept \o Entry(b)
           /\ Kept' \in Seq(Pairs) /\ Places(Kept', Scan')
<1>1. Scan \in Seq(Bound) /\ Kept \in Seq(Pairs) /\ Places(Kept, Scan)
  BY ScanTyped DEF IInv
<1>2. Kept = FlattenSeq(Entries(Scan)) /\ Kept' = FlattenSeq(Entries(Scan'))
  BY DEF Kept, Entries
<1>3. Kept' = Kept \o Entry(b)
  BY <1>1, <1>2, KeptAppend
<1> QED
  BY <1>1, <1>3, PlacesAppend

\* A binding in a pack that has room: it comes last in the scan.
LEMMA HereStep ==
    ASSUME IInv, NEW b \in Bound, BindHere(b)
    PROVE  IInv' /\ Scan' = Append(Scan, b)
<1> USE RouterAssumption
<1>1. /\ packs \in Seq(Seq(Bound)) /\ Len(packs) \in Nat \ {0} /\ last = Len(packs)
      /\ Len(packs[last]) < ROUTE_GROUP_LEN /\ last' = last
      /\ packs' = [packs EXCEPT ![last] = Append(packs[last], b)]
  BY DEF IInv, PacksFilled, BindHere
<1>2. last \in 1 .. Len(packs) /\ packs[last] \in Seq(Bound)
  BY <1>1, ElementOfSeq
<1> DEFINE new == Append(packs[last], b)
<1>3. new \in Seq(Bound) /\ Len(new) = Len(packs[last]) + 1 /\ Len(packs[last]) \in Nat
  BY <1>2, AppendProperties, LenProperties
<1>4. Len(new) <= ROUTE_GROUP_LEN
  BY <1>1, <1>3
<1> HIDE DEF new
<1>5. /\ packs' \in Seq(Seq(Bound)) /\ Len(packs') = Len(packs)
      /\ packs'[last] = new /\ \A i \in 1 .. Len(packs) : i # last => packs'[i] = packs[i]
  BY <1>1, <1>2, <1>3, ExceptSeq DEF new
<1>6. ASSUME NEW i \in DOMAIN packs'
      PROVE  IF i < last' THEN Len(packs'[i]) = ROUTE_GROUP_LEN
             ELSE Len(packs'[i]) <= ROUTE_GROUP_LEN
  <2>1. i \in 1 .. Len(packs) /\ i \in DOMAIN packs
    BY <1>1, <1>5
  <2> QED
    BY <1>1, <1>4, <1>5, <2>1 DEF IInv, PacksFilled
<1>7. Scan' = Append(Scan, b)
  <2> DEFINE front == SubSeq(packs, 1, last - 1)
  <2>1. /\ front \in Seq(Seq(Bound))
        /\ packs = Append(front, packs[last])
        /\ packs' = Append(front, new)
    <3>1. Len(packs) # 0 /\ last = Len(packs) /\ new \in Seq(Bound)
      BY <1>1, <1>3
    <3>2. packs' = [packs EXCEPT ![Len(packs)] = new]
      BY <1>1 DEF new
    <3>3. front \in Seq(Seq(Bound)) /\ packs = Append(front, packs[last])
      BY <1>1, <3>1, LastApart
    <3>4. packs' = Append(front, new)
      BY <1>1, <3>1, <3>2, ReplaceLast
    <3> QED
      BY <3>3, <3>4
  <2> HIDE DEF front
  <2>2. Scan = FlattenSeq(front) \o packs[last] /\ Scan' = FlattenSeq(front) \o new
    BY <1>2, <1>3, <2>1, FlattenAppend DEF Scan
  <2>3. FlattenSeq(front) \in Seq(Bound)
    BY <2>1, FlattenTyped
  <2> QED
    BY <1>2, <2>2, <2>3, JoinAppend DEF new
<1>8. Kept' \in Seq(Pairs) /\ Places(Kept', Scan')
  BY <1>7, ScanStep
<1> QED
  BY <1>1, <1>5, <1>6, <1>7, <1>8 DEF IInv, PacksFilled

\* A binding in a pack of its own: nothing is cut off.
LEMMA NextStep ==
    ASSUME IInv, NEW b \in Bound, BindNext(b)
    PROVE  IInv' /\ Scan' = Append(Scan, b)
<1> USE RouterAssumption
<1>1. /\ packs \in Seq(Seq(Bound)) /\ Len(packs) \in Nat \ {0} /\ last = Len(packs)
      /\ Len(packs[last]) = ROUTE_GROUP_LEN /\ last' = last + 1
      /\ packs' = SubSeq(packs, 1, last) \o << <<b>> >>
  BY DEF IInv, PacksFilled, BindNext
<1> DEFINE new == <<b>>
<1>2. new \in Seq(Bound) /\ Len(new) = 1
  OBVIOUS
<1> HIDE DEF new
<1>3. packs' = Append(packs, new)
  <2>1. packs' = packs \o <<new>>
    BY <1>1, SubSeqFull DEF new
  <2> QED
    BY <1>1, <1>2, <2>1, AppendIsConcat
<1>4. /\ packs' \in Seq(Seq(Bound)) /\ Len(packs') = Len(packs) + 1
      /\ \A i \in 1 .. Len(packs) : packs'[i] = packs[i]
      /\ packs'[Len(packs) + 1] = new
  <2>1. packs \in Seq(Seq(Bound)) /\ new \in Seq(Bound)
    BY <1>1, <1>2
  <2> QED
    BY <1>3, <2>1, AppendProperties
<1>5. ASSUME NEW i \in DOMAIN packs'
      PROVE  IF i < last' THEN Len(packs'[i]) = ROUTE_GROUP_LEN
             ELSE Len(packs'[i]) <= ROUTE_GROUP_LEN
  <2>1. i \in 1 .. Len(packs) + 1
    BY <1>4
  <2>2. CASE i <= Len(packs)
    <3>1. i \in DOMAIN packs /\ i < last' /\ packs'[i] = packs[i] /\ (i < last \/ i = last)
      BY <1>1, <1>4, <2>1, <2>2
    <3>2. i < last => Len(packs[i]) = ROUTE_GROUP_LEN
      BY <3>1 DEF IInv, PacksFilled
    <3> QED
      BY <1>1, <3>1, <3>2
  <2>3. CASE i = Len(packs) + 1
    <3>1. ~(i < last')
      BY <1>1, <2>3
    <3>2. packs'[i] = new /\ 1 <= ROUTE_GROUP_LEN
      BY <1>4, <2>3
    <3> QED
      BY <1>2, <3>1, <3>2
  <2> QED
    BY <1>1, <2>1, <2>2, <2>3
<1>6. Scan' = Append(Scan, b)
  <2>1. Scan' = Scan \o new
    BY <1>1, <1>2, <1>3, FlattenAppend DEF Scan
  <2> QED
    BY <2>1, ScanTyped, AppendIsConcat DEF new
<1>7. Kept' \in Seq(Pairs) /\ Places(Kept', Scan')
  BY <1>6, ScanStep
<1> QED
  BY <1>1, <1>4, <1>5, <1>6, <1>7 DEF IInv, PacksFilled

\* http_router_bind.
LEMMA BindStep ==
    ASSUME IInv, NEW r \in Routes, NEW c \in Containers, http_router_bind(r, c)
    PROVE  /\ IInv'
           /\ \E b \in NewBindings(r, c) : b \in Bound /\ Scan' = Append(Scan, b)
<1>1. PICK b \in NewBindings(r, c) : BindHere(b) \/ BindNext(b)
  BY DEF http_router_bind
<1>2. b \in Bound
  BY DEF Bound, http_router_bind
<1> QED
  BY <1>1, <1>2, HereStep, NextStep

\* The other operations leave the packs alone.
LEMMA OtherStep ==
    ASSUME IInv, UNCHANGED <<packs, last>>
    PROVE  IInv' /\ Kept' = Kept
BY DEF IInv, PacksFilled, Kept, Scan

LEMMA NextIInv == IInv /\ [Next]_vars => IInv'
BY BindStep, OtherStep
   DEF Next, BindAborts, http_router_set_default_container, http_router_serve, Aborted, vars

\* However many routes are bound, the packs stay one list: no binding cuts off
\* packs that hold others, and none is written behind the end of a pack.
THEOREM PacksStayFilled == Spec => []PacksFilled
<1>1. IInv => PacksFilled
  BY DEF IInv
<1> QED
  BY <1>1, InitIInv, NextIInv, PTL DEF Spec

-----------------------------------------------------------------------------
(* The requests.                                                           *)

First == match_mode = "ROUTE_MATCH_FIRST"

\* The binding the scan ends with.
Decisive(u, i) ==
    /\ i \in Candidates(u) /\ container(u) = Scan[i].container
    /\ First => \A j \in Candidates(u) : i <= j

LEMMA ContainerIs ==
    ASSUME IInv, NEW u
    PROVE  IF Candidates(u) = {} THEN container(u) = NULL ELSE \E i : Decisive(u, i)
<1> DEFINE C == Candidates(u)
<1>1. C \subseteq 1 .. Len(Scan) /\ Len(Scan) \in Nat
  BY ScanTyped, LenProperties DEF Candidates
<1>2. C \subseteq Nat /\ C \subseteq 0 .. Len(Scan)
  BY <1>1
<1> HIDE DEF C
<1>3. ASSUME C # {}
      PROVE  \E i \in C : \A j \in C : IF First THEN i <= j ELSE i >= j
  <2>1. \E i \in C : \A j \in C : i <= j
    BY <1>2, <1>3, LeastNumber
  <2>2. PICK i \in C : \A j \in C : j <= i
    BY <1>1, <1>2, <1>3, GreatestNumber
  <2>3. \A j \in C : i >= j
    BY <1>2, <2>2
  <2> QED
    BY <2>1, <2>2, <2>3
<1>4. ASSUME C # {}
      PROVE  \E i : Decisive(u, i)
  <2> DEFINE i == CHOOSE k \in C : \A j \in C : IF First THEN k <= j ELSE k >= j
  <2>1. i \in C /\ \A j \in C : IF First THEN i <= j ELSE i >= j
    BY <1>3, <1>4
  <2>2. container(u) = Scan[i].container
    BY <1>4 DEF container, C, First
  <2> HIDE DEF i
  <2> QED
    BY <2>1, <2>2 DEF Decisive, C
<1> QED
  BY <1>4 DEF container, C

\* The container found is one the table names for this url.
LEMMA TargetOfTable ==
    ASSUME IInv, NEW u \in Urls
    PROVE  /\ container(u) \in Containers \cup {NULL}
           /\ container(u) \in Table!Targets(u)
<1> DEFINE n == Len(Scan)
           m == Len(Kept)
<1>1. Scan \in Seq(Bound) /\ Kept \in Seq(Pairs) /\ Places(Kept, Scan)
  BY ScanTyped DEF IInv
<1>2. /\ n \in Nat /\ DOMAIN Scan = 1 .. n
      /\ m \in Nat /\ DOMAIN Kept = 1 .. m
      /\ \A i \in 1 .. n : Scan[i] \in Bound
  BY <1>1, LenProperties, ElementOfSeq
<1>3. PICK pos : PlacedBy(pos, Kept, Scan)
  BY <1>1 DEF Places
<1>4. /\ \A k \in 1 .. m : pos[k] \in 1 .. n /\ Scan[pos[k]].route # NULL
                           /\ Kept[k][1] = Scan[pos[k]].route
                           /\ Kept[k][2] = Scan[pos[k]].container
      /\ \A j, k \in 1 .. m : j < k => pos[j] < pos[k]
      /\ \A i \in 1 .. n : Scan[i].route # NULL => \E k \in 1 .. m : pos[k] = i
  BY <1>3 DEF PlacedBy
<1>5. \A i : i \in Candidates(u) <=>
             i \in 1 .. n /\ Scan[i].route # NULL /\ IsPrefix(Scan[i].route, u)
  BY <1>2, CandidateIs DEF Candidates
<1>6. \A k : k \in Table!Matches(u) <=> k \in 1 .. m /\ IsPrefix(Kept[k][1], u)
  BY <1>2 DEF Table!Matches, Table!IsPrefix, IsPrefix
<1>7. \A k : k \in Table!Matches(u) <=> k \in 1 .. m /\ pos[k] \in Candidates(u)
  BY <1>4, <1>5, <1>6
<1>8. \A i \in Candidates(u) : \E k \in Table!Matches(u) : pos[k] = i
  BY <1>4, <1>5, <1>7
<1> HIDE DEF n, m
<1>9. CASE Candidates(u) = {}
  <2>1. Table!Matches(u) = {}
    BY <1>7, <1>9
  <2> QED
    BY <1>9, <2>1, ContainerIs DEF Table!Targets
<1>10. CASE Candidates(u) # {}
  <2>1. PICK i : Decisive(u, i)
    BY <1>10, ContainerIs
  <2>2. PICK k \in Table!Matches(u) : pos[k] = i
    BY <1>8, <2>1 DEF Decisive
  <2>3. k \in 1 .. m /\ Kept[k][2] = container(u)
    BY <1>4, <1>7, <2>1, <2>2 DEF Decisive
  <2>4. ASSUME First, NEW j \in Table!Matches(u)
        PROVE  k <= j
    <3>1. j \in 1 .. m /\ pos[j] \in Candidates(u) /\ k \in 1 .. m
      BY <1>7, <2>3
    <3>2. i <= pos[j] /\ i \in Int /\ pos[j] \in Int
      BY <1>2, <1>4, <1>5, <2>1, <2>4, <3>1 DEF Decisive
    <3>3. j < k => pos[j] < i
      BY <1>4, <2>2, <3>1
    <3> QED
      BY <1>2, <3>1, <3>2, <3>3
  <2>5. container(u) \in Table!Targets(u)
    BY <2>2, <2>3, <2>4 DEF Table!Targets, First
  <2>6. container(u) \in Containers
    BY <1>2, <1>5, <2>1, BoundIs DEF Decisive
  <2> QED
    BY <2>5, <2>6
<1> QED
  BY <1>9, <1>10

-----------------------------------------------------------------------------
(* The types.                                                              *)

LEMMA TypeStep ==
    ASSUME IInv, TypeOK, [Next]_vars
    PROVE  TypeOK'
<1>1. packs' \in Seq(Seq(BindingRecord)) /\ last' \in Nat
  <2>1. packs' \in Seq(Seq(Bound)) /\ last' = Len(packs') /\ Len(packs') \in Nat
    BY NextIInv DEF IInv, PacksFilled
  <2>2. Bound \subseteq BindingRecord
    BY BoundIs
  <2>3. Seq(Bound) \subseteq Seq(BindingRecord)
    BY <2>2, SeqMonotonic
  <2> QED
    BY <2>1, <2>3, SeqMonotonic
<1>2. CASE UNCHANGED <<url, calls, ret>> /\ starter' \in {starter} \cup Containers
           /\ aborted' \in BOOLEAN
  BY <1>1, <1>2 DEF TypeOK
<1>3. ASSUME NEW u \in Urls, http_router_serve(u)
      PROVE  TypeOK'
  <2>1. container(u) \in Containers \cup {NULL}
    BY TargetOfTable
  <2>2. ret' \in {0, -1}
    BY <1>3 DEF http_router_serve, Returns
  <2>3. calls' \in Seq(Containers \cup {NULL})
    <3> DEFINE T == Containers \cup {NULL}
               c == container(u)
    <3>1. starter \in T /\ c \in T
      BY <2>1 DEF TypeOK
    <3>2. \/ calls' = <<starter>>
          \/ calls' = <<starter>> \o <<c>>
          \/ calls' = <<>> \o <<c>>
      BY <1>3 DEF http_router_serve
    <3> HIDE DEF T, c
    <3>3. <<starter>> \in Seq(T) /\ <<c>> \in Seq(T) /\ <<>> \in Seq(T)
      BY <3>1
    <3>4. calls' \in Seq(T)
      BY <3>2, <3>3, ConcatProperties
    <3> QED
      BY <3>4 DEF T
  <2> QED
    BY <1>1, <1>3, <2>2, <2>3 DEF TypeOK, http_router_serve
<1>4. CASE \E r \in Routes, c \in Containers : http_router_bind(r, c)
  BY <1>2, <1>4 DEF http_router_bind, TypeOK
<1>5. CASE \/ BindAborts \/ \E c \in Containers : http_router_set_default_container(c)
           \/ Aborted \/ UNCHANGED vars
  BY <1>2, <1>5 DEF BindAborts, http_router_set_default_container, Aborted, vars, TypeOK
<1> QED
  BY <1>3, <1>4, <1>5 DEF Next

\* Every binding is of a route that fits and names a container, and a request
\* only goes to containers there are (httprouter.c:154-235).
THEOREM TypeCorrect == Spec => []TypeOK
<1>1. Init => TypeOK
  <2> SUFFICES ASSUME Init PROVE TypeOK
    OBVIOUS
  <2>1. /\ <<>> \in Seq(BindingRecord) /\ <<>> \in Seq(Containers \cup {NULL})
        /\ << <<>> >> \in Seq(Seq(BindingRecord))
    BY EmptySeq
  <2> QED
    BY <2>1 DEF Init, TypeOK
<1>2. IInv /\ TypeOK /\ [Next]_vars => TypeOK'
  BY TypeStep
<1> QED
  BY <1>1, <1>2, InitIInv, NextIInv, PTL DEF Spec

-----------------------------------------------------------------------------
(* The refinement.                                                         *)

LEMMA InitRefines == Init => Table!Init
<1>1. Init => Scan = <<>> /\ Kept = <<>>
  BY EmptyRouter
<1> QED
  BY <1>1 DEF Init, Table!Init

\* A route bound is a row of the table, unless it was lost.
LEMMA BindRefines ==
    ASSUME IInv, NEW r \in Routes, NEW c \in Containers, http_router_bind(r, c)
    PROVE  [Table!Next]_(Table!vars)
<1>1. PICK b \in NewBindings(r, c) : b \in Bound /\ Scan' = Append(Scan, b)
  BY BindStep
<1>2. Kept' = Kept \o Entry(b) /\ Kept \in Seq(Pairs)
  BY <1>1, ScanStep DEF IInv
<1>3. UNCHANGED <<starter, url, calls, ret>>
  BY DEF http_router_bind
<1>4. CASE b.route = NULL
  <2>1. Kept' = Kept
    BY <1>2, <1>4, ConcatEmptySeq DEF Entry
  <2> QED
    BY <1>3, <2>1 DEF Table!vars
<1>5. CASE b.route # NULL
  <2>1. b = Binding(r, Len(r), c)
    BY <1>5 DEF NewBindings, Binding
  <2>2. <<r, c>> \in Pairs /\ Kept' = Kept \o << <<r, c>> >>
    BY <1>2, <1>5, <2>1 DEF Entry, Pairs, Binding
  <2>3. Kept' = Append(Kept, <<r, c>>)
    BY <1>2, <2>2, AppendIsConcat
  <2> QED
    BY <1>3, <2>3 DEF Table!Next, Table!Bind
<1> QED
  BY <1>4, <1>5

LEMMA NextRefines ==
    ASSUME IInv, [Next]_vars
    PROVE  [Table!Next]_(Table!vars)
<1>1. CASE \E r \in Routes, c \in Containers : http_router_bind(r, c)
  BY <1>1, BindRefines
<1>2. CASE BindAborts \/ Aborted \/ UNCHANGED vars
  <2>1. UNCHANGED <<packs, last, starter, url, calls, ret>>
    BY <1>2 DEF BindAborts, Aborted, vars
  <2> QED
    BY <2>1, OtherStep DEF Table!vars
<1>3. CASE \E c \in Containers : http_router_set_default_container(c)
  <2>1. Kept' = Kept
    BY <1>3, OtherStep DEF http_router_set_default_container
  <2> QED
    BY <1>3, <2>1 DEF http_router_set_default_container, Table!Next, Table!SetDefault
<1>4. ASSUME NEW u \in Urls, http_router_serve(u)
      PROVE  Table!Next
  <2>1. Kept' = Kept /\ starter' = starter /\ url' = u
    BY <1>4, OtherStep DEF http_router_serve
  <2>2. container(u) \in Table!Targets(u)
    BY TargetOfTable
  <2>3. \/ starter # NULL /\ calls' = <<starter>> /\ ret' = 0
        \/ /\ calls' = (IF starter = NULL THEN <<>> ELSE <<starter>>) \o <<container(u)>>
           /\ ret' \in (IF container(u) = NULL THEN {-1} ELSE {0, -1})
    BY <1>4 DEF http_router_serve, Returns
  <2> HIDE DEF Table!Targets
  <2> QED
    BY <2>1, <2>2, <2>3 DEF Table!Next, Table!Serve
<1> QED
  BY <1>1, <1>2, <1>3, <1>4 DEF Next

\* Every request goes where the flat table of the bindings made sends it, and
\* a binding that lost its route to a failed allocation takes no request and
\* keeps none from the others (httprouter.c:104-142, 198-244).
THEOREM RouterImplementsTable == Spec => KeepsTable
<1>1. IInv /\ [Next]_vars => [Table!Next]_(Table!vars)
  BY NextRefines
<1> QED
  BY <1>1, InitRefines, InitIInv, NextIInv, PTL DEF Spec, KeepsTable, Table!Spec
=============================================================================
