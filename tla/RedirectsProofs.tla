--------------------------- MODULE RedirectsProofs ---------------------------
(***************************************************************************)
(* Proofs about Redirects, for any nodes, shards, placement and dispatcher *)
(* and any changes of the topology: what the binary search of a list that  *)
(* is not sorted still says, why a chain of redirects ends nevertheless,   *)
(* and which files are found.                                              *)
(***************************************************************************)
EXTENDS Redirects, FiniteSetTheorems, SequenceTheorems, TLAPS

-----------------------------------------------------------------------------
(* Least and greatest elements.                                             *)

\* Every set of naturals has a least element: the intervals from 0 to its
\* elements have a smallest one.  This replaces induction below.
LEMMA LeastNatural ==
    ASSUME NEW T \in SUBSET Nat, T # {}
    PROVE  \E x \in T : \A y \in T : x <= y
<1> DEFINE F == {0 .. n : n \in T}
<1>1. F \subseteq FiniteSubsetsOf(Nat)
  <2>1. ASSUME NEW n \in T PROVE 0 .. n \in FiniteSubsetsOf(Nat)
    <3>1. IsFiniteSet(0 .. n) BY FS_Interval
    <3>2. 0 .. n \subseteq Nat OBVIOUS
    <3> QED BY <3>1, <3>2 DEF FiniteSubsetsOf
  <2> QED BY <2>1
<1>2. \E x \in F : \A y \in F : ~(<<y, x>> \in StrictSubsetOrdering(Nat))
  <2>1. F # {} OBVIOUS
  <2>2. IsWellFoundedOn(StrictSubsetOrdering(Nat), FiniteSubsetsOf(Nat))
    BY FS_StrictSubsetOrderingWellFounded
  <2> HIDE DEF F
  <2> QED BY <1>1, <2>1, <2>2, WFMin
<1>3. PICK n \in T : \A m \in T : ~(<<0 .. m, 0 .. n>> \in StrictSubsetOrdering(Nat))
  BY <1>2
<1>4. ASSUME NEW m \in T, m < n PROVE FALSE
  <2>1. 0 .. m \subseteq 0 .. n /\ 0 .. m # 0 .. n BY <1>4
  <2>2. <<0 .. m, 0 .. n>> \in StrictSubsetOrdering(Nat)
    BY <2>1 DEF StrictSubsetOrdering
  <2> QED BY <1>3, <2>2
<1> QED BY <1>3, <1>4

\* A finite set of naturals has a greatest element.
LEMMA GreatestOfFinite ==
    ASSUME NEW S \in SUBSET Nat, IsFiniteSet(S), S # {}
    PROVE  \E n \in S : \A m \in S : m <= n
<1> DEFINE Max(T) == \E n \in T : \A m \in T : m <= n
           F == {T \in FiniteSubsetsOf(Nat) : T # {} /\ ~Max(T)}
<1>1. SUFFICES ASSUME F # {} PROVE FALSE
  <2>1. S \in FiniteSubsetsOf(Nat) BY DEF FiniteSubsetsOf
  <2> QED BY <2>1
<1>2. PICK T \in F : \A U \in F : ~(<<U, T>> \in StrictSubsetOrdering(Nat))
  <2>1. F \subseteq FiniteSubsetsOf(Nat) OBVIOUS
  <2>2. IsWellFoundedOn(StrictSubsetOrdering(Nat), FiniteSubsetsOf(Nat))
    BY FS_StrictSubsetOrderingWellFounded
  <2> HIDE DEF F
  <2> QED BY <1>1, <2>1, <2>2, WFMin
<1>3. T \in SUBSET Nat /\ IsFiniteSet(T) /\ T # {} /\ ~Max(T)
  BY <1>2 DEF FiniteSubsetsOf
<1>4. PICK x \in T : TRUE BY <1>3
<1>5. T \ {x} # {} BY <1>3, <1>4
<1>6. T \ {x} \in FiniteSubsetsOf(Nat)
  BY <1>3, FS_RemoveElement DEF FiniteSubsetsOf
<1>7. <<T \ {x}, T>> \in StrictSubsetOrdering(Nat)
  BY <1>3, <1>4 DEF StrictSubsetOrdering
<1>8. Max(T \ {x}) BY <1>2, <1>5, <1>6, <1>7
<1>9. PICK n \in T \ {x} : \A m \in T \ {x} : m <= n BY <1>8
<1>10. Max(T)
  <2>1. CASE x <= n BY <1>3, <1>9, <2>1
  <2>2. CASE n <= x BY <1>3, <1>4, <1>9, <2>2
  <2> QED BY <1>3, <1>4, <1>9, <2>1, <2>2
<1> QED BY <1>3, <1>10

-----------------------------------------------------------------------------
(* sort.SearchStrings on any list.                                          *)

Ranges(a) == (0 .. Len(a)) \X (0 .. Len(a))
\* One step of the search of range r, with f for the steps to come.
Halve(a, x, f, r) ==
    IF r[1] >= r[2] THEN r[1]
    ELSE IF a[Middle(r) + 1] >= x THEN f[<<r[1], Middle(r)>>]
         ELSE f[<<Middle(r) + 1, r[2]>>]
Halved(a, x, f) == [r \in Ranges(a) |-> Halve(a, x, f, r)]
Search(a, x) == CHOOSE f : f = Halved(a, x, f)
\* The search is right for all ranges of at most k positions.
RightUpTo(a, x, k) ==
    {f \in [Ranges(a) -> 0 .. Len(a)] :
        \A r \in Ranges(a) : r[2] - r[1] <= k => f[r] = Halve(a, x, f, r)}

\* The middle of a range is in it, and before its end.
LEMMA MiddleInRange ==
    ASSUME NEW n \in Nat, NEW r \in (0 .. n) \X (0 .. n), r[1] < r[2]
    PROVE  /\ Middle(r) \in 0 .. n /\ Middle(r) + 1 \in 1 .. n
           /\ r[1] <= Middle(r) /\ Middle(r) < r[2]
BY DEF Middle

\* Both halves of a range are ranges, and shorter.
LEMMA HalvesShorter ==
    ASSUME NEW a, Len(a) \in Nat, NEW r \in Ranges(a), r[1] < r[2]
    PROVE  /\ <<r[1], Middle(r)>> \in Ranges(a)
           /\ <<Middle(r) + 1, r[2]>> \in Ranges(a)
           /\ Middle(r) - r[1] < r[2] - r[1]
           /\ r[2] - (Middle(r) + 1) < r[2] - r[1]
<1>1. r[1] \in 0 .. Len(a) /\ r[2] \in 0 .. Len(a) BY DEF Ranges
<1>2. /\ Middle(r) \in 0 .. Len(a) /\ Middle(r) + 1 \in 1 .. Len(a)
      /\ r[1] <= Middle(r) /\ Middle(r) < r[2]
  BY MiddleInRange DEF Ranges
<1> QED BY <1>1, <1>2 DEF Ranges

\* A step uses the shorter ranges only.
LEMMA HalveLocal ==
    ASSUME NEW a, Len(a) \in Nat, NEW x, NEW f, NEW g, NEW r \in Ranges(a),
           \A q \in Ranges(a) : q[2] - q[1] < r[2] - r[1] => f[q] = g[q]
    PROVE  Halve(a, x, f, r) = Halve(a, x, g, r)
<1>1. CASE r[1] >= r[2] BY <1>1 DEF Halve
<1>2. CASE r[1] < r[2]
  <2> DEFINE q1 == <<r[1], Middle(r)>>
             q2 == <<Middle(r) + 1, r[2]>>
  <2>1. q1 \in Ranges(a) /\ q2 \in Ranges(a)
        /\ q1[2] - q1[1] < r[2] - r[1] /\ q2[2] - q2[1] < r[2] - r[1]
    BY <1>2, HalvesShorter
  <2>2. f[q1] = g[q1] /\ f[q2] = g[q2] BY <2>1
  <2> QED BY <2>2 DEF Halve
<1> QED BY <1>1, <1>2 DEF Ranges

\* A step yields a position of the list.
LEMMA HalveType ==
    ASSUME NEW a, Len(a) \in Nat, NEW x, NEW f \in [Ranges(a) -> 0 .. Len(a)],
           NEW r \in Ranges(a)
    PROVE  Halve(a, x, f, r) \in 0 .. Len(a)
<1>1. r[1] \in 0 .. Len(a) /\ r[2] \in 0 .. Len(a) BY DEF Ranges
<1>2. CASE r[1] >= r[2] BY <1>1, <1>2 DEF Halve
<1>3. CASE r[1] < r[2]
  <2>1. /\ f[<<r[1], Middle(r)>>] \in 0 .. Len(a)
        /\ f[<<Middle(r) + 1, r[2]>>] \in 0 .. Len(a)
    BY <1>3, HalvesShorter
  <2> QED BY <1>1, <2>1 DEF Halve
<1> QED BY <1>1, <1>2, <1>3

\* The search of all ranges of at most k positions is well defined.
LEMMA SearchUpTo ==
    ASSUME NEW a, Len(a) \in Nat, NEW x, NEW n \in Nat
    PROVE  RightUpTo(a, x, n) # {}
<1> DEFINE T == {k \in Nat : RightUpTo(a, x, k) = {}}
<1> SUFFICES ASSUME T # {} PROVE FALSE
  OBVIOUS
<1>1. PICK k \in T : \A j \in T : k <= j
  <2>1. T \in SUBSET Nat OBVIOUS
  <2> HIDE DEF T
  <2> QED BY <2>1, LeastNatural
<1>2. CASE k = 0
  <2> DEFINE f == [r \in Ranges(a) |-> r[1]]
  <2>1. f \in [Ranges(a) -> 0 .. Len(a)] BY DEF Ranges
  <2>2. ASSUME NEW r \in Ranges(a), r[2] - r[1] <= 0 PROVE f[r] = Halve(a, x, f, r)
    <3>1. r[1] >= r[2] BY <2>2 DEF Ranges
    <3> QED BY <3>1 DEF Halve
  <2>3. f \in RightUpTo(a, x, 0) BY <2>1, <2>2 DEF RightUpTo
  <2> QED BY <1>1, <1>2, <2>3
<1>3. CASE k # 0
  <2>1. k - 1 \in Nat /\ k \in Nat BY <1>1, <1>3
  <2>2. k - 1 \notin T BY <1>1, <2>1
  <2>3. PICK g : g \in RightUpTo(a, x, k - 1) BY <2>1, <2>2
  <2>4. /\ g \in [Ranges(a) -> 0 .. Len(a)]
        /\ \A r \in Ranges(a) : r[2] - r[1] <= k - 1 => g[r] = Halve(a, x, g, r)
    BY <2>3 DEF RightUpTo
  <2> DEFINE f == [r \in Ranges(a) |-> Halve(a, x, g, r)]
  <2>5. f \in [Ranges(a) -> 0 .. Len(a)] BY <2>4, HalveType
  <2>6. ASSUME NEW r \in Ranges(a), r[2] - r[1] <= k PROVE f[r] = Halve(a, x, f, r)
    <3>1. ASSUME NEW q \in Ranges(a), q[2] - q[1] < r[2] - r[1] PROVE f[q] = g[q]
      <4>1. q[2] - q[1] <= k - 1 BY <2>1, <2>6, <3>1 DEF Ranges
      <4> QED BY <2>4, <4>1
    <3>2. f[r] = Halve(a, x, g, r) OBVIOUS
    <3> HIDE DEF f
    <3>3. Halve(a, x, f, r) = Halve(a, x, g, r) BY <3>1, HalveLocal
    <3> QED BY <3>2, <3>3
  <2> HIDE DEF f
  <2>7. f \in RightUpTo(a, x, k) BY <2>5, <2>6 DEF RightUpTo
  <2> QED BY <1>1, <2>7
<1> QED BY <1>2, <1>3

\* The recursion is well defined.
LEMMA SearchExists ==
    ASSUME NEW a, Len(a) \in Nat, NEW x
    PROVE  Search(a, x) = Halved(a, x, Search(a, x))
<1>1. PICK f : f \in RightUpTo(a, x, Len(a)) BY SearchUpTo
<1>2. f \in [Ranges(a) -> 0 .. Len(a)] BY <1>1 DEF RightUpTo
<1>3. ASSUME NEW r \in Ranges(a) PROVE f[r] = Halve(a, x, f, r)
  <2>1. r[2] - r[1] <= Len(a) BY DEF Ranges
  <2> QED BY <1>1, <2>1 DEF RightUpTo
<1>4. f = Halved(a, x, f) BY <1>2, <1>3 DEF Halved
<1> QED BY <1>4 DEF Search

\* What the search of range r of a list says, sorted or not: where it ends at
\* the end of the range, the last name of the range is smaller than x; and it
\* ends there when all are.
SaysOfLast(a, x, r) ==
    LET p == Search(a, x)[r] IN
    /\ p \in Int /\ r[1] <= p /\ p <= r[2]
    /\ r[1] < r[2] /\ p = r[2] => a[r[2]] < x
    /\ (\A i \in r[1] + 1 .. r[2] : a[i] < x) => p = r[2]

\* The search of a range says what it should if the searches of shorter ones do.
LEMMA SearchStep ==
    ASSUME NEW a \in Seq(Nat), NEW x \in Nat, NEW r \in Ranges(a), r[1] <= r[2],
           \A q \in Ranges(a) :
              q[1] <= q[2] /\ q[2] - q[1] < r[2] - r[1] => SaysOfLast(a, x, q)
    PROVE  SaysOfLast(a, x, r)
<1>0. Len(a) \in Nat /\ \A i \in 1 .. Len(a) : a[i] \in Nat
  BY LenProperties, ElementOfSeq
<1>1. r[1] \in 0 .. Len(a) /\ r[2] \in 0 .. Len(a) BY DEF Ranges
<1> DEFINE f == Search(a, x)
<1>2. f[r] = IF r[1] >= r[2] THEN r[1]
             ELSE IF a[Middle(r) + 1] >= x THEN f[<<r[1], Middle(r)>>]
                  ELSE f[<<Middle(r) + 1, r[2]>>]
  <2>1. f = Halved(a, x, f) BY <1>0, SearchExists
  <2> HIDE DEF f
  <2>2. f[r] = Halve(a, x, f, r) BY <2>1, Zenon DEF Halved
  <2> QED BY <2>2, Zenon DEF Halve
<1>3. CASE r[1] = r[2]
  <2>1. f[r] = r[1] BY <1>0, <1>1, <1>2, <1>3
  <2> QED BY <1>0, <1>1, <1>3, <2>1 DEF SaysOfLast
<1>4. CASE r[1] < r[2]
  <2> DEFINE q1 == <<r[1], Middle(r)>>
             q2 == <<Middle(r) + 1, r[2]>>
  <2>1. /\ Middle(r) \in 0 .. Len(a) /\ Middle(r) + 1 \in 1 .. Len(a)
        /\ r[1] <= Middle(r) /\ Middle(r) < r[2]
    BY <1>0, <1>4, MiddleInRange DEF Ranges
  <2>2. q1 \in Ranges(a) /\ q2 \in Ranges(a)
        /\ q1[2] - q1[1] < r[2] - r[1] /\ q2[2] - q2[1] < r[2] - r[1]
    BY <1>0, <1>4, HalvesShorter
  <2>3. SaysOfLast(a, x, q1) /\ SaysOfLast(a, x, q2)
    <3>1. q1[1] <= q1[2] /\ q2[1] <= q2[2] BY <1>1, <2>1
    <3> HIDE DEF q1, q2
    <3> QED BY <2>2, <3>1
  <2>4. a[Middle(r) + 1] \in Nat BY <1>0, <2>1
  <2>5. CASE a[Middle(r) + 1] >= x
    <3>1. f[r] = f[q1] BY <1>0, <1>1, <1>2, <1>4, <2>5
    <3>2. f[q1] \in Int /\ r[1] <= f[q1] /\ f[q1] <= Middle(r)
      BY <2>3 DEF SaysOfLast
    <3>3. Middle(r) + 1 \in r[1] + 1 .. r[2] BY <1>1, <2>1
    <3>4. ~(a[Middle(r) + 1] < x) BY <2>4, <2>5
    <3> HIDE DEF f, q1, q2
    <3>5. f[r] \in Int /\ r[1] <= f[r] /\ f[r] <= r[2] /\ f[r] # r[2]
      <4>1. /\ r[1] \in Int /\ r[2] \in Int /\ Middle(r) \in Int
            /\ Middle(r) < r[2]
        BY <1>1, <2>1
      <4>2. f[r] \in Int /\ r[1] <= f[r] /\ f[r] <= Middle(r) BY <3>1, <3>2
      <4> QED BY <4>1, <4>2
    <3>6. ~(\A i \in r[1] + 1 .. r[2] : a[i] < x) BY <3>3, <3>4
    <3> QED BY <3>5, <3>6 DEF SaysOfLast, f
  <2>6. CASE a[Middle(r) + 1] < x
    <3>1. f[r] = f[q2] BY <1>0, <1>1, <1>2, <1>4, <2>4, <2>6
    <3>2. /\ f[q2] \in Int /\ Middle(r) + 1 <= f[q2] /\ f[q2] <= r[2]
          /\ Middle(r) + 1 < r[2] /\ f[q2] = r[2] => a[r[2]] < x
          /\ (\A i \in Middle(r) + 2 .. r[2] : a[i] < x) => f[q2] = r[2]
      <4>1. q2[1] = Middle(r) + 1 /\ q2[2] = r[2] OBVIOUS
      <4>2. Middle(r) + 1 + 1 = Middle(r) + 2 BY <2>1
      <4> HIDE DEF q2
      <4> QED BY <2>3, <4>1, <4>2 DEF SaysOfLast
    <3> HIDE DEF f, q1, q2
    <3>3. ASSUME f[r] = r[2] PROVE a[r[2]] < x
      <4>1. CASE Middle(r) + 1 < r[2] BY <3>1, <3>2, <3>3, <4>1
      <4>2. CASE Middle(r) + 1 = r[2] BY <2>6, <4>2
      <4> QED BY <1>1, <2>1, <4>1, <4>2
    <3>4. ASSUME \A i \in r[1] + 1 .. r[2] : a[i] < x PROVE f[r] = r[2]
      <4>1. ASSUME NEW i \in Middle(r) + 2 .. r[2] PROVE i \in r[1] + 1 .. r[2]
        <5>1. r[1] \in Int /\ r[2] \in Int /\ Middle(r) \in Int /\ r[1] <= Middle(r)
          BY <1>1, <2>1
        <5> QED BY <5>1
      <4>2. \A i \in Middle(r) + 2 .. r[2] : a[i] < x BY <3>4, <4>1
      <4> QED BY <3>1, <3>2, <4>2
    <3>5. f[r] \in Int /\ r[1] <= f[r] /\ f[r] <= r[2]
      <4>1. r[1] \in Int /\ Middle(r) \in Int /\ r[1] <= Middle(r) BY <1>1, <2>1
      <4>2. f[q2] \in Int /\ Middle(r) + 1 <= f[q2] /\ f[q2] <= r[2] BY <3>2
      <4>3. r[2] \in Int BY <1>1
      <4>4. r[1] <= f[q2] BY <4>1, <4>2
      <4> QED BY <3>1, <4>2, <4>4
    <3> QED BY <3>3, <3>4, <3>5 DEF SaysOfLast, f
  <2> QED BY <2>4, <2>5, <2>6
<1> QED BY <1>1, <1>3, <1>4

\* What the binary search says of the last element of any range, sorted or not:
\* a shortest range of which it did not would contradict SearchStep.
LEMMA SearchSays ==
    ASSUME NEW a \in Seq(Nat), NEW x \in Nat, NEW r \in Ranges(a), r[1] <= r[2]
    PROVE  SaysOfLast(a, x, r)
<1>0. Len(a) \in Nat BY LenProperties
<1> DEFINE wrong == {q \in Ranges(a) : q[1] <= q[2] /\ ~SaysOfLast(a, x, q)}
           T == {q[2] - q[1] : q \in wrong}
<1> SUFFICES ASSUME T # {} PROVE FALSE
  OBVIOUS
<1>1. T \in SUBSET Nat BY <1>0 DEF Ranges
<1>2. PICK k \in T : \A j \in T : k <= j
  <2> HIDE DEF T
  <2> QED BY <1>1, LeastNatural
<1>3. PICK q \in wrong : k = q[2] - q[1] BY <1>2
<1>4. ASSUME NEW p \in Ranges(a), p[1] <= p[2], p[2] - p[1] < q[2] - q[1]
      PROVE  SaysOfLast(a, x, p)
  <2>1. p[2] - p[1] \notin T
    <3>1. p[1] \in Int /\ p[2] \in Int /\ q[1] \in Int /\ q[2] \in Int
      BY <1>0, <1>3 DEF Ranges
    <3>2. ~(k <= p[2] - p[1]) BY <1>3, <1>4, <3>1
    <3> HIDE DEF T
    <3> QED BY <1>2, <3>2
  <2> QED BY <1>4, <2>1
<1>5. SaysOfLast(a, x, q) BY <1>3, <1>4, SearchStep
<1> QED BY <1>3, <1>5

\* The test for nodes already traversed: a node that passes it is greater
\* than the last of the list; one that is greater than all passes it.
LEMMA SearchStringsSays ==
    ASSUME NEW a \in Seq(Nat), NEW x \in Nat, a # <<>>
    PROVE  /\ SearchStrings(a, x) = Len(a) => a[Len(a)] < x
           /\ (\A i \in 1 .. Len(a) : a[i] < x) => SearchStrings(a, x) = Len(a)
<1> DEFINE r == <<0, Len(a)>>
<1>1. Len(a) \in Nat /\ Len(a) > 0 BY LenProperties, EmptySeq
<1>2. SearchStrings(a, x) = Search(a, x)[r]
  BY Zenon DEF SearchStrings, Search, Halved, Halve, Ranges
<1>3. r \in Ranges(a) /\ r[1] <= r[2] BY <1>1 DEF Ranges
<1>4. SaysOfLast(a, x, r)
  <2> HIDE DEF r
  <2> QED BY <1>3, SearchSays
<1> QED BY <1>1, <1>2, <1>4 DEF SaysOfLast

-----------------------------------------------------------------------------
(* The inductive invariant.                                                 *)

\* Names grow from each hop to the one after the next, and so on.
HopsSorted ==
    \A i, k \in 1 .. Len(Hops) : i < k /\ (k - i) % 2 = 0 => Hops[i] < Hops[k]
HopsDiffer == \A k \in 1 .. Len(Hops) : k > 1 => Hops[k - 1] # Hops[k]

\* Who has the tar does not send the client on.
TraversedLackData == \A k \in 1 .. Len(traversed) : traversed[k] \notin holding

\* A client that was sent on for a created file was sent to where it is.
CreatedIsReached ==
    /\ EveryoneKnown /\ Maglev[Node] \in holding /\ indexed = {} /\ traversed # <<>>
    => at \in holding

RedirectsInv ==
    /\ TypeOK
    /\ pc = "idle" => traversed = <<>>
    /\ HopsSorted /\ HopsDiffer
    /\ TraversedLackData
    /\ CreatedIsReached /\ CreatedFileIsFound
    /\ LastCopyIsFound

\* The chain's hops, and how a redirection makes it longer.
LEMMA HopsAppend ==
    ASSUME traversed \in Seq(Node), at \in Node, NEW n \in Node,
           traversed' = Append(traversed, at), at' = n
    PROVE  /\ Len(traversed) \in Nat /\ Len(Hops) = Len(traversed) + 1
           /\ Hops \in Seq(Node) /\ \A i \in 1 .. Len(Hops) : Hops[i] \in Node
           /\ Hops[Len(Hops)] = at
           /\ \A i \in 1 .. Len(traversed) : Hops[i] = traversed[i]
           /\ traversed' = Hops
           /\ Len(Hops') = Len(traversed) + 2
           /\ \A i \in 1 .. Len(Hops) : Hops'[i] = Hops[i]
           /\ Hops'[Len(Hops')] = n
BY AppendProperties, LenProperties, ElementOfSeq DEF Hops

\* A node that is not traversed already is greater than the last node the
\* client was sent on from; one greater than all is not traversed.
LEMMA NotTraversedSays ==
    ASSUME traversed \in Seq(Node), at \in Node, NEW n \in Node
    PROVE  /\ ~NodeAlreadyTraversed(n) /\ traversed # <<>> => traversed[Len(traversed)] < n
           /\ at < n /\ (\A k \in 1 .. Len(traversed) : traversed[k] < n)
                => ~NodeAlreadyTraversed(n)
<1> DEFINE a == TraversedNodes
           m == Len(traversed)
<1>1. m \in Nat BY LenProperties
<1>2. <<at>> \in Seq(Node) /\ Len(<<at>>) = 1 /\ <<at>>[1] = at OBVIOUS
<1>3. /\ a \in Seq(Node) /\ Len(a) = m + 1 /\ a[1] = at
      /\ \A k \in 1 .. m : a[k + 1] = traversed[k]
  BY <1>1, <1>2, ConcatProperties DEF TraversedNodes
<1>4. a \in Seq(Nat) /\ n \in Nat /\ a # <<>>
  <2>1. a \in Seq(Nat)
    <3> HIDE DEF a
    <3> QED BY <1>3, NodeAssumption, SeqMonotonic
  <2>2. a # <<>> BY <1>1, <1>3
  <2> QED BY <2>1, <2>2, NodeAssumption
<1> HIDE DEF a, m
<1>5. /\ ~NodeAlreadyTraversed(n) => a[Len(a)] < n
      /\ (\A k \in 1 .. Len(a) : a[k] < n) => ~NodeAlreadyTraversed(n)
  BY <1>4, SearchStringsSays DEF NodeAlreadyTraversed, a
<1>6. traversed # <<>> => m \in 1 .. m /\ a[Len(a)] = traversed[m]
  BY <1>1, <1>3, EmptySeq DEF m
<1>7. ASSUME at < n, \A k \in 1 .. m : traversed[k] < n, NEW k \in 1 .. Len(a)
      PROVE  a[k] < n
  <2>1. CASE k = 1 BY <1>3, <1>7, <2>1
  <2>2. CASE k # 1
    <3>1. k - 1 \in 1 .. m /\ k = (k - 1) + 1 BY <1>1, <1>3, <2>2
    <3>2. a[(k - 1) + 1] = traversed[k - 1] BY <1>3, <3>1
    <3> QED BY <1>7, <3>1, <3>2
  <2> QED BY <2>1, <2>2
<1> QED BY <1>5, <1>6, <1>7 DEF m

\* A redirection from at to n keeps the invariant, if n is another node that
\* is greater than the last the client was sent on from, if at lacks the data,
\* and if a created file leads to a node that has it.
LEMMA RedirectionKeeps ==
    ASSUME RedirectsInv, pc = "serving", NEW n \in Node, n # at,
           RedirectToNode(n), at \notin holding,
           traversed # <<>> => traversed[Len(traversed)] < n,
           EveryoneKnown /\ Maglev[Node] \in holding /\ indexed = {} => n \in holding
    PROVE  RedirectsInv'
<1> USE DEF RedirectsInv
<1>0. traversed \in Seq(Node) /\ at \in Node BY DEF TypeOK
<1>1. /\ traversed' = Append(traversed, at) /\ at' = n /\ pc' = "redirected"
      /\ UNCHANGED <<shard, writer, indexed, holding, nodes, changes, calm>>
  BY DEF RedirectToNode, placement, topology
<1> DEFINE m == Len(traversed)
<1>2. /\ m \in Nat /\ Len(Hops) = m + 1
      /\ \A i \in 1 .. m + 1 : Hops[i] \in Nat
      /\ Hops[m + 1] = at
      /\ \A i \in 1 .. m : Hops[i] = traversed[i]
      /\ traversed' = Hops /\ Hops \in Seq(Node)
      /\ Len(Hops') = m + 2
      /\ \A i \in 1 .. m + 1 : Hops'[i] = Hops[i]
      /\ Hops'[m + 2] = n
  BY <1>0, <1>1, HopsAppend, NodeAssumption
<1>3. TypeOK' BY <1>0, <1>1, <1>2, NodeAssumption DEF TypeOK
<1>4. HopsDiffer'
  <2> SUFFICES ASSUME NEW k \in 1 .. m + 2, k > 1 PROVE Hops'[k - 1] # Hops'[k]
    BY <1>2 DEF HopsDiffer
  <2>1. CASE k = m + 2
    BY <1>2, <2>1
  <2>2. CASE k # m + 2
    <3>1. k \in 1 .. m + 1 /\ k - 1 \in 1 .. m + 1 BY <1>2, <2>2
    <3>2. Hops[k - 1] # Hops[k] BY <1>2, <3>1 DEF HopsDiffer
    <3> QED BY <1>2, <3>1, <3>2
  <2> QED BY <2>1, <2>2
<1>5. HopsSorted'
  <2> SUFFICES ASSUME NEW i \in 1 .. m + 2, NEW k \in 1 .. m + 2, i < k, (k - i) % 2 = 0
               PROVE  Hops'[i] < Hops'[k]
    BY <1>2 DEF HopsSorted
  <2>1. i \in 1 .. m + 1 /\ Hops'[i] = Hops[i] BY <1>2
  <2>2. CASE k # m + 2
    <3>1. k \in 1 .. m + 1 /\ Hops'[k] = Hops[k] BY <1>2, <2>2
    <3> QED BY <1>2, <2>1, <3>1 DEF HopsSorted
  <2>3. CASE k = m + 2
    <3>1. i <= m /\ m \in 1 .. m + 1 BY <1>2, <2>3
    <3>2. Hops[m] < n
      <4>1. traversed # <<>> BY <1>2, <3>1
      <4>2. traversed[m] < n BY <4>1
      <4>3. m \in 1 .. m BY <1>2, <3>1
      <4>4. Hops[m] = traversed[m] BY <1>2, <4>3
      <4> QED BY <4>2, <4>4
    <3>3. CASE i = m
      <4>1. Hops'[i] = Hops[m] BY <2>1, <3>3
      <4>2. Hops'[k] = n BY <1>2, <2>3
      <4> QED BY <3>2, <4>1, <4>2
    <3>4. CASE i < m
      <4>1. (m - i) % 2 = 0 BY <1>2, <2>3, <3>4
      <4>2. Hops[i] < Hops[m] BY <1>2, <2>1, <3>1, <3>4, <4>1 DEF HopsSorted
      <4>3. Hops[i] \in Nat /\ Hops[m] \in Nat /\ n \in Nat
        BY <1>2, <2>1, <3>1, NodeAssumption
      <4> QED BY <1>2, <2>1, <2>3, <3>2, <4>2, <4>3
    <3> QED BY <1>2, <3>1, <3>3, <3>4
  <2> QED BY <2>2, <2>3
<1>6. TraversedLackData'
  <2> SUFFICES ASSUME NEW k \in 1 .. m + 1 PROVE Hops[k] \notin holding
    BY <1>1, <1>2 DEF TraversedLackData
  <2>1. CASE k = m + 1 BY <1>2, <2>1
  <2>2. CASE k # m + 1
    <3>1. k \in 1 .. m BY <1>2, <2>2
    <3> QED BY <1>2, <3>1 DEF TraversedLackData
  <2> QED BY <2>1, <2>2
<1>7. CreatedIsReached' BY <1>1 DEF CreatedIsReached, EveryoneKnown
<1>8. CreatedFileIsFound' /\ LastCopyIsFound'
  BY <1>1 DEF CreatedFileIsFound, LastCopyIsFound
<1> QED BY <1>1, <1>3, <1>4, <1>5, <1>6, <1>7, <1>8

\* A step of the client or an answer keeps it, if the answer is no false one.
LEMMA ReplyKeeps ==
    ASSUME RedirectsInv, pc # "idle", NEW a \in Answer \cup {"serving"},
           Reply(a),
           a \in {"notFound", "noData"} => CreatedFileIsFound' /\ LastCopyIsFound'
    PROVE  RedirectsInv'
<1> USE DEF RedirectsInv
<1>1. /\ pc' = a
      /\ UNCHANGED <<shard, writer, indexed, holding, nodes, changes, calm, at, traversed>>
  BY DEF Reply, placement, topology
<1>2. TypeOK' BY <1>1 DEF TypeOK, Answer
<1>3. HopsSorted' /\ HopsDiffer' /\ TraversedLackData'
  BY <1>1 DEF HopsSorted, HopsDiffer, TraversedLackData, Hops
<1>4. CreatedIsReached' BY <1>1 DEF CreatedIsReached, EveryoneKnown
<1>5. CreatedFileIsFound' /\ LastCopyIsFound'
  BY <1>1 DEF CreatedFileIsFound, LastCopyIsFound, EveryoneKnown
<1>6. pc' # "idle" BY <1>1 DEF Answer
<1> QED BY <1>2, <1>3, <1>4, <1>5, <1>6

\* While all nodes know each other the node that serves the request sends a
\* client to the responsible node, unless it is that node.
LEMMA ResponsibleNode ==
    ASSUME TypeOK, at \in Node
    PROVE  /\ GetNodeForObject(at) # None =>
                 GetNodeForObject(at) \in nodes[at] /\ GetNodeForObject(at) \in Node
           /\ EveryoneKnown =>
                 GetNodeForObject(at) = IF Maglev[Node] = at THEN None ELSE Maglev[Node]
<1>1. nodes[at] \subseteq Node BY DEF TypeOK
<1>2. nodes[at] \cup {at} \in DOMAIN Maglev BY <1>1, MaglevAssumption
<1>3. Maglev[nodes[at] \cup {at}] \in nodes[at] \cup {at} BY <1>2, MaglevAssumption
<1>4. GetNodeForObject(at) # None =>
          GetNodeForObject(at) \in nodes[at] /\ GetNodeForObject(at) \in Node
  BY <1>1 DEF GetNodeForObject
<1>5. ASSUME EveryoneKnown
      PROVE  GetNodeForObject(at) = IF Maglev[Node] = at THEN None ELSE Maglev[Node]
  <2>1. nodes[at] = Node \ {at} /\ nodes[at] \cup {at} = Node
    BY <1>5 DEF EveryoneKnown
  <2> QED BY <1>3, <2>1 DEF GetNodeForObject
<1> QED BY <1>4, <1>5

\* A node answers the request, or sends the client on as RedirectionKeeps
\* allows.
LEMMA ServeKeeps ==
    ASSUME RedirectsInv, Serve
    PROVE  RedirectsInv'
<1> USE DEF RedirectsInv
<1>0. /\ pc = "serving" /\ at \in Node /\ traversed \in Seq(Node) /\ writer \in Node
      /\ \A n \in nodes[at] : n \in Node /\ n # at
      /\ holding \cap indexed = {} /\ indexed \subseteq Node
  BY DEF Serve, DistributeRequest, NotFound, ReturnData, RedirectToWriter,
         RedirectInShard, NoData, LacksData, TypeOK
<1>1. CASE DistributeRequest
  <2> DEFINE n == GetNodeForObject(at)
  <2>1. n \in nodes[at] /\ n \in Node /\ n # at
    BY <1>0, <1>1, ResponsibleNode DEF DistributeRequest
  <2>2. EveryoneKnown => n = Maglev[Node]
    BY <1>0, <1>1, <2>1, ResponsibleNode DEF DistributeRequest
  <2>3. at \notin holding BY <1>1 DEF DistributeRequest, Lists
  <2>4. traversed = <<>> /\ RedirectToNode(n) BY <1>1 DEF DistributeRequest
  <2> HIDE DEF n
  <2> QED BY <1>0, <2>1, <2>2, <2>3, <2>4, RedirectionKeeps
<1>2. CASE NotFound
  <2>1. at \notin indexed \cup holding BY <1>2 DEF NotFound, Lists
  <2>2. Reply("notFound") BY <1>2 DEF NotFound
  <2>3. ~(EveryoneKnown /\ Maglev[Node] \in holding /\ indexed = {})
    <3> SUFFICES ASSUME EveryoneKnown, Maglev[Node] \in holding, indexed = {} PROVE FALSE
      OBVIOUS
    <3>1. CASE traversed # <<>> BY <2>1, <3>1 DEF CreatedIsReached
    <3>2. CASE GetNodeForObject(at) = None
      <4>1. Maglev[Node] \in Node BY DEF TypeOK
      <4>2. Maglev[Node] = at BY <1>0, <3>2, <4>1, ResponsibleNode, NodeAssumption
      <4> QED BY <2>1, <4>2
    <3> QED BY <1>2, <3>1, <3>2 DEF NotFound
  <2>4. CreatedFileIsFound'
    BY <2>2, <2>3 DEF CreatedFileIsFound, EveryoneKnown, Reply, placement, topology
  <2>5. Node # indexed \cup holding BY <1>0, <2>1
  <2>6. LastCopyIsFound' BY <2>2, <2>5 DEF LastCopyIsFound, Reply, placement, topology
  <2> QED BY <1>0, <2>2, <2>4, <2>6, ReplyKeeps DEF Answer
<1>3. CASE ReturnData
  BY <1>0, <1>3, ReplyKeeps DEF ReturnData, Answer
<1>4. CASE RedirectToWriter
  <2>1. /\ writer \in nodes[at] /\ ~NodeAlreadyTraversed(writer)
        /\ at \in indexed /\ RedirectToNode(writer)
    BY <1>4 DEF RedirectToWriter, LacksData, WriterOnline
  <2>2. traversed # <<>> => traversed[Len(traversed)] < writer
    BY <1>0, <2>1, NotTraversedSays
  <2> QED BY <1>0, <2>1, <2>2, RedirectionKeeps
<1>5. CASE RedirectInShard
  <2>1. PICK n \in OthersInShard : RedirectToNode(n) BY <1>5 DEF RedirectInShard
  <2>2. n \in nodes[at] /\ ~NodeAlreadyTraversed(n) BY <2>1 DEF OthersInShard
  <2>3. at \in indexed BY <1>5 DEF RedirectInShard, LacksData
  <2>4. traversed # <<>> => traversed[Len(traversed)] < n
    BY <1>0, <2>2, NotTraversedSays
  <2> QED BY <1>0, <2>1, <2>2, <2>3, <2>4, RedirectionKeeps
<1>6. CASE NoData
  <2>1. at \in indexed /\ OthersInShard = {} /\ Reply("noData")
    BY <1>6 DEF NoData, LacksData
  <2>2. CreatedFileIsFound'
    BY <2>1 DEF CreatedFileIsFound, Reply, placement, topology
  <2> DEFINE last == CHOOSE n \in Node : \A m \in Node : m <= n
  <2>3. last \in Node /\ \A m \in Node : m <= last
    BY <1>0, GreatestOfFinite, NodeAssumption
  <2>4. ~(EveryoneKnown /\ last \in holding /\ shard[last] = shard[writer])
    <3> SUFFICES ASSUME EveryoneKnown, last \in holding, shard[last] = shard[writer]
                 PROVE  FALSE
      OBVIOUS
    <3> HIDE DEF last
    <3>1. last # at BY <1>0, <2>1
    <3>2. at < last BY <1>0, <2>3, <3>1, NodeAssumption
    <3>3. ASSUME NEW k \in 1 .. Len(traversed) PROVE traversed[k] < last
      <4>1. traversed[k] \in Node BY <1>0, ElementOfSeq
      <4>2. traversed[k] # last BY DEF TraversedLackData
      <4>3. traversed[k] \in Nat /\ last \in Nat BY <2>3, <4>1, NodeAssumption
      <4>4. traversed[k] <= last BY <2>3, <4>1
      <4> QED BY <4>2, <4>3, <4>4
    <3>4. ~NodeAlreadyTraversed(last) BY <1>0, <2>3, <3>2, <3>3, NotTraversedSays
    <3>5. last \in nodes[at] BY <1>0, <2>3, <3>1 DEF EveryoneKnown
    <3>6. last \in OthersInShard BY <3>4, <3>5 DEF OthersInShard
    <3> QED BY <2>1, <3>6
  <2>5. LastCopyIsFound'
    BY <2>1, <2>4 DEF LastCopyIsFound, EveryoneKnown, Reply, placement, topology
  <2> QED BY <1>0, <2>1, <2>2, <2>5, ReplyKeeps DEF Answer
<1> QED BY <1>1, <1>2, <1>3, <1>4, <1>5, <1>6 DEF Serve

\* A change of the topology ends the calm of a request that is under way.
LEMMA UpdateKeeps ==
    ASSUME RedirectsInv, NEW n \in Node, NEW S \in SUBSET (Node \ {n}), UpdateNodes(n, S)
    PROVE  RedirectsInv'
<1> USE DEF RedirectsInv
<1>1. /\ changes < MaxChanges /\ pc \notin Answer
      /\ nodes' = [nodes EXCEPT ![n] = S] /\ changes' = changes + 1
      /\ calm' = (calm /\ pc = "idle")
      /\ UNCHANGED <<shard, writer, indexed, holding, pc, at, traversed>>
  BY DEF UpdateNodes, placement
<1>2. TypeOK' BY <1>1, BoundAssumption DEF TypeOK
<1>3. HopsSorted' /\ HopsDiffer' /\ TraversedLackData'
  BY <1>1 DEF HopsSorted, HopsDiffer, TraversedLackData, Hops
<1>4. CreatedIsReached' BY <1>1 DEF CreatedIsReached, EveryoneKnown
<1>5. CreatedFileIsFound' /\ LastCopyIsFound'
  BY <1>1 DEF CreatedFileIsFound, LastCopyIsFound, Answer
<1> QED BY <1>1, <1>2, <1>3, <1>4, <1>5

\* A read begins with an empty chain.
LEMMA SendKeeps ==
    ASSUME RedirectsInv, NEW n \in Node, Send(n)
    PROVE  RedirectsInv'
<1> USE DEF RedirectsInv
<1>1. /\ pc = "idle" /\ pc' = "serving" /\ at' = n /\ traversed = <<>>
      /\ UNCHANGED <<shard, writer, indexed, holding, nodes, changes, calm, traversed>>
  BY DEF Send, placement, topology
<1>2. TypeOK' BY <1>1, NodeAssumption DEF TypeOK
<1>3. Hops' = <<n>>
  <2>1. Append(<<>>, n) = <<n>> OBVIOUS
  <2> QED BY <1>1, <2>1 DEF Hops
<1>4. Len(Hops') = 1 BY <1>3
<1>5. HopsSorted' /\ HopsDiffer' /\ TraversedLackData'
  <2>1. Len(traversed') = 0 BY <1>1
  <2> QED BY <1>4, <2>1 DEF HopsSorted, HopsDiffer, TraversedLackData
<1>6. CreatedIsReached' /\ CreatedFileIsFound' /\ LastCopyIsFound'
  BY <1>1 DEF CreatedIsReached, CreatedFileIsFound, LastCopyIsFound
<1> QED BY <1>1, <1>2, <1>5, <1>6

\* Any placement is an initial state.
LEMMA InitRedirects == Init => RedirectsInv
<1> SUFFICES ASSUME Init PROVE RedirectsInv
  OBVIOUS
<1>1. TypeOK BY NodeAssumption, BoundAssumption DEF Init, TypeOK
<1>2. traversed = <<>> /\ Len(traversed) = 0 /\ pc = "idle" BY DEF Init
<1>3. Len(Hops) = 1
  <2>1. Append(<<>>, at) = <<at>> OBVIOUS
  <2> QED BY <1>2, <2>1 DEF Hops
<1>4. HopsSorted /\ HopsDiffer /\ TraversedLackData
  BY <1>2, <1>3 DEF HopsSorted, HopsDiffer, TraversedLackData
<1>5. CreatedIsReached /\ CreatedFileIsFound /\ LastCopyIsFound
  BY <1>2 DEF CreatedIsReached, CreatedFileIsFound, LastCopyIsFound
<1> QED BY <1>1, <1>2, <1>4, <1>5 DEF RedirectsInv

\* The inductive invariant holds, for any placement and any changes.
THEOREM RedirectsInvariance == Spec => []RedirectsInv
<1>1. RedirectsInv /\ [Next]_vars => RedirectsInv'
  <2> SUFFICES ASSUME RedirectsInv, [Next]_vars PROVE RedirectsInv'
    OBVIOUS
  <2>1. ASSUME NEW n \in Node, Send(n) PROVE RedirectsInv'
    BY <2>1, SendKeeps
  <2>2. CASE Serve BY <2>2, ServeKeeps
  <2>3. CASE Follow
    <3>1. pc # "idle" /\ Reply("serving") BY <2>3 DEF Follow, Reply
    <3> QED BY <3>1, ReplyKeeps
  <2>4. CASE FollowFails
    <3>1. pc # "idle" /\ Reply("unreachable") BY <2>4 DEF FollowFails
    <3> QED BY <3>1, ReplyKeeps DEF Answer
  <2>5. ASSUME NEW n \in Node, NEW S \in SUBSET (Node \ {n}), UpdateNodes(n, S)
        PROVE  RedirectsInv'
    BY <2>5, UpdateKeeps
  <2>6. CASE UNCHANGED vars
    BY <2>6 DEF vars, placement, topology, RedirectsInv, TypeOK, HopsSorted, HopsDiffer,
                TraversedLackData, CreatedIsReached, CreatedFileIsFound, LastCopyIsFound,
                EveryoneKnown, Hops
  <2> QED BY <2>1, <2>2, <2>3, <2>4, <2>5, <2>6 DEF Next, Answered
<1> QED BY <1>1, InitRedirects, PTL DEF Spec

\* Every variable keeps its type.
THEOREM RedirectsTypeCorrectness == Spec => []TypeOK
<1>1. RedirectsInv => TypeOK BY DEF RedirectsInv
<1> QED BY <1>1, RedirectsInvariance, PTL

\* A chain grows from each hop to the one after the next, whatever the indexes
\* say and however the topology changes (tryRedirectToNode).
THEOREM ChainsGrow == Spec => []HopsGrow
<1>1. RedirectsInv => HopsGrow
  <2> SUFFICES ASSUME RedirectsInv, NEW k \in 1 .. Len(Hops)
               PROVE  /\ k > 1 => Hops[k - 1] # Hops[k]
                      /\ k > 2 => Hops[k - 2] < Hops[k]
    BY DEF HopsGrow
  <2>1. HopsSorted /\ HopsDiffer BY DEF RedirectsInv
  <2>2. Len(Hops) \in Nat
    <3>1. traversed \in Seq(Node \cup {None}) /\ at \in Node \cup {None}
      BY SeqMonotonic DEF RedirectsInv, TypeOK
    <3> QED BY <3>1, AppendProperties, LenProperties DEF Hops
  <2>3. k > 1 => Hops[k - 1] # Hops[k] BY <2>1, <2>2 DEF HopsDiffer
  <2>4. ASSUME k > 2 PROVE Hops[k - 2] < Hops[k]
    <3>1. k - 2 \in 1 .. Len(Hops) /\ k - 2 < k /\ (k - (k - 2)) % 2 = 0
      BY <2>2, <2>4
    <3> QED BY <2>1, <3>1 DEF HopsSorted
  <2> QED BY <2>3, <2>4
<1> QED BY <1>1, RedirectsInvariance, PTL

\* A chain visits a node at most twice: once at an odd, once at an even place.
\* So net/http's client follows it to its end if it sends two requests for
\* each node there is (tryRedirectToNode, checkRedirect).
THEOREM ChainsEndInTime ==
    ASSUME 2 * Cardinality(Node) <= MaxRequests
    PROVE  Spec => []RedirectsEndInTime
<1>1. RedirectsInv => RedirectsEndInTime
  <2> SUFFICES ASSUME RedirectsInv, ~(Len(traversed) < MaxRequests) PROVE FALSE
    BY DEF RedirectsEndInTime
  <2> DEFINE N == Cardinality(Node)
             odd == [k \in 1 .. N + 1 |-> Hops[2 * k - 1]]
  <2>1. traversed \in Seq(Node) /\ Len(traversed) \in Nat
    BY LenProperties DEF RedirectsInv, TypeOK
  <2>2. N \in Nat BY FS_CardinalityType, NodeAssumption
  <2>3. Len(traversed) >= 2 * N BY <2>1, <2>2, BoundAssumption
  <2>4. at \in Node
    <3>1. CASE pc = "idle"
      <4>1. Len(traversed) = 0 BY <3>1 DEF RedirectsInv
      <4>2. N = 0 BY <2>2, <2>3, <4>1
      <4>3. Node = {} BY <4>2, FS_EmptySet, NodeAssumption
      <4>4. FALSE BY <4>3 DEF RedirectsInv, TypeOK
      <4> QED BY <4>4
    <3>2. CASE pc # "idle" BY <3>2 DEF RedirectsInv, TypeOK
    <3> QED BY <3>1, <3>2
  <2>5. Len(Hops) = Len(traversed) + 1 /\ \A i \in 1 .. Len(Hops) : Hops[i] \in Node
    BY <2>1, <2>4, AppendProperties, ElementOfSeq DEF Hops
  <2>6. \A k \in 1 .. N + 1 : 2 * k - 1 \in 1 .. Len(Hops)
    BY <2>1, <2>2, <2>3, <2>5
  <2>7. odd \in [1 .. N + 1 -> Node] BY <2>5, <2>6
  <2>8. PICK j, k \in 1 .. N + 1 : j # k /\ odd[j] = odd[k]
    <3>1. IsFiniteSet(1 .. N + 1) /\ Cardinality(1 .. N + 1) = N + 1
      <4>1. 1 \in Int /\ N + 1 \in Int /\ ~(1 > N + 1) /\ (N + 1) - 1 + 1 = N + 1
        BY <2>2
      <4> HIDE DEF N
      <4> QED BY <4>1, FS_Interval
    <3>2. Cardinality(Node) < Cardinality(1 .. N + 1) BY <2>2, <3>1
    <3> HIDE DEF odd, N
    <3> QED BY <2>7, <3>1, <3>2, FS_PigeonHole, NodeAssumption
  <2>9. Hops[2 * j - 1] = Hops[2 * k - 1] BY <2>8
  <2>10. ASSUME NEW l \in 1 .. N + 1, NEW h \in 1 .. N + 1, l < h
         PROVE  Hops[2 * l - 1] < Hops[2 * h - 1]
    <3>1. 2 * l - 1 < 2 * h - 1 /\ ((2 * h - 1) - (2 * l - 1)) % 2 = 0
      BY <2>2, <2>10
    <3> QED BY <2>6, <3>1 DEF RedirectsInv, HopsSorted
  <2>11. Hops[2 * j - 1] \in Nat /\ Hops[2 * k - 1] \in Nat
    BY <2>5, <2>6, NodeAssumption
  <2>12. j < k \/ k < j BY <2>2, <2>8
  <2> HIDE DEF odd, N
  <2> QED BY <2>9, <2>10, <2>11, <2>12
<1> QED BY <1>1, RedirectsInvariance, PTL

\* While all nodes know each other a created file is found through any node
\* (GetFileWithData, distributeRequestIfPossible).
THEOREM CreatedFilesAreFound == Spec => []CreatedFileIsFound
<1>1. RedirectsInv => CreatedFileIsFound BY DEF RedirectsInv
<1> QED BY <1>1, RedirectsInvariance, PTL

\* While all nodes know each other and list the file, the copy on the last
\* named node is found (tryRedirectToNode).
THEOREM LastCopiesAreFound == Spec => []LastCopyIsFound
<1>1. RedirectsInv => LastCopyIsFound BY DEF RedirectsInv
<1> QED BY <1>1, RedirectsInvariance, PTL
=============================================================================
