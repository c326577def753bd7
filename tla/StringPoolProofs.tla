-------------------------- MODULE StringPoolProofs --------------------------
(***************************************************************************)
(* Proofs about StringPool, for any number of pools, stores and strings.   *)
(***************************************************************************)
EXTENDS StringPool, SequenceTheorems, TLAPS

\* Reversing a list of stores keeps its elements and their number.
LEMMA ReverseStores ==
    ASSUME NEW s \in Seq(Stores)
    PROVE  /\ Reverse(s) \in Seq(Stores)
           /\ Len(Reverse(s)) = Len(s)
           /\ \A i \in 1 .. Len(s) : Reverse(s)[i] = s[Len(s) - i + 1]
           /\ Range(Reverse(s)) = Range(s)
<1>1. Len(s) \in Nat /\ DOMAIN s = 1 .. Len(s)
  BY LenProperties
<1>2. Reverse(s) = [i \in 1 .. Len(s) |-> s[(Len(s) - i) + 1]]
  BY DEF Reverse
<1>3. \A i \in 1 .. Len(s) : (Len(s) - i) + 1 \in 1 .. Len(s)
  BY <1>1
<1>4. \A i \in 1 .. Len(s) : s[(Len(s) - i) + 1] \in Stores
  BY <1>1, <1>3, ElementOfSeq
<1>5. Reverse(s) \in Seq(Stores) /\ Len(Reverse(s)) = Len(s)
  BY <1>1, <1>2, <1>4, IsASeq
<1>6. Range(Reverse(s)) = {s[(Len(s) - i) + 1] : i \in 1 .. Len(s)}
  BY <1>2 DEF Range
<1>7. Range(s) = {s[i] : i \in 1 .. Len(s)}
  BY <1>1 DEF Range
<1>8. \A i \in 1 .. Len(s) : s[i] = s[(Len(s) - ((Len(s) - i) + 1)) + 1]
  BY <1>1
<1>9. Range(Reverse(s)) = Range(s)
  BY <1>3, <1>6, <1>7, <1>8
<1> QED BY <1>2, <1>5, <1>9

\* The stores after a merge are those of the two pools.
LEMMA MergedStoresProperties ==
    ASSUME TypeOK, NEW p \in Pools, NEW other \in Pools
    PROVE  /\ MergedStores(p, other) \in Seq(Stores)
           /\ Range(MergedStores(p, other)) = StoresOf(p) \cup StoresOf(other)
<1>1. m_stores[p] \in Seq(Stores) /\ m_stores[other] \in Seq(Stores)
  BY DEF TypeOK
<1>2. /\ Reverse(m_stores[other]) \in Seq(Stores)
      /\ Range(Reverse(m_stores[other])) = Range(m_stores[other])
  BY <1>1, ReverseStores
<1> QED BY <1>1, <1>2, ConcatProperties, RangeConcatenation DEF MergedStores, StoresOf

\* Two lists without repetition that share no store make one without.
LEMMA MergedStoresOnce ==
    ASSUME TypeOK, OneOwner, NEW p \in Pools, NEW other \in Pools, p # other
    PROVE  LET s == MergedStores(p, other)
           IN  \A i, j \in 1 .. Len(s) : s[i] = s[j] => i = j
<1>1. PICK a, b, r, s :
        /\ a \in Seq(Stores) /\ b \in Seq(Stores) /\ r \in Seq(Stores)
        /\ a = m_stores[p] /\ b = m_stores[other] /\ r = Reverse(b)
        /\ s = MergedStores(p, other) /\ s = a \o r
  BY ReverseStores DEF TypeOK, MergedStores
<1>2. /\ Len(r) = Len(b)
      /\ \A i \in 1 .. Len(b) : r[i] = b[Len(b) - i + 1]
  BY <1>1, ReverseStores
<1>3. Len(a) \in Nat /\ Len(b) \in Nat
  BY <1>1, LenProperties
<1>4. /\ \A i, j \in 1 .. Len(a) : a[i] = a[j] => i = j
      /\ \A i, j \in 1 .. Len(b) : b[i] = b[j] => i = j
      /\ \A i \in 1 .. Len(a), j \in 1 .. Len(b) : a[i] # b[j]
  <2>1. Range(a) \cap Range(b) = {}
    BY <1>1 DEF OneOwner, StoresOf
  <2>2. Range(a) = {a[i] : i \in 1 .. Len(a)} /\ Range(b) = {b[i] : i \in 1 .. Len(b)}
    BY <1>1, RangeEquality
  <2>3. \A i \in 1 .. Len(a), j \in 1 .. Len(b) : a[i] # b[j]
    BY <2>1, <2>2
  <2> QED BY <1>1, <2>3 DEF OneOwner
<1>5. /\ Len(s) = Len(a) + Len(b)
      /\ \A i \in 1 .. Len(a) + Len(b) :
            s[i] = IF i <= Len(a) THEN a[i] ELSE r[i - Len(a)]
  <2>1. /\ Len(a \o r) = Len(a) + Len(r)
        /\ \A i \in 1 .. Len(a) + Len(r) :
              (a \o r)[i] = IF i <= Len(a) THEN a[i] ELSE r[i - Len(a)]
    BY ConcatProperties
  <2>2. \A i \in 1 .. Len(a) + Len(r) : s[i] = (a \o r)[i]
    BY <1>1
  <2>3. Len(s) = Len(a \o r)
    BY <1>1
  <2> QED BY <1>2, <2>1, <2>2, <2>3
<1>6. SUFFICES ASSUME NEW i \in 1 .. Len(a) + Len(b), NEW j \in 1 .. Len(a) + Len(b),
                      s[i] = s[j]
               PROVE  i = j
  BY <1>1, <1>5
<1> DEFINE at(k) == Len(b) - (k - Len(a)) + 1
<1>7. \A k \in 1 .. Len(a) + Len(b) :
          /\ k <= Len(a) => k \in 1 .. Len(a) /\ s[k] = a[k]
          /\ ~(k <= Len(a)) => at(k) \in 1 .. Len(b) /\ s[k] = b[at(k)]
  <2> TAKE k \in 1 .. Len(a) + Len(b)
  <2>1. CASE k <= Len(a)
    BY <1>3, <1>5, <2>1
  <2>2. CASE ~(k <= Len(a))
    <3>1. k - Len(a) \in 1 .. Len(b) /\ at(k) \in 1 .. Len(b)
      BY <1>3, <2>2
    <3>2. s[k] = r[k - Len(a)]
      BY <1>5, <2>2
    <3>3. r[k - Len(a)] = b[at(k)]
      BY <1>2, <3>1
    <3> QED BY <2>2, <3>1, <3>2, <3>3
  <2> QED BY <2>1, <2>2
<1>8. CASE i <= Len(a) /\ j <= Len(a)
  BY <1>4, <1>6, <1>7, <1>8
<1>9. CASE ~(i <= Len(a)) /\ ~(j <= Len(a))
  <2>1. at(i) = at(j)
    BY <1>4, <1>6, <1>7, <1>9
  <2> QED BY <1>3, <2>1
<1>10. CASE i <= Len(a) /\ ~(j <= Len(a))
  BY <1>4, <1>6, <1>7, <1>10
<1>11. CASE ~(i <= Len(a)) /\ j <= Len(a)
  BY <1>4, <1>6, <1>7, <1>11
<1> QED BY <1>8, <1>9, <1>10, <1>11

----------------------------------------------------------------------------
(* The inductive invariant. *)

\* There are no pools in the beginning.
LEMMA InitInv == Init => IInv
<1> SUFFICES ASSUME Init PROVE IInv
  OBVIOUS
<1>1. \A p \in Pools : m_stores[p] = <<>> /\ StoresOf(p) = {} /\ Len(m_stores[p]) = 0
  BY DEF Init, StoresOf, Range
<1>2. TypeOK
  BY DEF Init, TypeOK
<1>3. OneOwner /\ StoresAreMade
  BY <1>1 DEF Init, OneOwner, StoresAreMade
<1>4. ViewsAreBacked /\ OneViewPerString /\ StoredIsKnown
  BY <1>1 DEF Init, ViewsAreBacked, OneViewPerString, StoredIsKnown
<1> QED BY <1>2, <1>3, <1>4 DEF IInv

\* A pool that gets a store nobody had before, and no strings.
LEMMA NewImplInv ==
    ASSUME IInv, NEW p \in Pools, NewImpl(p), UNCHANGED handed, exists' \subseteq Pools
    PROVE  IInv'
<1>1. PICK s \in Stores \ made :
        /\ made' = made \cup {s}
        /\ m_stores' = [m_stores EXCEPT ![p] = <<s>>]
        /\ m_set' = [m_set EXCEPT ![p] = {}]
  BY DEF NewImpl
<1>2. <<s>> \in Seq(Stores) /\ Range(<<s>>) = {s} /\ Len(<<s>>) = 1
  BY DEF Range
<1>3. TypeOK'
  BY <1>1, <1>2 DEF IInv, TypeOK
<1>4. /\ StoresOf(p)' = {s} /\ m_set'[p] = {} /\ m_stores'[p] = <<s>>
      /\ \A q \in Pools \ {p} : /\ StoresOf(q)' = StoresOf(q)
                                /\ m_set'[q] = m_set[q]
                                /\ m_stores'[q] = m_stores[q]
  BY <1>1, <1>2 DEF IInv, TypeOK, StoresOf
<1>5. ViewsAreBacked' /\ OneViewPerString'
  BY <1>4 DEF IInv, ViewsAreBacked, OneViewPerString
<1>6. OneOwner'
  <2>1. \A q \in Pools : s \notin StoresOf(q)
    BY <1>1 DEF IInv, StoresAreMade
  <2> QED BY <1>2, <1>4, <2>1 DEF IInv, OneOwner
<1>7. StoredIsKnown' /\ StoresAreMade'
  <2>1. \A v \in handed : v.store # s
    BY <1>1 DEF IInv, StoresAreMade
  <2> QED BY <1>1, <1>4, <2>1 DEF IInv, StoredIsKnown, StoresAreMade, Known
<1> QED BY <1>3, <1>5, <1>6, <1>7 DEF IInv

\* A pool that loses what it has.
LEMMA DestroyInv ==
    ASSUME IInv, NEW p \in Pools, Destroy(p)
    PROVE  IInv'
<1>1. /\ m_stores'[p] = <<>> /\ m_set'[p] = {} /\ StoresOf(p)' = {}
      /\ Len(m_stores'[p]) = 0
      /\ \A q \in Pools \ {p} : /\ StoresOf(q)' = StoresOf(q)
                                /\ m_set'[q] = m_set[q]
                                /\ m_stores'[q] = m_stores[q]
      /\ UNCHANGED <<made, handed>>
  BY DEF IInv, TypeOK, Destroy, StoresOf, Range
<1>2. TypeOK'
  BY EmptySeq DEF IInv, TypeOK, Destroy
<1>3. ViewsAreBacked' /\ OneViewPerString' /\ StoredIsKnown' /\ StoresAreMade'
  BY <1>1 DEF IInv, ViewsAreBacked, OneViewPerString, StoredIsKnown, StoresAreMade, Known
<1>4. OneOwner'
  BY <1>1 DEF IInv, OneOwner
<1> QED BY <1>2, <1>3, <1>4 DEF IInv

\* A pool that gets what another one had.
LEMMA MoveConstructInv ==
    ASSUME IInv, NEW p \in Pools, NEW other \in Pools, MoveConstruct(p, other)
    PROVE  IInv'
<1>1. /\ p # other /\ UNCHANGED <<made, handed>>
      /\ m_stores'[p] = m_stores[other] /\ m_set'[p] = m_set[other]
      /\ m_stores'[other] = <<>> /\ m_set'[other] = {}
      /\ \A q \in Pools \ {p, other} : /\ m_set'[q] = m_set[q]
                                       /\ m_stores'[q] = m_stores[q]
  BY DEF IInv, TypeOK, MoveConstruct
<1>2. /\ StoresOf(p)' = StoresOf(other) /\ StoresOf(other)' = {}
      /\ Len(m_stores'[other]) = 0
      /\ \A q \in Pools \ {p, other} : StoresOf(q)' = StoresOf(q)
  BY <1>1 DEF StoresOf, Range
<1>3. TypeOK'
  BY EmptySeq DEF IInv, TypeOK, MoveConstruct
<1>4. ViewsAreBacked' /\ OneViewPerString' /\ StoredIsKnown' /\ StoresAreMade'
  BY <1>1, <1>2 DEF IInv, ViewsAreBacked, OneViewPerString, StoredIsKnown, StoresAreMade, Known
<1>5. OneOwner'
  BY <1>1, <1>2 DEF IInv, OneOwner
<1> QED BY <1>3, <1>4, <1>5 DEF IInv

\* Two pools that exchange what they have.
LEMMA SwapInv ==
    ASSUME IInv, NEW p \in Pools, NEW other \in Pools, Swap(p, other)
    PROVE  IInv'
<1>1. /\ UNCHANGED <<made, handed>>
      /\ m_stores'[p] = m_stores[other] /\ m_set'[p] = m_set[other]
      /\ m_stores'[other] = m_stores[p] /\ m_set'[other] = m_set[p]
      /\ \A q \in Pools \ {p, other} : /\ m_set'[q] = m_set[q]
                                       /\ m_stores'[q] = m_stores[q]
  BY DEF IInv, TypeOK, Swap
<1>2. /\ StoresOf(p)' = StoresOf(other) /\ StoresOf(other)' = StoresOf(p)
      /\ \A q \in Pools \ {p, other} : StoresOf(q)' = StoresOf(q)
  BY <1>1 DEF StoresOf
<1>3. TypeOK'
  BY DEF IInv, TypeOK, Swap
<1>4. ViewsAreBacked' /\ OneViewPerString' /\ StoredIsKnown' /\ StoresAreMade'
  BY <1>1, <1>2 DEF IInv, ViewsAreBacked, OneViewPerString, StoredIsKnown, StoresAreMade, Known
<1>5. OneOwner'
  BY <1>1, <1>2 DEF IInv, OneOwner
<1> QED BY <1>3, <1>4, <1>5 DEF IInv

\* A pool that gets the stores of another one behind its own, and the views of
\* the strings it does not know.
LEMMA MergeInv ==
    ASSUME IInv, NEW p \in Pools, NEW other \in Pools, Merge(p, other)
    PROVE  IInv'
<1>1. /\ p # other /\ UNCHANGED <<made, handed>> /\ TypeOK /\ OneOwner
      /\ m_stores'[p] = MergedStores(p, other) /\ m_set'[p] = MergedViews(p, other)
      /\ m_stores'[other] = <<>> /\ m_set'[other] = {}
      /\ \A q \in Pools \ {p, other} : /\ m_set'[q] = m_set[q]
                                       /\ m_stores'[q] = m_stores[q]
  BY DEF IInv, TypeOK, Merge
<1>2. /\ MergedStores(p, other) \in Seq(Stores)
      /\ StoresOf(p)' = StoresOf(p) \cup StoresOf(other)
  BY <1>1, MergedStoresProperties DEF StoresOf
<1>3. /\ StoresOf(other)' = {} /\ Len(m_stores'[other]) = 0
      /\ \A q \in Pools \ {p, other} : StoresOf(q)' = StoresOf(q)
  BY <1>1 DEF StoresOf, Range
<1>4. /\ m_set[p] \subseteq MergedViews(p, other)
      /\ \A v \in MergedViews(p, other) :
            v \in m_set[p] \/ (v \in m_set[other] /\ ~Known(p, v.str))
      /\ \A v \in m_set[other] : v \in MergedViews(p, other) \/ Known(p, v.str)
  BY DEF MergedViews, StringsOf, Known
<1>5. TypeOK'
  <2>1. MergedViews(p, other) \in SUBSET Views
    BY <1>4 DEF IInv, TypeOK
  <2> QED BY <1>1, <1>2, <2>1, EmptySeq DEF TypeOK, Merge
<1>6. ViewsAreBacked' /\ StoresAreMade'
  BY <1>1, <1>2, <1>3, <1>4 DEF IInv, ViewsAreBacked, StoresAreMade
<1>7. OneViewPerString'
  BY <1>1, <1>4 DEF IInv, OneViewPerString, Known
<1>8. StoredIsKnown'
  BY <1>1, <1>2, <1>3, <1>4 DEF IInv, StoredIsKnown, Known
<1>9. OneOwner'
  <2>1. \A i, j \in 1 .. Len(m_stores'[p]) : m_stores'[p][i] = m_stores'[p][j] => i = j
    BY <1>1, MergedStoresOnce
  <2> QED BY <1>1, <1>2, <1>3, <2>1 DEF OneOwner
<1> QED BY <1>5, <1>6, <1>7, <1>8, <1>9 DEF IInv

\* A string that is found, or a new one in the first store.
LEMMA InternInv ==
    ASSUME IInv, NEW p \in Pools, NEW str \in Strings, Intern(p, str)
    PROVE  IInv'
<1>1. UNCHANGED <<exists, m_stores, made>> /\ \A q \in Pools : StoresOf(q)' = StoresOf(q)
  BY DEF Intern, StoresOf
<1>2. CASE Known(p, str)
  <2>1. UNCHANGED <<m_set, handed>>
    BY <1>2 DEF IInv, TypeOK, Intern
  <2> QED
    BY <1>1, <2>1 DEF IInv, TypeOK, ViewsAreBacked, OneOwner, OneViewPerString,
      StoredIsKnown, StoresAreMade, Known
<1>3. CASE ~Known(p, str)
  <2> DEFINE v == View(Head(m_stores[p]), str)
  <2>1. Head(m_stores[p]) \in StoresOf(p) /\ Head(m_stores[p]) \in Stores
    BY <1>3, HeadTailProperties, RangeEquality, EmptySeq DEF IInv, TypeOK, Intern, StoresOf
  <2>2. v \in Views /\ v.store \in StoresOf(p) /\ v.str = str
    BY <2>1 DEF View, Views
  <2>3. /\ m_set'[p] = m_set[p] \cup {v} /\ handed' = handed \cup {v}
        /\ \A q \in Pools \ {p} : m_set'[q] = m_set[q]
    BY <1>3 DEF IInv, TypeOK, Intern
  <2>4. TypeOK'
    BY <1>1, <1>3, <2>2, <2>3 DEF IInv, TypeOK, Intern
  <2> HIDE DEF v
  <2>5. ViewsAreBacked'
    BY <1>1, <2>2, <2>3 DEF IInv, ViewsAreBacked
  <2>6. OneViewPerString'
    BY <1>3, <2>2, <2>3 DEF IInv, OneViewPerString, Known
  <2>7. StoresAreMade'
    BY <1>1, <2>2, <2>3 DEF IInv, StoresAreMade
  <2>8. StoredIsKnown'
    <3> SUFFICES ASSUME NEW q \in Pools, NEW w \in handed', w.store \in StoresOf(q)'
                 PROVE  Known(q, w.str)'
      BY DEF StoredIsKnown
    <3>1. CASE w = v
      <4>1. q = p
        BY <1>1, <2>2, <3>1 DEF IInv, OneOwner
      <4> QED BY <2>2, <2>3, <3>1, <4>1 DEF Known
    <3>2. CASE w \in handed
      BY <1>1, <2>3, <3>2 DEF IInv, StoredIsKnown, Known
    <3> QED BY <2>3, <3>1, <3>2
  <2>9. OneOwner'
    BY <1>1 DEF IInv, OneOwner
  <2> QED BY <2>4, <2>5, <2>6, <2>7, <2>8, <2>9 DEF IInv
<1> QED BY <1>2, <1>3

\* Every operation on any of the pools keeps it.
LEMMA NextInv == IInv /\ [Next]_vars => IInv'
<1> SUFFICES ASSUME IInv, [Next]_vars PROVE IInv'
  OBVIOUS
<1>1. ASSUME NEW p \in Pools, Construct(p) \/ Clear(p) PROVE IInv'
  <2>1. NewImpl(p) /\ UNCHANGED handed /\ exists' \subseteq Pools
    BY <1>1 DEF Construct, Clear, IInv, TypeOK
  <2> QED BY <2>1, NewImplInv
<1>2. CASE UNCHANGED vars
  BY <1>2 DEF vars, IInv, TypeOK, ViewsAreBacked, OneOwner, OneViewPerString,
    StoredIsKnown, StoresAreMade, Known, StoresOf
<1> QED
  BY <1>1, <1>2, DestroyInv, MoveConstructInv, SwapInv, MergeInv, InternInv DEF Next

\* The conjunction of the invariants of the pools is inductive.
THEOREM InductiveInvariant == Spec => []IInv
BY InitInv, NextInv, PTL DEF Spec

\* The sets and sequences of a pool hold what they should.
THEOREM TypeCorrect == Spec => []TypeOK
<1>1. IInv => TypeOK
  BY DEF IInv
<1> QED BY <1>1, InductiveInvariant, PTL

\* No pool ever returns a view into a store it does not hold.
THEOREM PoolsReturnLiveViews == Spec => []ViewsAreBacked
<1>1. IInv => ViewsAreBacked
  BY DEF IInv
<1> QED BY <1>1, InductiveInvariant, PTL

\* No store is freed twice: none has two owners.
THEOREM StoresHaveOneOwner == Spec => []OneOwner
<1>1. IInv => OneOwner
  BY DEF IInv
<1> QED BY <1>1, InductiveInvariant, PTL

\* A pool has one view of a string.
THEOREM StringsAreInternedOnce == Spec => []OneViewPerString
<1>1. IInv => OneViewPerString
  BY DEF IInv
<1> QED BY <1>1, InductiveInvariant, PTL

\* A pool knows all the strings that its stores hold.
THEOREM StoredStringsAreKnown == Spec => []StoredIsKnown
<1>1. IInv => StoredIsKnown
  BY DEF IInv
<1> QED BY <1>1, InductiveInvariant, PTL

\* Merging and swapping pools frees no store: what intern() has returned stays
\* valid until a pool is cleared or destroyed.
THEOREM NoReferenceIsInvalidated == Spec => ReferencesStayValid
<1>1. IInv /\ [Next]_vars => [exists' = exists /\ made' = made => LiveStores \subseteq LiveStores']_vars
  <2> SUFFICES ASSUME IInv, Next, exists' = exists, made' = made
               PROVE  LiveStores \subseteq LiveStores'
    BY DEF vars, LiveStores, StoresOf
  <2> SUFFICES ASSUME NEW q \in exists, NEW s \in StoresOf(q)
               PROVE  \E r \in exists : s \in StoresOf(r)'
    BY DEF LiveStores
  <2>1. q \in Pools
    BY DEF IInv, TypeOK
  <2>2. ASSUME NEW p \in Pools PROVE ~NewImpl(p) /\ ~Destroy(p)
    BY DEF NewImpl, Destroy, IInv, TypeOK
  <2>3. ASSUME NEW p \in Pools, NEW str \in Strings, Intern(p, str)
        PROVE  s \in StoresOf(q)'
    BY <2>3 DEF Intern, StoresOf
  <2>4. ASSUME NEW p \in Pools, NEW other \in Pools, Swap(p, other)
        PROVE  \E r \in exists : s \in StoresOf(r)'
    <3>1. {p, other} \subseteq exists
      BY <2>4 DEF Swap
    <3>2. CASE q = p
      BY <2>4, <3>1, <3>2 DEF Swap, StoresOf, IInv, TypeOK
    <3>3. CASE q = other
      BY <2>4, <3>1, <3>3 DEF Swap, StoresOf, IInv, TypeOK
    <3>4. CASE q \notin {p, other}
      BY <2>1, <2>4, <3>4 DEF Swap, StoresOf, IInv, TypeOK
    <3> QED BY <3>2, <3>3, <3>4
  <2>5. ASSUME NEW p \in Pools, NEW other \in Pools, Merge(p, other)
        PROVE  \E r \in exists : s \in StoresOf(r)'
    <3>1. p \in exists /\ p # other
      BY <2>5 DEF Merge
    <3>2. CASE q \in {p, other}
      <4>1. m_stores'[p] = MergedStores(p, other)
        BY <2>5, <3>1 DEF Merge, IInv, TypeOK
      <4>2. StoresOf(p)' = StoresOf(p) \cup StoresOf(other)
        BY <4>1, MergedStoresProperties DEF StoresOf, IInv
      <4> QED BY <3>1, <3>2, <4>2
    <3>3. CASE q \notin {p, other}
      BY <2>1, <2>5, <3>3 DEF Merge, StoresOf, IInv, TypeOK
    <3> QED BY <3>2, <3>3
  <2>6. ASSUME NEW p \in Pools, NEW other \in Pools PROVE ~MoveConstruct(p, other)
    BY DEF MoveConstruct
  <2> QED BY <2>2, <2>3, <2>4, <2>5, <2>6 DEF Next, Construct, Clear
<1> QED BY <1>1, InductiveInvariant, PTL DEF Spec, ReferencesStayValid

\* A pool that keeps its stores keeps returning the same views.
THEOREM AddressesStayTheSame == Spec => AddressesAreStable
<1> DEFINE Stable == \A p \in exists \cap exists' :
               StoresOf(p) # {} /\ StoresOf(p) \subseteq StoresOf(p)'
                   => m_set[p] \subseteq m_set'[p]
<1>1. IInv /\ [Next]_vars => [Stable]_vars
  <2> SUFFICES ASSUME IInv, Next,
                      NEW q \in exists \cap exists', NEW s \in StoresOf(q),
                      StoresOf(q) \subseteq StoresOf(q)'
               PROVE  m_set[q] \subseteq m_set'[q]
    OBVIOUS
  <2>1. q \in Pools
    BY DEF IInv, TypeOK
  <2>2. ASSUME NEW p \in Pools, Construct(p) \/ Destroy(p) \/ Clear(p)
        PROVE  m_set[q] \subseteq m_set'[q]
    <3>1. CASE p = q
      <4>1. PICK t \in Stores \ made : m_stores' = [m_stores EXCEPT ![q] = <<t>>]
        BY <2>2, <3>1 DEF Construct, Destroy, Clear, NewImpl
      <4>2. StoresOf(q)' = {t}
        BY <2>1, <4>1 DEF IInv, TypeOK, StoresOf, Range
      <4> QED BY <2>1, <4>2 DEF IInv, StoresAreMade
    <3>2. CASE p # q
      BY <2>1, <2>2, <3>2 DEF Construct, Destroy, Clear, NewImpl, IInv, TypeOK
    <3> QED BY <3>1, <3>2
  <2>3. ASSUME NEW p \in Pools, NEW str \in Strings, Intern(p, str)
        PROVE  m_set[q] \subseteq m_set'[q]
    BY <2>1, <2>3 DEF Intern, IInv, TypeOK
  <2>4. ASSUME NEW p \in Pools, NEW other \in Pools, Swap(p, other)
        PROVE  m_set[q] \subseteq m_set'[q]
    <3>1. CASE q = p /\ p # other
      <4>1. StoresOf(q)' = StoresOf(other)
        BY <2>4, <3>1 DEF Swap, StoresOf, IInv, TypeOK
      <4> QED BY <3>1, <4>1 DEF IInv, OneOwner
    <3>2. CASE q = other /\ p # other
      <4>1. StoresOf(q)' = StoresOf(p)
        BY <2>4, <3>2 DEF Swap, StoresOf, IInv, TypeOK
      <4> QED BY <3>2, <4>1 DEF IInv, OneOwner
    <3>3. CASE q \notin {p, other} \/ p = other
      BY <2>1, <2>4, <3>3 DEF Swap, IInv, TypeOK
    <3> QED BY <3>1, <3>2, <3>3
  <2>5. ASSUME NEW p \in Pools, NEW other \in Pools, Merge(p, other)
        PROVE  m_set[q] \subseteq m_set'[q]
    <3>1. CASE q = other
      <4>1. m_stores'[q] = <<>>
        BY <2>1, <2>5, <3>1 DEF Merge, IInv, TypeOK
      <4>2. StoresOf(q)' = {}
        BY <4>1 DEF StoresOf, Range
      <4> QED BY <4>2
    <3>2. CASE q # other
      BY <2>1, <2>5, <3>2 DEF Merge, MergedViews, IInv, TypeOK
    <3> QED BY <3>1, <3>2
  <2>6. ASSUME NEW p \in Pools, NEW other \in Pools, MoveConstruct(p, other)
        PROVE  m_set[q] \subseteq m_set'[q]
    BY <2>1, <2>6 DEF MoveConstruct, IInv, TypeOK
  <2> QED BY <2>2, <2>3, <2>4, <2>5, <2>6 DEF Next
<1> QED BY <1>1, InductiveInvariant, PTL DEF Spec, AddressesAreStable

\* A pool finds every string it stores, and under one address.
THEOREM KnownStringsAreUnique == Spec => []StringsAreKnownOnce
BY StringsAreInternedOnce, StoredStringsAreKnown, PTL DEF StringsAreKnownOnce

=============================================================================
