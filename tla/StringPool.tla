----------------------------- MODULE StringPool -----------------------------
(***************************************************************************)
(* string_pool (src/parser/string_pool.cpp): several pools that intern     *)
(* strings, are swapped with and merged into one another, cleared and      *)
(* destroyed, in any order a caller may choose.                            *)
(*                                                                         *)
(* intern() returns a view of a string object that lives in one of the     *)
(* pool's stores.  The callers keep such views for as long as they need    *)
(* the text: what has to be right is which store holds a view's object,    *)
(* and which pool that store belongs to.                                   *)
(***************************************************************************)
EXTENDS Naturals, Sequences, SequencesExt

CONSTANTS
    Pools,     \* the pools a program creates
    Strings,   \* the non-empty strings it interns
    Stores     \* object pools, never used again once freed; their number
               \* bounds how often a pool can be constructed or cleared

VARIABLES
    exists,    \* the pools between construction and destruction
    m_stores,  \* per pool, its stores; the first one takes the new strings
    m_set,     \* per pool, the views under which its strings are found
    made,      \* history: every store that was ever allocated
    handed     \* history: every view of a new object intern() has returned

vars == <<exists, m_stores, m_set, made, handed>>

\* A view is the string object it refers to: a store never holds two objects
\* with the same characters.
View(store, str) == [store |-> store, str |-> str]
Views == [store : Stores, str : Strings]

StoresOf(p) == Range(m_stores[p])

LiveStores == UNION {StoresOf(p) : p \in exists}

StringsOf(views) == {v.str : v \in views}

Init ==
    /\ exists = {}
    /\ m_stores = [p \in Pools |-> <<>>]
    /\ m_set = [p \in Pools |-> {}]
    /\ made = {}
    /\ handed = {}

\* impl(): a pool starts with one store.
NewImpl(p) ==
    \E s \in Stores \ made :
        /\ made' = made \cup {s}
        /\ m_stores' = [m_stores EXCEPT ![p] = <<s>>]
        /\ m_set' = [m_set EXCEPT ![p] = {}]

Construct(p) ==
    /\ p \notin exists
    /\ NewImpl(p)
    /\ exists' = exists \cup {p}
    /\ UNCHANGED handed

\* The stores go, and the string objects with them.
Destroy(p) ==
    /\ p \in exists
    /\ exists' = exists \ {p}
    /\ m_stores' = [m_stores EXCEPT ![p] = <<>>]
    /\ m_set' = [m_set EXCEPT ![p] = {}]
    /\ UNCHANGED <<made, handed>>

\* A moved-from pool has no impl: all that can be done with it is to destroy it.
MoveConstruct(p, other) ==
    /\ p \notin exists
    /\ other \in exists
    /\ exists' = (exists \ {other}) \cup {p}
    /\ m_stores' = [m_stores EXCEPT ![p] = m_stores[other], ![other] = <<>>]
    /\ m_set' = [m_set EXCEPT ![p] = m_set[other], ![other] = {}]
    /\ UNCHANGED <<made, handed>>

Known(p, str) == \E v \in m_set[p] : v.str = str

\* A known string is found; any other one is constructed in the first store.
\* Without a first store the code would read past the end of an empty vector:
\* what follows is undefined, and no step of this specification.
Intern(p, str) ==
    /\ p \in exists
    /\ ~Known(p, str) => m_stores[p] # <<>>
    /\ LET new == IF Known(p, str) THEN {} ELSE {View(Head(m_stores[p]), str)}
       IN  /\ m_set' = [m_set EXCEPT ![p] = @ \cup new]
           /\ handed' = handed \cup new
    /\ UNCHANGED <<exists, m_stores, made>>

Clear(p) ==
    /\ p \in exists
    /\ NewImpl(p)
    /\ UNCHANGED <<exists, handed>>

Swap(p, other) ==
    /\ {p, other} \subseteq exists
    /\ m_stores' = [m_stores EXCEPT ![p] = m_stores[other], ![other] = m_stores[p]]
    /\ m_set' = [m_set EXCEPT ![p] = m_set[other], ![other] = m_set[p]]
    /\ UNCHANGED <<exists, made, handed>>

\* Mutant: the strings are taken over but not the stores they live in.
NoStores(p, other) == m_stores[p]

\* Mutant: the other pool's stores are taken over twice.
StoresTwice(p, other) == m_stores[p] \o m_stores[other] \o m_stores[other]

\* The stores are popped off the other pool, last one first.
MergedStores(p, other) == m_stores[p] \o Reverse(m_stores[other])

\* Mutant: both views of a string that both pools know are kept.
ViewsOfBoth(p, other) == m_set[p] \cup m_set[other]

\* Mutant: the stores are taken over but not the strings that live in them.
OwnViews(p, other) == m_set[p]

\* Mutant: the other pool's views replace those of the same strings.
OtherViewsFirst(p, other) ==
    m_set[other] \cup {v \in m_set[p] : v.str \notin StringsOf(m_set[other])}

\* Mutant: the other pool's strings are taken over, not their views.
Unviewed(p, other) == m_set[p] \cup StringsOf(m_set[other])

\* A view of a string this pool knows already is dropped.
MergedViews(p, other) ==
    m_set[p] \cup {v \in m_set[other] : v.str \notin StringsOf(m_set[p])}

\* Mutant: the merge ends with the other pool cleared, its stores freed.
ClearOther(p, other) ==
    /\ {p, other} \subseteq exists
    /\ p # other
    /\ m_stores' = [m_stores EXCEPT ![other] = <<>>]
    /\ m_set' = [m_set EXCEPT ![other] = {}]
    /\ UNCHANGED <<exists, made, handed>>

\* No caller merges a pool with itself; the loop over the stores would not end.
Merge(p, other) ==
    /\ {p, other} \subseteq exists
    /\ p # other
    /\ m_stores' = [m_stores EXCEPT ![p] = MergedStores(p, other), ![other] = <<>>]
    /\ m_set' = [m_set EXCEPT ![p] = MergedViews(p, other), ![other] = {}]
    /\ UNCHANGED <<exists, made, handed>>

Next ==
    \/ \E p \in Pools : Construct(p) \/ Destroy(p) \/ Clear(p)
    \/ \E p \in Pools, str \in Strings : Intern(p, str)
    \/ \E p, other \in Pools :
           Swap(p, other) \/ Merge(p, other) \/ MoveConstruct(p, other)

Spec == Init /\ [][Next]_vars

----------------------------------------------------------------------------
TypeOK ==
    /\ exists \subseteq Pools
    /\ m_stores \in [Pools -> Seq(Stores)]
    /\ m_set \in [Pools -> SUBSET Views]
    /\ made \subseteq Stores
    /\ handed \subseteq Views

\* Every view a pool can return refers to an object in one of its own stores,
\* however often the strings were merged, swapped or moved from pool to pool:
\* what happens to other pools cannot make it dangle.
ViewsAreBacked ==
    \A p \in Pools : \A v \in m_set[p] : v.store \in StoresOf(p)

\* A store belongs to one pool, and is in it once: it is freed exactly once.
OneOwner ==
    /\ \A p \in Pools : \A i, j \in 1 .. Len(m_stores[p]) :
           m_stores[p][i] = m_stores[p][j] => i = j
    /\ \A p, q \in Pools : p # q => StoresOf(p) \cap StoresOf(q) = {}

\* "their memory address should be identical": a pool has one view of a string,
\* also after a merge of two pools that both knew it.
OneViewPerString ==
    \A p \in Pools : \A v, w \in m_set[p] : v.str = w.str => v = w

\* A pool knows every string that is in one of its stores, so that it never
\* stores a string a second time: what a merge drops is known under another
\* view.
StoredIsKnown ==
    \A p \in Pools : \A v \in handed :
        v.store \in StoresOf(p) => Known(p, v.str)

\* A pool knows its strings, and each of them by one view.
StringsAreKnownOnce == OneViewPerString /\ StoredIsKnown

\* No store is in use that was not allocated, and no view refers to one.
StoresAreMade ==
    /\ \A p \in Pools : StoresOf(p) \subseteq made
    /\ \A v \in handed : v.store \in made

\* The inductive invariant.
IInv ==
    /\ TypeOK
    /\ ViewsAreBacked
    /\ OneOwner
    /\ OneViewPerString
    /\ StoredIsKnown
    /\ StoresAreMade

\* "This will not invalidate any string references": in a step that neither
\* destroys nor clears a pool no store is freed, so that every view handed out
\* before, also the ones a merge drops from the set, keeps its object.
ReferencesStayValid ==
    [][exists' = exists /\ made' = made => LiveStores \subseteq LiveStores']_vars

\* Interning a string again returns the view it returned before, for as long
\* as the pool keeps its stores, whatever was interned or merged in between.
AddressesAreStable ==
    [][\A p \in exists \cap exists' :
          StoresOf(p) # {} /\ StoresOf(p) \subseteq StoresOf(p)'
              => m_set[p] \subseteq m_set'[p]]_vars

\* A pool that exists can be used: size() is 0 after merge() as it is after
\* clear(), and intern() finds a store for a new string.
EmptyPoolsIntern == \A p \in exists : m_stores[p] # <<>>


(* Pools, strings and stores are interchangeable.                           *)
Symmetry == Permutations(Pools) \cup Permutations(Strings) \cup Permutations(Stores)
=============================================================================
