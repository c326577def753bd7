------------------------- MODULE SaxNsParserProofs -------------------------
(***************************************************************************)
(* Proofs about SaxNsParser, for any URIs, prefixes, names and predefined  *)
(* namespaces, any nesting and any number of attributes.                   *)
(***************************************************************************)
EXTENDS SaxNsParser, FiniteSetTheorems, SequenceTheorems, TLAPS

----------------------------------------------------------------------------
(* Counting the scopes that declare an alias.                              *)

\* A sequence without its last element.
LEMMA WithoutLast ==
    ASSUME NEW S, NEW s \in Seq(S), Len(s) > 0
    PROVE  LET t == SubSeq(s, 1, Len(s) - 1) IN
           /\ t \in Seq(S) /\ Len(t) = Len(s) - 1
           /\ \A i \in 1 .. Len(s) - 1 : t[i] = s[i]
<1> DEFINE t == SubSeq(s, 1, Len(s) - 1)
<1>1. t \in Seq(S) /\ \A i \in 1 .. Len(s) - 1 : t[i] = s[i]
  OBVIOUS
<1>2. PICK n \in Nat : n = Len(s) /\ n > 0
  OBVIOUS
<1>3. \A i \in 1 .. n - 1 : s[i] \in S
  BY <1>2
<1>4. Len(SubSeq(s, 1, n - 1)) = IF 1 <= n - 1 THEN (n - 1) - 1 + 1 ELSE 0
  BY <1>2, <1>3, SubSeqProperties
<1>5. Len(t) = n - 1
  <2>1. (IF 1 <= n - 1 THEN (n - 1) - 1 + 1 ELSE 0) = n - 1
    BY <1>2
  <2> QED BY ONLY <1>2, <1>4, <2>1, Zenon
<1> HIDE DEF t
<1> QED BY <1>1, <1>2, <1>5 DEF t

\* The scopes counted are finitely many, and none of them is before the first.
LEMMA DeclaringFinite ==
    ASSUME NEW s, NEW a, NEW i \in Nat
    PROVE  /\ IsFiniteSet(Declaring(s, a, i))
           /\ Cardinality(Declaring(s, a, i)) \in Nat
           /\ i = 0 => Cardinality(Declaring(s, a, i)) = 0
<1>1. IsFiniteSet(1 .. i)
  BY FS_Interval
<1>2. Declaring(s, a, i) \in SUBSET (1 .. i)
  BY DEF Declaring
<1>3. IsFiniteSet(Declaring(s, a, i))
  BY <1>1, <1>2, FS_Subset
<1>4. Cardinality(Declaring(s, a, i)) \in Nat
  BY <1>3, FS_CardinalityType
<1>5. ASSUME i = 0 PROVE Cardinality(Declaring(s, a, i)) = 0
  <2>1. Declaring(s, a, i) = {}
    BY <1>2, <1>5
  <2> QED BY <2>1, FS_EmptySet
<1> QED BY <1>3, <1>4, <1>5

\* One scope more counts one more if it declares the alias.
LEMMA DeclaringStep ==
    ASSUME NEW s, NEW a, NEW i \in Nat
    PROVE  Cardinality(Declaring(s, a, i + 1)) =
             Cardinality(Declaring(s, a, i)) + (IF a \in s[i + 1].keys THEN 1 ELSE 0)
<1>1. IsFiniteSet(Declaring(s, a, i)) /\ Cardinality(Declaring(s, a, i)) \in Nat
  BY DeclaringFinite
<1>2. i + 1 \notin Declaring(s, a, i)
  BY DEF Declaring
<1>3. CASE a \in s[i + 1].keys
  <2>1. Declaring(s, a, i + 1) = Declaring(s, a, i) \cup {i + 1}
    BY <1>3 DEF Declaring
  <2> QED BY <1>1, <1>2, <1>3, <2>1, FS_AddElement
<1>4. CASE a \notin s[i + 1].keys
  <2>1. Declaring(s, a, i + 1) = Declaring(s, a, i)
    BY <1>4 DEF Declaring
  <2> QED BY <1>1, <1>4, <2>1
<1> QED BY <1>3, <1>4

\* Only the scopes counted matter, and more of them count at least as many.
LEMMA DeclaringSame ==
    ASSUME NEW s, NEW t, NEW a, NEW i \in Nat, \A j \in 1 .. i : s[j] = t[j]
    PROVE  Declaring(s, a, i) = Declaring(t, a, i)
  BY DEF Declaring

LEMMA DeclaringGrows ==
    ASSUME NEW s, NEW a, NEW i \in Nat, NEW k \in Nat, i <= k
    PROVE  Cardinality(Declaring(s, a, i)) <= Cardinality(Declaring(s, a, k))
<1>1. Declaring(s, a, i) \in SUBSET Declaring(s, a, k)
  BY DEF Declaring
<1> QED BY <1>1, DeclaringFinite, FS_Subset

\* The two ways the scopes change: one is added, or the last one goes.
LEMMA DeclaringAppend ==
    ASSUME NEW S, NEW s \in Seq(S), NEW r \in S, NEW a
    PROVE  /\ \A i \in 0 .. Len(s) : Declaring(Append(s, r), a, i) = Declaring(s, a, i)
           /\ Cardinality(Declaring(Append(s, r), a, Len(s) + 1)) =
                Cardinality(Declaring(s, a, Len(s))) + (IF a \in r.keys THEN 1 ELSE 0)
<1> DEFINE t == Append(s, r)
<1>1. Len(s) \in Nat /\ t[Len(s) + 1] = r /\ \A j \in 1 .. Len(s) : t[j] = s[j]
  OBVIOUS
<1> HIDE DEF t
<1>2. ASSUME NEW i \in 0 .. Len(s) PROVE Declaring(t, a, i) = Declaring(s, a, i)
  BY <1>1, DeclaringSame
<1>3. Cardinality(Declaring(t, a, Len(s) + 1)) =
        Cardinality(Declaring(t, a, Len(s))) + (IF a \in t[Len(s) + 1].keys THEN 1 ELSE 0)
  BY <1>1, DeclaringStep
<1> QED BY <1>1, <1>2, <1>3 DEF t

LEMMA DeclaringRemove ==
    ASSUME NEW S, NEW s \in Seq(S), Len(s) > 0, NEW a
    PROVE  LET t == SubSeq(s, 1, Len(s) - 1) IN
           /\ \A i \in 0 .. Len(s) - 1 : Declaring(t, a, i) = Declaring(s, a, i)
           /\ Cardinality(Declaring(s, a, Len(s))) =
                Cardinality(Declaring(t, a, Len(s) - 1))
                + (IF a \in s[Len(s)].keys THEN 1 ELSE 0)
<1> DEFINE t == SubSeq(s, 1, Len(s) - 1)
<1>1. Len(s) - 1 \in Nat /\ \A j \in 1 .. Len(s) - 1 : t[j] = s[j]
  BY WithoutLast
<1> HIDE DEF t
<1>2. ASSUME NEW i \in 0 .. Len(s) - 1 PROVE Declaring(t, a, i) = Declaring(s, a, i)
  BY <1>1, DeclaringSame
<1>3. Cardinality(Declaring(s, a, (Len(s) - 1) + 1)) =
        Cardinality(Declaring(s, a, Len(s) - 1))
        + (IF a \in s[(Len(s) - 1) + 1].keys THEN 1 ELSE 0)
  BY <1>1, DeclaringStep
<1>4. (Len(s) - 1) + 1 = Len(s)
  BY <1>1
<1> QED BY <1>1, <1>2, <1>3, <1>4 DEF t

----------------------------------------------------------------------------
(* The initial state and the types.                                        *)

LEMMA InitIInv == Init => IInv
<1> SUFFICES ASSUME Init PROVE IInv
  OBVIOUS
<1>1. TypeOK
  <2>1. tag \in TagRead
    BY DEF Init, NoTag, TagRead, AllAliases, Aliases
  <2>2. stacks \in [Aliases -> Seq(Ids \ {BuiltinId})]
    BY DEF Init
  <2>3. repo \in Seq(Uris)
    BY ParserAssumption DEF Init
  <2>4. scopes \in Seq(Scope) /\ attrs \in Seq([alias : AllAliases, ns : Ids, buf : Nat])
    BY DEF Init
  <2>5. pc = "header" /\ error = "none" /\ nest \in Nat /\ bufPos \in Nat
        /\ nsKeys = {} /\ seenAttrs = {}
    BY DEF Init
  <2> QED BY <2>1, <2>2, <2>3, <2>4, <2>5 DEF TypeOK
<1>2. TagsAreApart /\ PopsWhatWasPushed /\ HeldValuesKeepTheirBuffers
  BY DEF Init, TagsAreApart, PopsWhatWasPushed, HeldValuesKeepTheirBuffers
<1>3. StacksMatchScopes
  <2>1. \A a \in Aliases : Cardinality(Declaring(scopes, a, 0)) = 0
    BY DeclaringFinite
  <2> QED BY <2>1 DEF Init, StacksMatchScopes
<1>4. NestIsDepth
  BY DEF Init, NestIsDepth
<1>5. EveryIdHasOneIndex
  BY ParserAssumption DEF Init, EveryIdHasOneIndex, Range
<1> QED BY <1>1, <1>2, <1>3, <1>4, <1>5 DEF IInv

\* What the context returns for an alias is an identifier.
LEMMA GetNsType ==
    ASSUME stacks \in [Aliases -> Seq(Ids \ {BuiltinId})], NEW alias \in AllAliases
    PROVE  GetNs(stacks, alias) \in Ids
<1>1. CASE alias = "xml"
  BY <1>1 DEF GetNs, Ids
<1>2. CASE alias # "xml"
  <2>1. alias \in Aliases /\ stacks[alias] \in Seq(Ids \ {BuiltinId})
    BY <1>2 DEF AllAliases
  <2>2. CASE stacks[alias] = <<>>
    BY <1>2, <2>2 DEF GetNs, Ids
  <2>3. CASE stacks[alias] # <<>>
    <3>1. stacks[alias][Len(stacks[alias])] \in Ids
      BY <2>1, <2>3
    <3> QED BY <1>2, <2>3, <3>1 DEF GetNs
  <2> QED BY <2>2, <2>3
<1> QED BY <1>1, <1>2

\* Popping what can be popped leaves stacks.
LEMMA PopNsType ==
    ASSUME stacks \in [Aliases -> Seq(Ids \ {BuiltinId})], NEW keys, CanPop(stacks, keys)
    PROVE  PopNs(stacks, keys) \in [Aliases -> Seq(Ids \ {BuiltinId})]
<1>1. ASSUME NEW a \in Aliases, a \in keys
      PROVE  SubSeq(stacks[a], 1, Len(stacks[a]) - 1) \in Seq(Ids \ {BuiltinId})
  <2>1. stacks[a] \in Seq(Ids \ {BuiltinId}) /\ stacks[a] # <<>>
    BY <1>1 DEF CanPop
  <2>2. Len(stacks[a]) > 0
    BY <2>1
  <2> QED BY <2>1, <2>2, WithoutLast
<1> QED BY <1>1 DEF PopNs

\* The repository stays a sequence of URIs, and the identifier of a URI that may
\* be declared is one.
LEMMA InternType ==
    ASSUME repo \in Seq(Uris), NEW uri \in Uris \cup {NoUri}
    PROVE  Interned(repo, uri) \in Seq(Uris) /\ IdOf(uri) \in Ids \ {BuiltinId}
<1>1. CASE uri = NoUri
  BY <1>1, NamespaceAssumption DEF Interned, IdOf, Ids
<1>2. CASE uri # NoUri
  <2>1. uri \in Uris /\ uri # BuiltinId
    BY <1>2, NamespaceAssumption
  <2>2. Append(repo, uri) \in Seq(Uris)
    BY <2>1
  <2> QED BY <1>2, <2>1, <2>2 DEF Interned, IdOf, Ids
<1> QED BY <1>1, <1>2

\* Pushing an identifier leaves stacks.
LEMMA PushNsType ==
    ASSUME stacks \in [Aliases -> Seq(Ids \ {BuiltinId})], NEW a \in Aliases,
           NEW id \in Ids \ {BuiltinId}
    PROVE  PushNs(stacks, a, id) \in [Aliases -> Seq(Ids \ {BuiltinId})]
<1>1. Append(stacks[a], id) \in Seq(Ids \ {BuiltinId})
  OBVIOUS
<1> QED BY <1>1 DEF PushNs

LEMMA AttributeType ==
    ASSUME IInv, NEW key \in Attributes, NEW uri \in Uris \cup {NoUri},
           NEW transient \in BOOLEAN, Attribute(key, uri, transient)
    PROVE  TypeOK'
<1> USE DEF IInv, TypeOK
<1>1. bufPos' \in Nat /\ UNCHANGED <<nest, tag, scopes>>
  <2>1. StoreValue(transient) /\ UNCHANGED <<nest, tag, scopes>>
    BY DEF Attribute
  <2>2. bufPos \in Nat /\ (bufPos' = bufPos + 1 \/ bufPos' = bufPos)
    BY <2>1, Zenon DEF StoreValue
  <2>3. bufPos' \in Nat
    BY ONLY <2>2
  <2> QED BY <2>1, <2>3
<1>2. CASE Duplicate(key)
  BY <1>1, <1>2 DEF Attribute, Throw, names
<1>3. CASE ~ Duplicate(key)
  <2>1. seenAttrs' \in SUBSET Attributes
    BY <1>3 DEF Attribute
  <2>2. ASSUME NEW a \in Aliases, Declare(a, uri) PROVE TypeOK'
    <3>1. repo' \in Seq(Uris) /\ stacks' \in [Aliases -> Seq(Ids \ {BuiltinId})]
      BY <2>2, InternType, PushNsType DEF Declare, Push
    <3> QED BY <1>1, <2>1, <2>2, <3>1 DEF Declare
  <2>3. CASE DeclareXml(uri)
    BY <1>1, <2>1, <2>3 DEF DeclareXml, Throw, names
  <2>4. CASE key \notin Declarations /\ Keep(key[1], transient)
    <3>1. key[1] \in AllAliases
      BY <2>4 DEF Attributes
    <3>2. GetNs(stacks, key[1]) \in Ids /\ Unknown \in Ids
      BY <3>1, GetNsType DEF Ids
    <3>3. PICK r \in [alias : AllAliases, ns : Ids, buf : Nat] : attrs' = Append(attrs, r)
      <4>1. (IF key[1] = "" THEN Unknown ELSE GetNs(stacks, key[1])) \in Ids
        BY <3>2
      <4>2. bufPos + 1 \in Nat /\ 0 \in Nat
        <5>1. bufPos \in Nat
          BY Zenon
        <5> QED BY ONLY <5>1
      <4>3. (IF transient THEN bufPos + 1 ELSE 0) \in Nat
        BY <4>2, Zenon
      <4> QED BY <2>4, <3>1, <4>1, <4>3, Zenon DEF Keep
    <3>4. attrs' \in Seq([alias : AllAliases, ns : Ids, buf : Nat])
      BY <3>3, AppendProperties
    <3> QED BY <1>1, <2>1, <2>4, <3>4 DEF Keep, names
  <2> QED BY <1>3, <2>2, <2>3, <2>4 DEF Attribute
<1> QED BY <1>2, <1>3

LEMMA StartElementType ==
    ASSUME IInv, StartElement, pc = "tag"
    PROVE  /\ scopes' \in Seq(Scope) /\ nsKeys' = {} /\ seenAttrs' = {} /\ attrs' = <<>>
           /\ bufPos' = 0
           /\ Len(scopes') = Len(scopes) + 1
<1>1. tag.alias \in AllAliases /\ tag.name \in Names /\ nsKeys \in SUBSET Aliases
      /\ scopes \in Seq(Scope)
  BY DEF IInv, TypeOK, TagRead, TagsAreApart
<1>2. GetNs(stacks, tag.alias) \in Ids
  BY <1>1, GetNsType DEF IInv, TypeOK
<1>3. [ns |-> GetNs(stacks, tag.alias), name |-> tag.name, keys |-> nsKeys] \in Scope
  BY <1>1, <1>2 DEF Scope
<1>4. scopes' \in Seq(Scope) /\ Len(scopes') = Len(scopes) + 1
  BY <1>1, <1>3, AppendProperties DEF StartElement
<1> QED BY <1>4 DEF StartElement, ReleaseBuffers

LEMMA EndElementType ==
    ASSUME IInv, EndElement
    PROVE  TypeOK'
<1> DEFINE scope == scopes[Len(scopes)]
<1>1. TypeOK /\ pc = "closing"
  BY DEF IInv, EndElement
<1>2. Len(scopes) > 0 /\ scopes \in Seq(Scope)
  <2>1. nest \in Nat /\ scopes \in Seq(Scope)
    BY <1>1 DEF TypeOK
  <2>2. Len(scopes) = nest + 1
    BY <1>1, Zenon DEF IInv, NestIsDepth
  <2> QED BY ONLY <2>1, <2>2
<1>3. tag' = NoTag /\ UNCHANGED <<nest, bufPos, nsKeys, seenAttrs, attrs, repo>>
  BY DEF EndElement
<1>4. tag' \in TagRead
  BY <1>3 DEF NoTag, TagRead, AllAliases, Aliases
<1> HIDE DEF scope
<1>5. CASE Throw("malformed_xml_error") /\ UNCHANGED <<scopes, stacks>>
  BY <1>1, <1>3, <1>4, <1>5 DEF TypeOK, Throw
<1>6. CASE /\ CanPop(stacks, scope.keys)
           /\ stacks' = PopNs(stacks, scope.keys)
           /\ scopes' = SubSeq(scopes, 1, Len(scopes) - 1)
           /\ pc' = IF nest = 0 THEN "trailer" ELSE "body"
           /\ UNCHANGED error
  <2>1. stacks' \in [Aliases -> Seq(Ids \ {BuiltinId})]
    BY <1>1, <1>6, PopNsType DEF TypeOK
  <2>2. scopes' \in Seq(Scope)
    BY <1>2, <1>6, WithoutLast
  <2>3. pc' \in {"trailer", "body"}
    BY <1>6
  <2> QED BY <1>1, <1>3, <1>4, <1>6, <2>1, <2>2, <2>3 DEF TypeOK
<1>7. CASE Throw("general_error") /\ UNCHANGED <<scopes, stacks>>
  BY <1>1, <1>3, <1>4, <1>7 DEF TypeOK, Throw
<1> QED BY <1>5, <1>6, <1>7, Zenon DEF EndElement, scope

\* Every step keeps the types.
LEMMA TypeStep == IInv /\ [Next]_vars => TypeOK'
<1> SUFFICES ASSUME IInv, [Next]_vars PROVE TypeOK'
  OBVIOUS
<1>1. TypeOK /\ TagsAreApart
  BY DEF IInv
<1>2. CASE Header \/ EndOfStream \/ Comment \/ Characters \/ Cdata \/ Malformed
           \/ StartDeclaration \/ CloseNothing \/ Stopped \/ UNCHANGED vars
  BY <1>1, <1>2 DEF TypeOK, Header, EndOfStream, Comment, Characters, Cdata, Malformed,
     StartDeclaration, CloseNothing, Stopped, Throw, wrapper, names, vars
<1>3. CASE DeclarationAttribute
  <2>1. PICK transient \in BOOLEAN : StoreValue(transient)
    BY <1>3 DEF DeclarationAttribute
  <2>2. bufPos \in Nat /\ (bufPos' = bufPos + 1 \/ bufPos' = bufPos)
    BY <1>1, <2>1, Zenon DEF StoreValue, TypeOK
  <2>3. bufPos' \in Nat
    BY ONLY <2>2
  <2> QED BY <1>1, <1>3, <2>3 DEF DeclarationAttribute, TypeOK, wrapper, names
<1>4. CASE EndDeclaration
  <2>1. bufPos' = 0 /\ attrs' = <<>> /\ pc' = "body"
        /\ UNCHANGED <<error, nest, tag, scopes, nsKeys, seenAttrs, repo, stacks>>
    BY <1>4 DEF EndDeclaration, ReleaseBuffers, names
  <2>2. attrs' \in Seq([alias : AllAliases, ns : Ids, buf : Nat])
    BY <2>1
  <2> QED BY <1>1, <2>1, <2>2 DEF TypeOK
<1>5. ASSUME NEW alias \in AllAliases, NEW name \in Names, BeginTag(alias, name)
      PROVE  TypeOK'
  BY <1>1, <1>5 DEF BeginTag, TypeOK, TagRead, wrapper, names
<1>6. ASSUME NEW key \in Attributes, NEW transient \in BOOLEAN,
             NEW uri \in IF key \in Declarations THEN Uris \cup {NoUri} ELSE {NoUri},
             Attribute(key, uri, transient)
      PROVE  TypeOK'
  BY <1>6, AttributeType
<1>7. CASE OpenElement
  <2>1. /\ scopes' \in Seq(Scope) /\ nsKeys' = {} /\ seenAttrs' = {} /\ attrs' = <<>>
        /\ bufPos' = 0
    BY <1>7, StartElementType DEF OpenElement
  <2>2. attrs' \in Seq([alias : AllAliases, ns : Ids, buf : Nat])
    BY <2>1
  <2>3. pc' = "body" /\ UNCHANGED <<error, repo, stacks>>
        /\ tag' \in TagRead
    BY <1>7 DEF OpenElement, names, NoTag, TagRead, AllAliases, Aliases
  <2>4. nest \in Nat /\ nest' = nest + 1
    BY <1>1, <1>7, Zenon DEF OpenElement, TypeOK
  <2>5. nest' \in Nat
    BY ONLY <2>4
  <2> QED BY <1>1, <2>1, <2>2, <2>3, <2>5 DEF TypeOK
<1>8. CASE OpenEmptyElement
  <2>1. /\ scopes' \in Seq(Scope) /\ nsKeys' = {} /\ seenAttrs' = {} /\ attrs' = <<>>
        /\ bufPos' = 0
    BY <1>8, StartElementType DEF OpenEmptyElement
  <2>2. attrs' \in Seq([alias : AllAliases, ns : Ids, buf : Nat])
    BY <2>1
  <2>3. pc' = "closing" /\ UNCHANGED <<error, nest, tag, repo, stacks>>
    BY <1>8 DEF OpenEmptyElement, names
  <2> QED BY <1>1, <2>1, <2>2, <2>3 DEF TypeOK
<1>9. ASSUME NEW alias \in AllAliases, NEW name \in Names, EndTag(alias, name)
      PROVE  TypeOK'
  <2>1. nest \in Nat /\ nest > 0 /\ nest' = nest - 1
    BY <1>1, <1>9, Zenon DEF EndTag, TypeOK
  <2>2. nest' \in Nat
    BY ONLY <2>1
  <2>3. tag' \in TagRead
    BY <1>9 DEF EndTag, TagRead
  <2>4. pc' = "closing" /\ UNCHANGED <<error, bufPos, scopes, nsKeys, seenAttrs, attrs,
                                       repo, stacks>>
    BY <1>9 DEF EndTag, wrapper, names
  <2> QED BY <1>1, <2>2, <2>3, <2>4 DEF TypeOK
<1>10. CASE EndElement
  BY <1>10, EndElementType
<1> QED BY <1>2, <1>3, <1>4, <1>5, <1>6, <1>7, <1>8, <1>9, <1>10 DEF Next

----------------------------------------------------------------------------
(* Tags are apart, levels are depths, held values keep their buffers.      *)

\* What a successful or failing attribute does to the keys and the attributes.
LEMMA ApartStep == IInv /\ [Next]_vars => TagsAreApart'
<1> SUFFICES ASSUME IInv, [Next]_vars PROVE TagsAreApart'
  OBVIOUS
<1>1. TypeOK /\ TagsAreApart
  BY DEF IInv
<1>2. CASE Header \/ EndOfStream \/ Comment \/ Characters \/ Cdata \/ Malformed
           \/ StartDeclaration \/ CloseNothing \/ Stopped \/ UNCHANGED vars
  BY <1>1, <1>2 DEF TagsAreApart, Header, EndOfStream, Comment, Characters, Cdata, Malformed,
     StartDeclaration, CloseNothing, Stopped, Throw, wrapper, names, vars
<1>3. CASE DeclarationAttribute
  BY <1>1, <1>3 DEF DeclarationAttribute, TagsAreApart, wrapper, names
<1>4. CASE EndDeclaration
  BY <1>1, <1>4 DEF EndDeclaration, ReleaseBuffers, TagsAreApart, names
<1>5. ASSUME NEW alias \in AllAliases, NEW name \in Names, BeginTag(alias, name)
      PROVE  TagsAreApart'
  BY <1>1, <1>5 DEF BeginTag, TagsAreApart, wrapper, names
<1>6. ASSUME NEW key \in Attributes, NEW transient \in BOOLEAN,
             NEW uri \in IF key \in Declarations THEN Uris \cup {NoUri} ELSE {NoUri},
             Attribute(key, uri, transient)
      PROVE  TagsAreApart'
  <2>1. pc = "tag" /\ UNCHANGED <<tag, scopes>>
    BY <1>6 DEF Attribute
  <2>2. CASE Duplicate(key)
    BY <1>1, <1>6, <2>1, <2>2 DEF Attribute, Throw, TagsAreApart
  <2>3. CASE ~ Duplicate(key)
    <3>1. seenAttrs' = seenAttrs \cup {key}
      BY <1>6, <2>3 DEF Attribute
    <3>2. ASSUME NEW a \in Aliases, key = KeyOf(a), Declare(a, uri)
          PROVE  TagsAreApart'
      <4>1. nsKeys' = nsKeys \cup {a} /\ pc' = pc
        BY <3>2 DEF Declare
      <4>2. \A b \in nsKeys' : KeyOf(b) \in seenAttrs'
        BY <1>1, <3>1, <3>2, <4>1 DEF TagsAreApart
      <4> QED BY <1>1, <2>1, <4>1, <4>2 DEF TagsAreApart
    <3>3. CASE DeclareXml(uri)
      BY <1>1, <2>1, <3>1, <3>3 DEF DeclareXml, Throw, TagsAreApart
    <3>4. CASE Keep(key[1], transient)
      BY <1>1, <2>1, <3>1, <3>4 DEF Keep, TagsAreApart
    <3> QED BY <1>6, <2>3, <3>2, <3>3, <3>4 DEF Attribute
  <2> QED BY <2>2, <2>3
<1>7. CASE OpenElement \/ OpenEmptyElement
  BY <1>1, <1>7, StartElementType DEF OpenElement, OpenEmptyElement, TagsAreApart
<1>8. ASSUME NEW alias \in AllAliases, NEW name \in Names, EndTag(alias, name)
      PROVE  TagsAreApart'
  BY <1>1, <1>8 DEF EndTag, TagsAreApart, wrapper, names
<1>9. CASE EndElement
  <2>1. pc = "closing" /\ UNCHANGED <<bufPos, nsKeys, seenAttrs, attrs>>
    BY <1>9 DEF EndElement
  <2>2. pc' \in {"failed", "trailer", "body"}
    BY <1>9, Zenon DEF EndElement, Throw
  <2> QED BY <1>1, <2>1, <2>2 DEF TagsAreApart
<1> QED BY <1>2, <1>3, <1>4, <1>5, <1>6, <1>7, <1>8, <1>9 DEF Next

\* An element that ends for good takes the last scope with it, and only it.
LEMMA EndElementCases ==
    ASSUME EndElement
    PROVE  \/ pc' = "failed" /\ UNCHANGED <<scopes, stacks>>
           \/ /\ pc' = IF nest = 0 THEN "trailer" ELSE "body"
              /\ scopes' = SubSeq(scopes, 1, Len(scopes) - 1)
              /\ stacks' = PopNs(stacks, scopes[Len(scopes)].keys)
              /\ CanPop(stacks, scopes[Len(scopes)].keys)
              /\ scopes[Len(scopes)].ns = GetNs(stacks, tag.alias)
              /\ scopes[Len(scopes)].name = tag.name
  BY Zenon DEF EndElement, Throw, Matches

LEMMA NestStep == IInv /\ [Next]_vars => NestIsDepth'
<1> SUFFICES ASSUME IInv, [Next]_vars PROVE NestIsDepth'
  OBVIOUS
<1>1. nest \in Nat /\ scopes \in Seq(Scope) /\ Len(scopes) \in Nat
  <2>1. nest \in Nat /\ scopes \in Seq(Scope)
    BY DEF IInv, TypeOK
  <2> QED BY <2>1
<1>2. /\ pc = "closing" => Len(scopes) = nest + 1
      /\ pc \notin {"closing", "failed"} => Len(scopes) = nest
  <2>1. pc \notin {"closing", "failed"} => Len(scopes) = nest + 0
    BY Zenon DEF IInv, NestIsDepth
  <2>2. pc = "closing" => Len(scopes) = nest + 1
    BY Zenon DEF IInv, NestIsDepth
  <2> QED BY <1>1, <2>1, <2>2
<1>3. SUFFICES /\ pc' = "closing" => Len(scopes)' = nest' + 1
               /\ pc' \notin {"closing", "failed"} => Len(scopes)' = nest' /\ nest' \in Nat
  BY DEF NestIsDepth
<1>4. CASE Header \/ EndOfStream \/ Comment \/ Characters \/ Cdata \/ Malformed
           \/ StartDeclaration \/ CloseNothing \/ Stopped \/ UNCHANGED vars
  BY <1>1, <1>2, <1>4 DEF Header, EndOfStream, Comment, Characters, Cdata, Malformed,
     StartDeclaration, CloseNothing, Stopped, Throw, wrapper, names, vars
<1>5. CASE DeclarationAttribute \/ EndDeclaration
  BY <1>1, <1>2, <1>5 DEF DeclarationAttribute, EndDeclaration, wrapper, names
<1>6. CASE \E alias \in AllAliases, name \in Names : BeginTag(alias, name)
  BY <1>1, <1>2, <1>6 DEF BeginTag, wrapper, names
<1>7. ASSUME NEW key, NEW transient, NEW uri, Attribute(key, uri, transient)
      PROVE  UNCHANGED <<nest, scopes>> /\ pc = "tag" /\ pc' \in {"tag", "failed"}
  BY <1>7, Zenon DEF Attribute, Declare, DeclareXml, Keep, Throw
<1>8. CASE \E key, transient, uri : Attribute(key, uri, transient)
  BY <1>1, <1>2, <1>7, <1>8
<1>9. CASE OpenElement
  <2>1. pc = "tag" /\ pc' = "body" /\ nest' = nest + 1 /\ Len(scopes)' = Len(scopes) + 1
    BY <1>9, StartElementType DEF OpenElement
  <2> QED BY ONLY <1>1, <1>2, <2>1
<1>10. CASE OpenEmptyElement
  <2>1. pc = "tag" /\ pc' = "closing" /\ nest' = nest /\ Len(scopes)' = Len(scopes) + 1
    BY <1>10, StartElementType DEF OpenEmptyElement
  <2> QED BY ONLY <1>1, <1>2, <2>1
<1>11. CASE \E alias \in AllAliases, name \in Names : EndTag(alias, name)
  <2>1. pc = "body" /\ pc' = "closing" /\ nest > 0 /\ nest' = nest - 1 /\ scopes' = scopes
    BY <1>11 DEF EndTag, wrapper
  <2> QED BY ONLY <1>1, <1>2, <2>1
<1>12. CASE EndElement
  <2>1. pc = "closing" /\ nest' = nest
    BY <1>12 DEF EndElement
  <2>2. CASE pc' = "failed"
    BY <2>2
  <2>3. CASE /\ pc' = IF nest = 0 THEN "trailer" ELSE "body"
             /\ scopes' = SubSeq(scopes, 1, Len(scopes) - 1)
    <3>1. pc' \in {"trailer", "body"}
      BY <2>3, Zenon
    <3>2. Len(scopes) > 0 /\ Len(scopes) = nest + 1
      BY <1>1, <1>2, <2>1
    <3>3. Len(scopes)' = Len(scopes) - 1
      BY <1>1, <2>3, <3>2, WithoutLast
    <3> QED BY ONLY <1>1, <2>1, <3>1, <3>2, <3>3
  <2> QED BY <1>12, <2>2, <2>3, EndElementCases
<1> QED BY <1>4, <1>5, <1>6, <1>8, <1>9, <1>10, <1>11, <1>12 DEF Next

----------------------------------------------------------------------------
(* The stacks of aliases and the open scopes.                              *)

\* The number of scopes that declare an alias, all of them.
Depth(a) == Cardinality(Declaring(scopes, a, Len(scopes)))

LEMMA DepthType ==
    ASSUME TypeOK, NEW a
    PROVE  Depth(a) \in Nat /\ Len(scopes) \in Nat
<1>1. scopes \in Seq(Scope)
  BY Zenon DEF TypeOK
<1>2. Len(scopes) \in Nat
  BY <1>1, LenProperties
<1> QED BY <1>2, DeclaringFinite DEF Depth

\* Starting an element turns the keys of its tag into those of a scope.
LEMMA StackStart ==
    ASSUME IInv, StartElement, pc = "tag", stacks' = stacks
    PROVE  StacksMatchScopes'
<1> DEFINE r == [ns |-> GetNs(stacks, tag.alias), name |-> tag.name, keys |-> nsKeys]
<1>1. TypeOK /\ StacksMatchScopes /\ scopes \in Seq(Scope) /\ Len(scopes) \in Nat
  BY DepthType DEF IInv, TypeOK
<1>2. scopes' = Append(scopes, r) /\ nsKeys' = {} /\ Len(scopes') = Len(scopes) + 1
  BY StartElementType DEF StartElement
<1>3. r \in Scope /\ r.keys = nsKeys
  <2>1. tag.alias \in AllAliases /\ tag.name \in Names /\ nsKeys \in SUBSET Aliases
    BY DEF IInv, TypeOK, TagRead, TagsAreApart
  <2> QED BY <1>1, <2>1, GetNsType DEF TypeOK, Scope
<1> HIDE DEF r
<1>4. ASSUME NEW a \in Aliases
      PROVE  Len(stacks'[a]) = Cardinality(Declaring(scopes', a, Len(scopes')))
                               + (IF a \in nsKeys' THEN 1 ELSE 0)
  <2>1. Len(stacks[a]) = Cardinality(Declaring(scopes, a, Len(scopes)))
                         + (IF a \in nsKeys THEN 1 ELSE 0)
    BY <1>1 DEF StacksMatchScopes
  <2>2. Cardinality(Declaring(Append(scopes, r), a, Len(scopes) + 1)) =
          Cardinality(Declaring(scopes, a, Len(scopes))) + (IF a \in nsKeys THEN 1 ELSE 0)
    BY <1>1, <1>3, DeclaringAppend
  <2>3. Cardinality(Declaring(scopes', a, Len(scopes'))) = Len(stacks[a])
    BY <1>2, <2>1, <2>2
  <2>4. stacks[a] \in Seq(Ids \ {BuiltinId})
    BY <1>1 DEF TypeOK
  <2>5. Len(stacks[a]) \in Nat
    BY <2>4, LenProperties
  <2>6. (IF a \in nsKeys' THEN 1 ELSE 0) = 0
    BY <1>2
  <2>7. Len(stacks[a]) = Len(stacks[a]) + 0
    BY <2>5
  <2> QED BY <2>3, <2>6, <2>7, Zenon
<1> QED BY <1>4 DEF StacksMatchScopes

\* An alias is pushed with the key of its tag, once.
LEMMA StackDeclare ==
    ASSUME IInv, NEW a \in Aliases, a \notin nsKeys, NEW uri \in Uris \cup {NoUri},
           Declare(a, uri), scopes' = scopes
    PROVE  StacksMatchScopes'
<1>1. TypeOK /\ StacksMatchScopes
  BY DEF IInv
<1>2. nsKeys' = nsKeys \cup {a} /\ stacks' = PushNs(stacks, a, IdOf(uri))
  BY DEF Declare, Push
<1>3. ASSUME NEW b \in Aliases
      PROVE  Len(stacks'[b]) = Cardinality(Declaring(scopes, b, Len(scopes)))
                               + (IF b \in nsKeys' THEN 1 ELSE 0)
  <2>1. Len(stacks[b]) = Depth(b) + (IF b \in nsKeys THEN 1 ELSE 0)
        /\ Depth(b) \in Nat /\ stacks[b] \in Seq(Ids \ {BuiltinId})
    BY <1>1, DepthType DEF StacksMatchScopes, Depth, TypeOK
  <2>2. CASE b = a
    <3>1. stacks'[b] = Append(stacks[b], IdOf(uri))
      BY <1>1, <1>2, <2>2 DEF PushNs, TypeOK
    <3>2. Len(stacks'[b]) = Len(stacks[b]) + 1
      <4>1. IdOf(uri) \in Ids \ {BuiltinId}
        BY <1>1, InternType DEF TypeOK
      <4> QED BY <2>1, <3>1, <4>1, AppendProperties
    <3>3. Len(stacks[b]) = Depth(b)
      BY <2>1, <2>2
    <3> QED BY <1>2, <2>2, <3>2, <3>3 DEF Depth
  <2>3. CASE b # a
    <3>1. stacks'[b] = stacks[b]
      BY <1>1, <1>2, <2>3 DEF PushNs, TypeOK
    <3>2. b \in nsKeys' <=> b \in nsKeys
      BY <1>2, <2>3
    <3> QED BY <2>1, <3>1, <3>2 DEF Depth
  <2> QED BY <2>2, <2>3
<1> QED BY <1>3 DEF StacksMatchScopes

\* Ending an element pops what it has pushed, which is there.
LEMMA StackEnd ==
    ASSUME IInv, EndElement
    PROVE  StacksMatchScopes' /\ PopsWhatWasPushed'
<1> DEFINE scope == scopes[Len(scopes)]
<1>1. TypeOK /\ StacksMatchScopes /\ PopsWhatWasPushed /\ pc = "closing"
  BY DEF IInv, EndElement
<1>2. nsKeys = {} /\ nsKeys' = {}
  BY <1>1 DEF IInv, TagsAreApart, EndElement
<1>3. scopes \in Seq(Scope) /\ Len(scopes) \in Nat /\ Len(scopes) > 0
  <2>1. nest \in Nat /\ scopes \in Seq(Scope) /\ Len(scopes) \in Nat
    BY <1>1, DepthType DEF TypeOK
  <2>2. Len(scopes) = nest + 1
    BY <1>1, Zenon DEF IInv, NestIsDepth
  <2> QED BY ONLY <2>1, <2>2
<1>4. scope \in Scope /\ scope.keys \in SUBSET Aliases
  <2>1. scope \in Scope
    BY <1>3, ElementOfSeq
  <2> QED BY <2>1 DEF Scope
<1> HIDE DEF scope
<1>5. ASSUME NEW a \in Aliases
      PROVE  /\ stacks[a] \in Seq(Ids \ {BuiltinId})
             /\ Len(stacks[a]) = Cardinality(
                    Declaring(SubSeq(scopes, 1, Len(scopes) - 1), a, Len(scopes) - 1))
                  + (IF a \in scope.keys THEN 1 ELSE 0)
             /\ Cardinality(
                    Declaring(SubSeq(scopes, 1, Len(scopes) - 1), a, Len(scopes) - 1)) \in Nat
  <2>1. Len(stacks[a]) = Depth(a) + 0 /\ Depth(a) \in Nat
    BY <1>1, <1>2, DepthType, Zenon DEF StacksMatchScopes, Depth
  <2>2. Depth(a) = Cardinality(
          Declaring(SubSeq(scopes, 1, Len(scopes) - 1), a, Len(scopes) - 1))
          + (IF a \in scope.keys THEN 1 ELSE 0)
    BY <1>3, DeclaringRemove DEF Depth, scope
  <2>3. Len(scopes) - 1 \in Nat
    BY <1>3
  <2>4. Cardinality(Declaring(SubSeq(scopes, 1, Len(scopes) - 1), a, Len(scopes) - 1)) \in Nat
    BY <2>3, DeclaringFinite
  <2>5. stacks[a] \in Seq(Ids \ {BuiltinId})
    BY <1>1 DEF TypeOK
  <2> QED BY <2>1, <2>2, <2>4, <2>5
<1>6. CanPop(stacks, scope.keys)
  <2>1. ASSUME NEW a \in scope.keys PROVE stacks[a] # <<>>
    <3>1. a \in Aliases
      BY <1>4
    <3>2. Len(stacks[a]) > 0
      BY <1>5, <3>1
    <3> QED BY <3>2
  <2> QED BY <2>1 DEF CanPop
<1>7. CASE Throw("malformed_xml_error") /\ UNCHANGED <<scopes, stacks>>
  BY <1>1, <1>2, <1>7 DEF StacksMatchScopes, PopsWhatWasPushed, Throw
<1>8. CASE /\ error' = error
           /\ scopes' = SubSeq(scopes, 1, Len(scopes) - 1)
           /\ stacks' = PopNs(stacks, scope.keys)
  <2>1. Len(scopes') = Len(scopes) - 1
    BY <1>3, <1>8, WithoutLast
  <2>2. ASSUME NEW a \in Aliases
        PROVE  Len(stacks'[a]) = Cardinality(Declaring(scopes', a, Len(scopes')))
    <3>1. CASE a \in scope.keys
      <4>1. stacks'[a] = SubSeq(stacks[a], 1, Len(stacks[a]) - 1)
        BY <1>8, <3>1 DEF PopNs
      <4>2. Len(stacks[a]) > 0
        BY <1>5, <3>1
      <4>3. Len(stacks'[a]) = Len(stacks[a]) - 1
        BY <1>5, <4>1, <4>2, WithoutLast
      <4>4. Len(stacks[a]) = Cardinality(
              Declaring(SubSeq(scopes, 1, Len(scopes) - 1), a, Len(scopes) - 1)) + 1
        BY <1>5, <3>1
      <4>5. PICK k \in Nat : k = Cardinality(
              Declaring(SubSeq(scopes, 1, Len(scopes) - 1), a, Len(scopes) - 1))
        BY <1>5
      <4>6. Len(stacks'[a]) = k
        BY <4>3, <4>4, <4>5
      <4> QED BY <1>8, <2>1, <4>5, <4>6, Zenon
    <3>2. CASE a \notin scope.keys
      <4>1. stacks'[a] = stacks[a]
        BY <1>8, <3>2 DEF PopNs
      <4>2. Len(stacks[a]) = Cardinality(
              Declaring(SubSeq(scopes, 1, Len(scopes) - 1), a, Len(scopes) - 1)) + 0
        BY <1>5, <3>2
      <4>3. PICK k \in Nat : k = Cardinality(
              Declaring(SubSeq(scopes, 1, Len(scopes) - 1), a, Len(scopes) - 1))
        BY <1>5
      <4>4. Len(stacks'[a]) = k
        BY <4>1, <4>2, <4>3
      <4> QED BY <1>8, <2>1, <4>3, <4>4, Zenon
    <3> QED BY <3>1, <3>2
  <2>3. ASSUME NEW a \in Aliases PROVE Len(stacks'[a]) \in Nat
    <3>1. Len(scopes) - 1 \in Nat
      BY <1>3
    <3> QED BY <2>1, <2>2, <3>1, DeclaringFinite
  <2>4. \A a \in Aliases : (IF a \in nsKeys' THEN 1 ELSE 0) = 0
    BY <1>2
  <2>5. StacksMatchScopes'
    BY <2>2, <2>3, <2>4 DEF StacksMatchScopes
  <2> QED BY <1>1, <1>8, <2>5 DEF PopsWhatWasPushed
<1> QED BY <1>6, <1>7, <1>8, Zenon DEF EndElement, scope

\* The steps that are neither of an attribute, nor of the start or the end of an
\* element, leave the scopes, the keys and the context alone.
Elsewhere ==
    \/ Header \/ EndOfStream \/ Comment \/ Characters \/ Cdata \/ Malformed
    \/ StartDeclaration \/ DeclarationAttribute \/ EndDeclaration
    \/ \E alias \in AllAliases, name \in Names : BeginTag(alias, name)
    \/ \E alias \in AllAliases, name \in Names : EndTag(alias, name)
    \/ CloseNothing \/ Stopped \/ UNCHANGED vars

LEMMA ElsewhereSame ==
    ASSUME Elsewhere
    PROVE  /\ UNCHANGED <<scopes, nsKeys, repo, stacks>>
           /\ error' = error \/ error' = "malformed_xml_error"
  BY DEF Elsewhere, Header, EndOfStream, Comment, Characters, Cdata, Malformed,
     StartDeclaration, DeclarationAttribute, EndDeclaration, BeginTag, EndTag,
     CloseNothing, Stopped, Throw, wrapper, names, vars

\* An attribute that is not a repetition declares an alias its tag has not
\* declared, or leaves the context alone.
LEMMA AttributeCases ==
    ASSUME IInv, NEW key, NEW transient, NEW uri, Attribute(key, uri, transient)
    PROVE  /\ pc = "tag" /\ UNCHANGED scopes
           /\ \/ UNCHANGED <<nsKeys, repo, stacks>> /\ error' # "general_error"
              \/ \E a \in Aliases \ nsKeys : Declare(a, uri)
<1>1. pc = "tag" /\ UNCHANGED scopes
  BY DEF Attribute
<1>2. error # "general_error" /\ TagsAreApart
  BY DEF IInv, PopsWhatWasPushed
<1>3. CASE Duplicate(key)
  BY <1>1, <1>3 DEF Attribute, Throw, names
<1>4. CASE ~ Duplicate(key)
  <2>1. ASSUME NEW a \in Aliases, key = KeyOf(a), Declare(a, uri)
        PROVE  a \in Aliases \ nsKeys
    BY <1>2, <1>4, <2>1 DEF TagsAreApart, Duplicate
  <2>2. CASE DeclareXml(uri)
    BY <1>1, <1>2, <2>2 DEF DeclareXml, Throw, names
  <2>3. CASE Keep(key[1], transient)
    BY <1>1, <1>2, <2>3 DEF Keep, names
  <2> QED BY <1>1, <1>4, <2>1, <2>2, <2>3 DEF Attribute
<1> QED BY <1>3, <1>4

LEMMA StackStep == IInv /\ [Next]_vars => StacksMatchScopes' /\ PopsWhatWasPushed'
<1> SUFFICES ASSUME IInv, [Next]_vars PROVE StacksMatchScopes' /\ PopsWhatWasPushed'
  OBVIOUS
<1>1. StacksMatchScopes /\ PopsWhatWasPushed
  BY DEF IInv
<1>2. CASE Elsewhere
  BY <1>1, <1>2, ElsewhereSame DEF StacksMatchScopes, PopsWhatWasPushed
<1>3. ASSUME NEW key \in Attributes, NEW transient \in BOOLEAN, NEW uri \in Uris \cup {NoUri},
             Attribute(key, uri, transient)
      PROVE  StacksMatchScopes' /\ PopsWhatWasPushed'
  <2>1. CASE UNCHANGED <<nsKeys, repo, stacks>> /\ error' # "general_error"
    BY <1>1, <1>3, <2>1, AttributeCases DEF StacksMatchScopes, PopsWhatWasPushed
  <2>2. ASSUME NEW a \in Aliases \ nsKeys, Declare(a, uri)
        PROVE  StacksMatchScopes' /\ PopsWhatWasPushed'
    <3>1. StacksMatchScopes'
      BY <1>3, <2>2, AttributeCases, StackDeclare
    <3>2. error' = error
      BY <2>2 DEF Declare
    <3> QED BY <1>1, <3>1, <3>2 DEF PopsWhatWasPushed
  <2> QED BY <1>3, <2>1, <2>2, AttributeCases
<1>4. CASE OpenElement \/ OpenEmptyElement
  <2>1. StartElement /\ pc = "tag" /\ stacks' = stacks /\ error' = error
    BY <1>4 DEF OpenElement, OpenEmptyElement, names
  <2>2. StacksMatchScopes'
    BY <2>1, StackStart
  <2> QED BY <1>1, <2>1, <2>2 DEF PopsWhatWasPushed
<1>5. CASE EndElement
  BY <1>5, StackEnd
<1>6. \/ Elsewhere \/ OpenElement \/ OpenEmptyElement \/ EndElement
      \/ \E key \in Attributes, transient \in BOOLEAN :
           \E uri \in IF key \in Declarations THEN Uris \cup {NoUri} ELSE {NoUri} :
              Attribute(key, uri, transient)
  BY DEF Next, Elsewhere
<1> QED BY <1>2, <1>3, <1>4, <1>5, <1>6

----------------------------------------------------------------------------
(* The repository and the buffers.                                         *)

\* Interning keeps the indices apart and gives the URI one.
LEMMA InternIndex ==
    ASSUME repo \in Seq(Uris), NEW uri \in Uris \cup {NoUri},
           \A i, j \in 1 .. Len(repo) : repo[i] = repo[j] => i = j
    PROVE  LET r == Interned(repo, uri) IN
           /\ \A i, j \in 1 .. Len(r) : r[i] = r[j] => i = j
           /\ Range(repo) \subseteq Range(r)
           /\ IdOf(uri) \in Range(r) \cup {Unknown}
<1> DEFINE r == Interned(repo, uri)
<1>1. CASE uri = NoUri
  BY <1>1 DEF Interned, IdOf
<1>2. CASE uri # NoUri /\ uri \in Range(repo)
  BY <1>2 DEF Interned, IdOf
<1>3. CASE uri # NoUri /\ uri \notin Range(repo)
  <2>1. r = Append(repo, uri) /\ uri \in Uris
    BY <1>3 DEF Interned
  <2>2. /\ Len(repo) \in Nat /\ r \in Seq(Uris) /\ Len(r) = Len(repo) + 1
        /\ \A i \in 1 .. Len(repo) : r[i] = repo[i]
        /\ r[Len(repo) + 1] = uri
    BY <2>1, AppendProperties, LenProperties
  <2>3. DOMAIN repo = 1 .. Len(repo) /\ DOMAIN r = 1 .. Len(r)
    BY <2>2, LenProperties
  <2> HIDE DEF r
  <2>4. \A i \in 1 .. Len(repo) : repo[i] # uri
    BY <1>3, <2>3 DEF Range
  <2>5. \A i, j \in 1 .. Len(r) : r[i] = r[j] => i = j
    <3>1. \A i \in 1 .. Len(r) : i \in 1 .. Len(repo) \/ i = Len(repo) + 1
      BY <2>2
    <3> QED BY <2>2, <2>4, <3>1
  <2>6. Range(repo) \subseteq Range(r)
    <3>1. \A i \in 1 .. Len(repo) : i \in 1 .. Len(r)
      BY <2>2
    <3> QED BY <2>2, <2>3, <3>1 DEF Range
  <2>7. uri \in Range(r)
    <3>1. Len(repo) + 1 \in 1 .. Len(r)
      BY <2>2
    <3> QED BY <2>2, <2>3, <3>1 DEF Range
  <2> QED BY <1>3, <2>5, <2>6, <2>7 DEF r, IdOf
<1> QED BY <1>1, <1>2, <1>3

\* The identifier an alias stands for is on a stack, if it is not the builtin one.
LEMMA GetNsKnown ==
    ASSUME TypeOK, EveryIdHasOneIndex, NEW alias \in AllAliases
    PROVE  GetNs(stacks, alias) \in Range(repo) \cup {Unknown, BuiltinId}
<1>1. CASE alias = "xml"
  BY <1>1 DEF GetNs
<1>2. CASE alias # "xml"
  <2>1. alias \in Aliases
    BY <1>2 DEF AllAliases
  <2>2. stacks[alias] \in Seq(Ids \ {BuiltinId})
    BY <2>1 DEF TypeOK
  <2>3. CASE stacks[alias] = <<>>
    BY <1>2, <2>3 DEF GetNs
  <2>4. CASE stacks[alias] # <<>>
    <3>1. Len(stacks[alias]) \in DOMAIN stacks[alias]
      BY <2>2, <2>4
    <3>2. stacks[alias][Len(stacks[alias])] \in Range(stacks[alias])
      BY <3>1 DEF Range
    <3> QED BY <1>2, <2>1, <2>4, <3>2 DEF GetNs, EveryIdHasOneIndex
  <2> QED BY <2>3, <2>4
<1> QED BY <1>1, <1>2

LEMMA IndexStep == IInv /\ [Next]_vars => EveryIdHasOneIndex'
<1> SUFFICES ASSUME IInv, [Next]_vars PROVE EveryIdHasOneIndex'
  OBVIOUS
<1>1. TypeOK /\ EveryIdHasOneIndex
  BY DEF IInv
<1>2. CASE UNCHANGED <<scopes, repo, stacks>>
  BY <1>1, <1>2 DEF EveryIdHasOneIndex
<1>3. ASSUME NEW uri \in Uris \cup {NoUri}, NEW a \in Aliases, Declare(a, uri), scopes' = scopes
      PROVE  EveryIdHasOneIndex'
  <2>1. repo' = Interned(repo, uri) /\ stacks' = PushNs(stacks, a, IdOf(uri))
    BY <1>3 DEF Declare, Push
  <2>2. repo \in Seq(Uris) /\ \A i, j \in 1 .. Len(repo) : repo[i] = repo[j] => i = j
    BY <1>1 DEF TypeOK, EveryIdHasOneIndex
  <2>3. /\ \A i, j \in 1 .. Len(repo') : repo'[i] = repo'[j] => i = j
        /\ Range(repo) \subseteq Range(repo')
        /\ IdOf(uri) \in Range(repo') \cup {Unknown}
    BY <2>1, <2>2, InternIndex
  <2>4. ASSUME NEW b \in Aliases PROVE Range(stacks'[b]) \subseteq Range(repo') \cup {Unknown}
    <3>1. Range(stacks[b]) \subseteq Range(repo) \cup {Unknown}
      BY <1>1 DEF EveryIdHasOneIndex
    <3>2. CASE b # a
      BY <1>1, <2>1, <2>3, <3>1, <3>2 DEF PushNs, TypeOK
    <3>3. CASE b = a
      <4>1. stacks'[b] = Append(stacks[b], IdOf(uri)) /\ stacks[b] \in Seq(Ids \ {BuiltinId})
        BY <1>1, <2>1, <3>3 DEF PushNs, TypeOK
      <4>2. IdOf(uri) \in Ids \ {BuiltinId}
        BY <2>2, InternType
      <4>3. Range(stacks'[b]) = Range(stacks[b]) \cup {IdOf(uri)}
        <5> DEFINE t == Append(stacks[b], IdOf(uri))
        <5>1. /\ t \in Seq(Ids \ {BuiltinId}) /\ Len(t) = Len(stacks[b]) + 1
              /\ \A i \in 1 .. Len(stacks[b]) : t[i] = stacks[b][i]
              /\ t[Len(stacks[b]) + 1] = IdOf(uri) /\ Len(stacks[b]) \in Nat
          BY <4>1, <4>2, AppendProperties, LenProperties
        <5>2. DOMAIN t = 1 .. Len(t) /\ DOMAIN stacks[b] = 1 .. Len(stacks[b])
          BY <4>1, <5>1, LenProperties
        <5> HIDE DEF t
        <5>3. 1 .. Len(t) = (1 .. Len(stacks[b])) \cup {Len(stacks[b]) + 1}
          BY <5>1
        <5>4. Range(t) = Range(stacks[b]) \cup {IdOf(uri)}
          BY <5>1, <5>2, <5>3 DEF Range
        <5> QED BY <4>1, <5>4 DEF t
      <4> QED BY <2>3, <3>1, <4>3
    <3> QED BY <3>2, <3>3
  <2>5. \A i \in 1 .. Len(scopes) : scopes[i].ns \in Range(repo') \cup {Unknown, BuiltinId}
    BY <1>1, <2>3 DEF EveryIdHasOneIndex
  <2> QED BY <1>3, <2>3, <2>4, <2>5 DEF EveryIdHasOneIndex
<1>4. CASE StartElement /\ pc = "tag" /\ UNCHANGED <<repo, stacks>>
  <2>1. GetNs(stacks, tag.alias) \in Range(repo) \cup {Unknown, BuiltinId}
    BY <1>1, GetNsKnown DEF TypeOK, TagRead
  <2> DEFINE r == [ns |-> GetNs(stacks, tag.alias), name |-> tag.name, keys |-> nsKeys]
  <2>2. scopes' = Append(scopes, r) /\ r.ns = GetNs(stacks, tag.alias)
    BY <1>4 DEF StartElement
  <2> HIDE DEF r
  <2>3. scopes \in Seq(Scope) /\ scopes' \in Seq(Scope) /\ Len(scopes') = Len(scopes) + 1
    BY <1>1, <1>4, StartElementType DEF TypeOK
  <2>4. \A i \in 1 .. Len(scopes') : \/ scopes'[i] = scopes[i] /\ i \in 1 .. Len(scopes)
                                     \/ scopes'[i] = r
    BY <2>2, <2>3
  <2>5. \A i \in 1 .. Len(scopes') : scopes'[i].ns \in Range(repo) \cup {Unknown, BuiltinId}
    BY <1>1, <2>1, <2>2, <2>4 DEF EveryIdHasOneIndex
  <2> QED BY <1>1, <1>4, <2>5 DEF EveryIdHasOneIndex
<1>5. CASE EndElement
  <2>1. repo' = repo
    BY <1>5 DEF EndElement
  <2>2. CASE /\ scopes' = SubSeq(scopes, 1, Len(scopes) - 1)
             /\ stacks' = PopNs(stacks, scopes[Len(scopes)].keys)
             /\ CanPop(stacks, scopes[Len(scopes)].keys)
    <3>1. nest \in Nat /\ scopes \in Seq(Scope) /\ Len(scopes) = nest + 1
      <4>1. pc = "closing" /\ nest \in Nat /\ scopes \in Seq(Scope)
        BY <1>1, <1>5 DEF EndElement, TypeOK
      <4> QED BY <4>1, Zenon DEF IInv, NestIsDepth
    <3>2. Len(scopes) > 0
      BY ONLY <3>1
    <3>3. Len(scopes') = Len(scopes) - 1 /\ \A i \in 1 .. Len(scopes) - 1 : scopes'[i] = scopes[i]
      BY <2>2, <3>1, <3>2, WithoutLast
    <3>4. \A i \in 1 .. Len(scopes') : scopes'[i] = scopes[i] /\ i \in 1 .. Len(scopes)
      BY <3>1, <3>3
    <3>5. ASSUME NEW a \in Aliases PROVE Range(stacks'[a]) \subseteq Range(stacks[a])
      <4>1. CASE a \in scopes[Len(scopes)].keys
        <5>1. stacks[a] # <<>> /\ stacks[a] \in Seq(Ids \ {BuiltinId})
          BY <1>1, <2>2, <4>1 DEF CanPop, TypeOK
        <5>2. Len(stacks[a]) > 0
          BY <5>1
        <5>3. stacks'[a] = SubSeq(stacks[a], 1, Len(stacks[a]) - 1)
          BY <2>2, <4>1 DEF PopNs
        <5>4. /\ stacks'[a] \in Seq(Ids \ {BuiltinId})
              /\ Len(stacks'[a]) = Len(stacks[a]) - 1
              /\ \A i \in 1 .. Len(stacks[a]) - 1 : stacks'[a][i] = stacks[a][i]
          BY <5>1, <5>2, <5>3, WithoutLast
        <5>5. DOMAIN stacks'[a] = 1 .. Len(stacks[a]) - 1 /\ DOMAIN stacks[a] = 1 .. Len(stacks[a])
          BY <5>1, <5>4, LenProperties
        <5>6. 1 .. Len(stacks[a]) - 1 \subseteq 1 .. Len(stacks[a])
          BY <5>1
        <5> QED BY <5>4, <5>5, <5>6 DEF Range
      <4>2. CASE a \notin scopes[Len(scopes)].keys
        BY <2>2, <4>2 DEF PopNs
      <4> QED BY <4>1, <4>2
    <3> QED BY <1>1, <2>1, <3>4, <3>5 DEF EveryIdHasOneIndex
  <2>3. CASE UNCHANGED <<scopes, stacks>>
    BY <1>2, <2>1, <2>3
  <2> QED BY <1>5, <2>2, <2>3, EndElementCases
<1>6. CASE Elsewhere
  BY <1>2, <1>6, ElsewhereSame
<1>7. ASSUME NEW key \in Attributes, NEW transient \in BOOLEAN, NEW uri \in Uris \cup {NoUri},
             Attribute(key, uri, transient)
      PROVE  EveryIdHasOneIndex'
  BY <1>2, <1>3, <1>7, AttributeCases
<1>8. CASE OpenElement \/ OpenEmptyElement
  BY <1>4, <1>8 DEF OpenElement, OpenEmptyElement, names
<1>9. \/ Elsewhere \/ OpenElement \/ OpenEmptyElement \/ EndElement
      \/ \E key \in Attributes, transient \in BOOLEAN :
           \E uri \in IF key \in Declarations THEN Uris \cup {NoUri} ELSE {NoUri} :
              Attribute(key, uri, transient)
  BY DEF Next, Elsewhere
<1> QED BY <1>5, <1>6, <1>7, <1>8, <1>9

LEMMA BuffersStep == IInv /\ [Next]_vars => HeldValuesKeepTheirBuffers'
<1> SUFFICES ASSUME IInv, [Next]_vars PROVE HeldValuesKeepTheirBuffers'
  OBVIOUS
<1> DEFINE A == [alias : AllAliases, ns : Ids, buf : Nat]
<1>1. HeldValuesKeepTheirBuffers /\ TagsAreApart /\ bufPos \in Nat /\ attrs \in Seq(A)
  BY DEF IInv, TypeOK
<1> HIDE DEF A
<1>2. ASSUME attrs' = <<>> PROVE HeldValuesKeepTheirBuffers'
  BY <1>2 DEF HeldValuesKeepTheirBuffers
<1>3. ASSUME UNCHANGED attrs, bufPos' = bufPos \/ bufPos' = bufPos + 1
      PROVE  HeldValuesKeepTheirBuffers'
  BY <1>1, <1>3 DEF HeldValuesKeepTheirBuffers
<1>4. CASE Header \/ EndOfStream \/ Comment \/ Characters \/ Cdata \/ Malformed
           \/ StartDeclaration \/ CloseNothing \/ Stopped \/ UNCHANGED vars
           \/ (\E alias \in AllAliases, name \in Names : BeginTag(alias, name))
           \/ (\E alias \in AllAliases, name \in Names : EndTag(alias, name)) \/ EndElement
  <2>1. UNCHANGED <<attrs, bufPos>>
    BY <1>4 DEF Header, EndOfStream, Comment, Characters, Cdata, Malformed,
       StartDeclaration, CloseNothing, Stopped, BeginTag, EndTag, EndElement, wrapper, vars
  <2> QED BY <1>3, <2>1
<1>5. CASE DeclarationAttribute
  <2>1. UNCHANGED attrs /\ (bufPos' = bufPos \/ bufPos' = bufPos + 1)
    BY <1>5, Zenon DEF DeclarationAttribute, StoreValue, wrapper
  <2> QED BY <1>3, <2>1
<1>6. CASE EndDeclaration
  BY <1>2, <1>6 DEF EndDeclaration
<1>7. CASE OpenElement \/ OpenEmptyElement
  BY <1>2, <1>7 DEF OpenElement, OpenEmptyElement, StartElement
<1>8. ASSUME NEW key \in Attributes, NEW transient \in BOOLEAN, NEW uri, Attribute(key, uri, transient)
      PROVE  HeldValuesKeepTheirBuffers'
  <2>1. bufPos' = IF transient THEN bufPos + 1 ELSE bufPos
    BY <1>8, Zenon DEF Attribute, StoreValue
  <2>2. CASE UNCHANGED attrs
    <3>1. bufPos' = bufPos \/ bufPos' = bufPos + 1
      BY <2>1, Zenon
    <3> QED BY <1>3, <2>2, <3>1
  <2>3. CASE Keep(key[1], transient) /\ key \in Attributes /\ key \notin Declarations
    <3>1. PICK r : attrs' = Append(attrs, r) /\ r.buf = (IF transient THEN bufPos + 1 ELSE 0)
                   /\ r \in A
      <4> DEFINE r == [alias |-> key[1],
                      ns |-> IF key[1] = "" THEN Unknown ELSE GetNs(stacks, key[1]),
                      buf |-> IF transient THEN bufPos + 1 ELSE 0]
      <4>1. key[1] \in AllAliases
        BY <2>3 DEF Attributes
      <4>2. GetNs(stacks, key[1]) \in Ids /\ Unknown \in Ids
        BY <4>1, GetNsType DEF Ids, IInv, TypeOK
      <4>3. bufPos + 1 \in Nat /\ 0 \in Nat
        BY ONLY <1>1
      <4>4. (IF transient THEN bufPos + 1 ELSE 0) \in Nat
        BY <4>3, Zenon
      <4>5. (IF key[1] = "" THEN Unknown ELSE GetNs(stacks, key[1])) \in Ids
        BY <4>2, Zenon
      <4>6. r \in A
        BY <4>1, <4>4, <4>5, Zenon DEF A
      <4>7. attrs' = Append(attrs, r)
        BY <2>3, Zenon DEF Keep
      <4> QED BY <4>6, <4>7, Zenon
    <3>2. /\ Len(attrs') = Len(attrs) + 1 /\ Len(attrs) \in Nat
          /\ \A i \in 1 .. Len(attrs) : attrs'[i] = attrs[i]
          /\ attrs'[Len(attrs) + 1] = r
      BY <1>1, <3>1, AppendProperties, LenProperties
    <3>3. \A i \in 1 .. Len(attrs') : i \in 1 .. Len(attrs) \/ i = Len(attrs) + 1
      BY ONLY <3>2
    <3>4. /\ \A i, j \in 1 .. Len(attrs) :
               i # j /\ attrs[i].buf # 0 => attrs[i].buf # attrs[j].buf
          /\ \A i \in 1 .. Len(attrs) : attrs[i].buf \in 0 .. bufPos
      BY <1>1 DEF HeldValuesKeepTheirBuffers
    <3>5. \/ bufPos' = bufPos /\ r.buf = 0
          \/ bufPos' = bufPos + 1 /\ r.buf = bufPos + 1
      BY <2>1, <3>1, Zenon
    <3>6. \A i \in 1 .. Len(attrs') : attrs'[i].buf \in 0 .. bufPos'
      BY ONLY <1>1, <3>2, <3>3, <3>4, <3>5
    <3>7. \A i, j \in 1 .. Len(attrs') :
             i # j /\ attrs'[i].buf # 0 => attrs'[i].buf # attrs'[j].buf
      BY ONLY <1>1, <3>2, <3>3, <3>4, <3>5
    <3> QED BY <3>6, <3>7 DEF HeldValuesKeepTheirBuffers
  <2> QED BY <1>8, <2>2, <2>3 DEF Attribute, Declare, DeclareXml
<1> QED BY <1>4, <1>5, <1>6, <1>7, <1>8 DEF Next

----------------------------------------------------------------------------
(* The theorems.                                                           *)

\* The inductive invariant holds: the stacks of the context, the keys of the
\* scopes and the attributes of a tag fit together at every step of the parser.
THEOREM InductiveInvariant == Spec => []IInv
<1>1. IInv /\ [Next]_vars => IInv'
  <2> SUFFICES ASSUME IInv, [Next]_vars PROVE IInv'
    OBVIOUS
  <2>1. TypeOK'
    BY TypeStep
  <2>2. TagsAreApart' /\ NestIsDepth'
    BY ApartStep, NestStep
  <2>3. StacksMatchScopes' /\ PopsWhatWasPushed'
    BY StackStep
  <2>4. EveryIdHasOneIndex' /\ HeldValuesKeepTheirBuffers'
    BY IndexStep, BuffersStep
  <2> QED BY <2>1, <2>2, <2>3, <2>4 DEF IInv
<1> QED BY InitIInv, <1>1, PTL DEF Spec

\* The state of the parsers, their scopes and their context keeps its types.
THEOREM TypeCorrect == Spec => []TypeOK
<1>1. IInv => TypeOK
  BY DEF IInv
<1> QED BY <1>1, InductiveInvariant, PTL

\* An alias is on its stack once for every open scope, or tag, that declares it:
\* end_element undoes exactly what the element's attributes have pushed.
THEOREM DeclarationsAreUndone == Spec => []StacksMatchScopes
<1>1. IInv => StacksMatchScopes
  BY DEF IInv
<1> QED BY <1>1, InductiveInvariant, PTL

\* The context is never asked to pop a stack that is empty.
THEOREM NothingElseIsPopped == Spec => []PopsWhatWasPushed
<1>1. IInv => PopsWhatWasPushed
  BY DEF IInv
<1> QED BY <1>1, InductiveInvariant, PTL

\* The nest level of sax_parser is the number of scopes of sax_ns_parser: the
\* scope end_element looks at exists.
THEOREM LevelsAreScopes == Spec => []NestIsDepth
<1>1. IInv => NestIsDepth
  BY DEF IInv
<1> QED BY <1>1, InductiveInvariant, PTL

\* Every identifier the parser hands out has one index in the repository.
THEOREM IdsHaveOneIndex == Spec => []EveryIdHasOneIndex
<1>1. IInv => EveryIdHasOneIndex
  BY DEF IInv
<1> QED BY <1>1, InductiveInvariant, PTL

\* Two values an element holds never share a temporary buffer.
THEOREM HeldValuesAreSafe == Spec => []HeldValuesKeepTheirBuffers
<1>1. IInv => HeldValuesKeepTheirBuffers
  BY DEF IInv
<1> QED BY <1>1, InductiveInvariant, PTL

\* When the root element has ended, or the stream has, no buffer, key or
\* attribute is left: the assertion at the end of parse() holds.
THEOREM EverythingIsGivenBack == Spec => []NothingIsLeftOver
<1>1. IInv => NothingIsLeftOver
  BY DEF IInv, TagsAreApart, NothingIsLeftOver
<1> QED BY <1>1, InductiveInvariant, PTL
\* Levels, scopes and stacks are in step: end_element finds a scope to take and,
\* for every key of it, something to pop.
THEOREM LevelsKeepInStep == Spec => []LevelsInStep
BY NothingElseIsPopped, LevelsAreScopes, PTL DEF LevelsInStep

-----------------------------------------------------------------------------
(***************************************************************************)
(* SaxNsParser implements NamespaceScoping: the stacks of aliases, the     *)
(* keys of the scopes and the tags read attribute by attribute are one way *)
(* to keep, for every open element, what every alias means in it.          *)
(***************************************************************************)

\* What the aliases mean in the i-th of the elements s, whose declarations are
\* on the stacks st.
EnvOf(s, st, i) ==
    [a \in AllAliases |->
        IF a = "xml" THEN BuiltinId
        ELSE LET n == Cardinality(Declaring(s, a, i)) IN
             IF n = 0 THEN Unknown ELSE st[a][n]]

\* What an alias means in the context now.
Meaning(st) == [a \in AllAliases |-> GetNs(st, a)]

Stacks == [Aliases -> Seq(Ids \ {BuiltinId})]

\* An alias whose stack holds the declarations of the first i elements and no
\* more means what it means in the i-th.
LEMMA EnvIsTop ==
    ASSUME NEW s, NEW i \in Nat, NEW st \in Stacks, NEW a \in AllAliases,
           a \in Aliases => Len(st[a]) = Cardinality(Declaring(s, a, i))
    PROVE  EnvOf(s, st, i)[a] = GetNs(st, a)
<1>1. CASE a = "xml"
  BY <1>1 DEF EnvOf, GetNs
<1>2. CASE a # "xml"
  <2>1. a \in Aliases /\ st[a] \in Seq(Ids \ {BuiltinId})
    BY <1>2 DEF AllAliases, Stacks
  <2>2. PICK n \in Nat : n = Cardinality(Declaring(s, a, i)) /\ n = Len(st[a])
    BY <2>1, DeclaringFinite
  <2>3. EnvOf(s, st, i)[a] = IF n = 0 THEN Unknown ELSE st[a][n]
    BY <1>2, <2>2, Zenon DEF EnvOf
  <2>4. n = 0 <=> st[a] = <<>>
    BY <2>1, <2>2
  <2> QED BY <1>2, <2>2, <2>3, <2>4, Zenon DEF GetNs
<1> QED BY <1>1, <1>2

\* What the aliases mean in an element only depends on the elements up to it ...
LEMMA EnvOfSameElements ==
    ASSUME NEW s, NEW t, NEW i \in Nat, NEW st, \A j \in 1 .. i : s[j] = t[j]
    PROVE  EnvOf(s, st, i) = EnvOf(t, st, i)
<1>1. \A a \in Aliases : Declaring(s, a, i) = Declaring(t, a, i)
  BY DeclaringSame
<1> QED BY <1>1, Zenon DEF EnvOf, AllAliases

\* ... and on their declarations, on the stacks.
LEMMA EnvOfSameStacks ==
    ASSUME NEW s, NEW i \in Nat, NEW st, NEW su,
           \A a \in Aliases : \A n \in 1 .. Cardinality(Declaring(s, a, i)) : st[a][n] = su[a][n]
    PROVE  EnvOf(s, st, i) = EnvOf(s, su, i)
<1>1. ASSUME NEW a \in AllAliases PROVE EnvOf(s, st, i)[a] = EnvOf(s, su, i)[a]
  <2>1. CASE a = "xml"
    BY <2>1 DEF EnvOf
  <2>2. CASE a # "xml"
    <3>1. a \in Aliases
      BY <2>2 DEF AllAliases
    <3>2. PICK n \in Nat : n = Cardinality(Declaring(s, a, i))
      BY DeclaringFinite
    <3>3. n # 0 => st[a][n] = su[a][n]
      BY <3>1, <3>2
    <3>4. EnvOf(s, st, i)[a] = IF n = 0 THEN Unknown ELSE st[a][n]
      BY <2>2, <3>2, Zenon DEF EnvOf
    <3>5. EnvOf(s, su, i)[a] = IF n = 0 THEN Unknown ELSE su[a][n]
      BY <2>2, <3>2, Zenon DEF EnvOf
    <3>6. CASE n = 0
      BY <3>4, <3>5, <3>6
    <3>7. CASE n # 0
      BY <3>3, <3>4, <3>5, <3>7
    <3> QED BY <3>6, <3>7
  <2> QED BY <2>1, <2>2
<1> QED BY <1>1, Zenon DEF EnvOf

\* An open element, as the abstract specification has it.
ElementOf(s, st, i) ==
    [ns |-> s[i].ns, name |-> s[i].name, declares |-> s[i].keys, env |-> EnvOf(s, st, i)]
ElementsOf(s, st) == [i \in 1 .. Len(s) |-> ElementOf(s, st, i)]

LEMMA OpenIsElements ==
    /\ OpenElements = ElementsOf(scopes, stacks)
    /\ OpenElements' = ElementsOf(scopes', stacks')
  BY DEF OpenElements, ElementsOf, ElementOf, EnvOf, EnvAt

LEMMA ElementsLen ==
    ASSUME NEW s \in Seq(Scope), NEW st
    PROVE  /\ Len(s) \in Nat
           /\ Len(ElementsOf(s, st)) = Len(s)
           /\ \A i \in 1 .. Len(s) : ElementsOf(s, st)[i] = ElementOf(s, st, i)
           /\ ElementsOf(s, st) = <<>> <=> s = <<>>
  BY DEF ElementsOf

----------------------------------------------------------------------------
\* What is known of the stacks wherever no tag is read: an alias is on its stack
\* once for every element that declares it.
Settled(s, st) ==
    \A a \in Aliases : Len(st[a]) = Cardinality(Declaring(s, a, Len(s)))

LEMMA InvFacts ==
    ASSUME IInv
    PROVE  /\ scopes \in Seq(Scope) /\ Len(scopes) \in Nat /\ stacks \in Stacks
           /\ nsKeys = {} => Settled(scopes, stacks)
           /\ \A a \in Aliases \ nsKeys :
                Len(stacks[a]) = Cardinality(Declaring(scopes, a, Len(scopes)))
<1>1. TypeOK /\ StacksMatchScopes
  BY DEF IInv
<1>2. scopes \in Seq(Scope) /\ Len(scopes) \in Nat /\ stacks \in Stacks
  BY <1>1, DepthType DEF TypeOK, Stacks
<1>3. ASSUME NEW a \in Aliases \ nsKeys
      PROVE  Len(stacks[a]) = Cardinality(Declaring(scopes, a, Len(scopes)))
  <2>1. Len(stacks[a]) = Cardinality(Declaring(scopes, a, Len(scopes))) + 0
    BY <1>1, <1>3, Zenon DEF StacksMatchScopes
  <2>2. Cardinality(Declaring(scopes, a, Len(scopes))) \in Nat
    BY <1>2, DeclaringFinite
  <2> QED BY <2>1, <2>2
<1> QED BY <1>2, <1>3 DEF Settled

\* The environment of the innermost element is what the context says.
LEMMA CurrentIsEnv ==
    ASSUME IInv
    PROVE  Scoping!Current = EnvOf(scopes, stacks, Len(scopes))
<1>1. scopes \in Seq(Scope) /\ Len(scopes) \in Nat
  BY InvFacts
<1>2. CASE scopes = <<>>
  <2>1. OpenElements = <<>>
    BY <1>1, <1>2, ElementsLen, OpenIsElements
  <2>2. Scoping!Current = Scoping!RootEnvironment
    BY <2>1 DEF Scoping!Current
  <2>3. \A a : Cardinality(Declaring(scopes, a, Len(scopes))) = 0
    BY <1>2, DeclaringFinite
  <2> QED BY <2>2, <2>3 DEF Scoping!RootEnvironment, EnvOf, AllAliases
<1>3. CASE scopes # <<>>
  <2>1. Len(scopes) \in 1 .. Len(scopes)
    BY <1>1, <1>3
  <2>2. OpenElements # <<>> /\ Len(OpenElements) = Len(scopes)
        /\ OpenElements[Len(scopes)] = ElementOf(scopes, stacks, Len(scopes))
    BY <1>1, <1>3, <2>1, ElementsLen, OpenIsElements
  <2> QED BY <2>2 DEF Scoping!Current, ElementOf
<1> QED BY <1>2, <1>3

\* With no tag half read, it is what all aliases mean.
LEMMA CurrentIsMeaning ==
    ASSUME IInv, NEW a \in AllAliases, a \notin nsKeys
    PROVE  Scoping!Current[a] = GetNs(stacks, a)
<1>1. Len(scopes) \in Nat /\ stacks \in Stacks
      /\ (a \in Aliases => Len(stacks[a]) = Cardinality(Declaring(scopes, a, Len(scopes))))
  BY InvFacts
<1>2. EnvOf(scopes, stacks, Len(scopes))[a] = GetNs(stacks, a)
  BY <1>1, EnvIsTop
<1> QED BY <1>2, CurrentIsEnv

----------------------------------------------------------------------------
(* The steps.                                                              *)

\* A step that leaves the scopes alone and pops nothing changes no element: what
\* it pushes is above the declarations of those that are open.
LEMMA ReadStep ==
    ASSUME IInv, scopes' = scopes,
           \A a \in Aliases : \A n \in 1 .. Len(stacks[a]) : stacks'[a][n] = stacks[a][n]
    PROVE  OpenElements' = OpenElements
<1>1. scopes \in Seq(Scope) /\ Len(scopes) \in Nat /\ TypeOK /\ StacksMatchScopes
  BY InvFacts DEF IInv
<1>2. ASSUME NEW i \in 1 .. Len(scopes)
      PROVE  EnvOf(scopes, stacks, i) = EnvOf(scopes, stacks', i)
  <2>1. ASSUME NEW a \in Aliases, NEW n \in 1 .. Cardinality(Declaring(scopes, a, i))
        PROVE  stacks[a][n] = stacks'[a][n]
    <3>1. Cardinality(Declaring(scopes, a, i)) <= Cardinality(Declaring(scopes, a, Len(scopes)))
          /\ Cardinality(Declaring(scopes, a, i)) \in Nat
          /\ Cardinality(Declaring(scopes, a, Len(scopes))) \in Nat
      BY <1>1, DeclaringGrows, DeclaringFinite
    <3>2. PICK k \in {0, 1} : Len(stacks[a]) = Cardinality(Declaring(scopes, a, Len(scopes))) + k
      BY <1>1 DEF StacksMatchScopes
    <3>3. n \in 1 .. Len(stacks[a])
      BY <3>1, <3>2
    <3> QED BY <3>3
  <2>2. i \in Nat
    BY <1>1
  <2> QED BY <2>1, <2>2, EnvOfSameStacks
<1>3. ElementsOf(scopes, stacks) = ElementsOf(scopes, stacks')
  BY <1>2, Zenon DEF ElementsOf, ElementOf
<1> QED BY <1>3, OpenIsElements

\* Declaring an alias pushes on top.
LEMMA DeclareStep ==
    ASSUME IInv, NEW a \in Aliases, NEW uri \in Uris \cup {NoUri}, Declare(a, uri)
    PROVE  \A b \in Aliases : \A n \in 1 .. Len(stacks[b]) : stacks'[b][n] = stacks[b][n]
<1>1. TypeOK
  BY DEF IInv
<1>2. stacks' = PushNs(stacks, a, IdOf(uri)) /\ IdOf(uri) \in Ids \ {BuiltinId}
  BY <1>1, InternType DEF Declare, Push, TypeOK
<1>3. ASSUME NEW b \in Aliases, NEW n \in 1 .. Len(stacks[b])
      PROVE  stacks'[b][n] = stacks[b][n]
  <2>1. stacks[b] \in Seq(Ids \ {BuiltinId})
    BY <1>1 DEF TypeOK
  <2>2. stacks'[b] = stacks[b] \/ stacks'[b] = Append(stacks[b], IdOf(uri))
    BY <1>1, <1>2 DEF PushNs, TypeOK
  <2>3. Append(stacks[b], IdOf(uri))[n] = stacks[b][n]
    BY <1>2, <2>1, AppendProperties
  <2> QED BY <2>2, <2>3
<1> QED BY <1>3

\* Starting an element adds it, with what the aliases mean once its own
\* declarations hold.
LEMMA StartStep ==
    ASSUME IInv, IInv', StartElement, pc = "tag", stacks' = stacks
    PROVE  Scoping!Start
<1> DEFINE r == [ns |-> GetNs(stacks, tag.alias), name |-> tag.name, keys |-> nsKeys]
<1>1. /\ scopes \in Seq(Scope) /\ Len(scopes) \in Nat /\ stacks \in Stacks
      /\ tag.alias \in AllAliases /\ tag.name \in Names /\ nsKeys \in SUBSET Aliases
  BY InvFacts DEF IInv, TypeOK, TagRead, TagsAreApart
<1>2. /\ scopes' = Append(scopes, r) /\ Len(scopes') = Len(scopes) + 1
      /\ scopes' \in Seq(Scope) /\ nsKeys' = {}
  BY StartElementType DEF StartElement
<1>3. r \in Scope
  BY <1>1, GetNsType DEF Scope, Stacks
<1>4. r.ns = GetNs(stacks, tag.alias) /\ r.name = tag.name /\ r.keys = nsKeys
  OBVIOUS
<1> HIDE DEF r
<1>5. scopes'[Len(scopes) + 1] = r /\ \A i \in 1 .. Len(scopes) : scopes'[i] = scopes[i]
  BY <1>1, <1>2, <1>3, AppendProperties
<1>6. Settled(scopes', stacks)
  <2>1. \A a \in Aliases : Len(stacks'[a]) = Cardinality(Declaring(scopes', a, Len(scopes'))) + 0
    BY <1>2, Zenon DEF IInv, StacksMatchScopes
  <2>2. \A a \in Aliases : Cardinality(Declaring(scopes', a, Len(scopes'))) \in Nat
    BY <1>1, <1>2, DeclaringFinite
  <2> QED BY <2>1, <2>2 DEF Settled
<1>7. /\ Len(OpenElements) = Len(scopes) /\ Len(OpenElements') = Len(scopes) + 1
      /\ \A i \in 1 .. Len(scopes) : OpenElements[i] = ElementOf(scopes, stacks, i)
      /\ \A i \in 1 .. Len(scopes) + 1 : OpenElements'[i] = ElementOf(scopes', stacks, i)
  BY <1>1, <1>2, ElementsLen, OpenIsElements
<1>8. ASSUME NEW i \in 1 .. Len(scopes) PROVE OpenElements'[i] = OpenElements[i]
  <2>1. EnvOf(scopes, stacks, i) = EnvOf(scopes', stacks, i)
    <3>1. i \in Nat /\ \A j \in 1 .. i : scopes[j] = scopes'[j]
      BY <1>1, <1>5
    <3> QED BY <3>1, EnvOfSameElements
  <2>2. scopes'[i] = scopes[i]
    BY <1>5
  <2>3. ElementOf(scopes', stacks, i) = ElementOf(scopes, stacks, i)
    BY <2>1, <2>2 DEF ElementOf
  <2>4. i \in 1 .. Len(scopes) + 1
    BY <1>1
  <2> QED BY <1>7, <2>3, <2>4
<1> DEFINE elem == OpenElements'[Len(OpenElements')]
<1>9. elem = [ns |-> r.ns, name |-> r.name, declares |-> r.keys,
              env |-> EnvOf(scopes', stacks, Len(scopes'))]
  BY <1>1, <1>2, <1>5, <1>7 DEF ElementOf
<1>10. ASSUME NEW a \in AllAliases
       PROVE  EnvOf(scopes', stacks, Len(scopes'))[a] = GetNs(stacks, a)
  BY <1>1, <1>2, <1>6, EnvIsTop DEF Settled
<1>11. EnvOf(scopes', stacks, Len(scopes')) \in [AllAliases -> Ids]
  <2>1. \A a \in AllAliases : EnvOf(scopes', stacks, Len(scopes'))[a] \in Ids
    BY <1>1, <1>10, GetNsType DEF Stacks
  <2> DEFINE e == EnvOf(scopes', stacks, Len(scopes'))
  <2>2. e = [a \in AllAliases |-> e[a]]
    BY Zenon DEF EnvOf
  <2> HIDE DEF e
  <2> QED BY <2>1, <2>2 DEF e
<1>12. elem.ns = r.ns /\ elem.name = r.name /\ elem.declares = r.keys
       /\ elem.env = EnvOf(scopes', stacks, Len(scopes'))
  BY <1>9
<1>13. elem \in Scoping!Element
  BY <1>1, <1>4, <1>9, <1>11, GetNsType
     DEF Scoping!Element, Scoping!Environment, AllAliases, Stacks
<1> HIDE DEF elem
<1>14. Scoping!MayStart(elem)
  <2>1. \A a \in AllAliases : a \notin elem.declares => elem.env[a] = Scoping!Current[a]
    BY <1>4, <1>10, <1>12, CurrentIsMeaning
  <2>2. elem.ns = elem.env[tag.alias]
    BY <1>1, <1>4, <1>10, <1>12
  <2> QED BY <1>1, <1>13, <2>1, <2>2 DEF Scoping!MayStart, AllAliases
<1> QED BY <1>1, <1>7, <1>8, <1>14 DEF Scoping!Start, elem

\* Ending an element restores the environment of the one outside of it.
LEMMA EndStep ==
    ASSUME IInv, IInv', pc = "closing", nsKeys' = {},
           scopes' = SubSeq(scopes, 1, Len(scopes) - 1),
           stacks' = PopNs(stacks, scopes[Len(scopes)].keys),
           scopes[Len(scopes)].ns = GetNs(stacks, tag.alias),
           scopes[Len(scopes)].name = tag.name
    PROVE  Scoping!End
<1>1. /\ scopes \in Seq(Scope) /\ Len(scopes) \in Nat /\ stacks \in Stacks
      /\ tag \in TagRead /\ tag.name \in Names /\ nsKeys = {} /\ nest \in Nat
  BY InvFacts DEF IInv, TypeOK, TagsAreApart
<1>2. Len(scopes) = nest + 1
  BY Zenon DEF IInv, NestIsDepth
<1>3. Len(scopes) > 0 /\ Len(scopes) \in 1 .. Len(scopes) /\ scopes # <<>>
  BY <1>1, <1>2
<1>4. /\ scopes' \in Seq(Scope) /\ Len(scopes') = Len(scopes) - 1
      /\ \A i \in 1 .. Len(scopes) - 1 : scopes'[i] = scopes[i]
  BY <1>1, <1>3, WithoutLast
<1>5. Settled(scopes', stacks')
  <2>1. \A a \in Aliases : Len(stacks'[a]) = Cardinality(Declaring(scopes', a, Len(scopes'))) + 0
    BY Zenon DEF IInv, StacksMatchScopes
  <2>2. \A a \in Aliases : Cardinality(Declaring(scopes', a, Len(scopes'))) \in Nat
    BY <1>1, <1>3, <1>4, DeclaringFinite
  <2> QED BY <2>1, <2>2 DEF Settled
<1>6. /\ Len(OpenElements) = Len(scopes) /\ OpenElements # <<>>
      /\ Len(OpenElements') = Len(scopes) - 1
      /\ \A i \in 1 .. Len(scopes) : OpenElements[i] = ElementOf(scopes, stacks, i)
      /\ \A i \in 1 .. Len(scopes) - 1 : OpenElements'[i] = ElementOf(scopes', stacks', i)
  <2>1. /\ Len(ElementsOf(scopes, stacks)) = Len(scopes)
        /\ \A i \in 1 .. Len(scopes) :
             ElementsOf(scopes, stacks)[i] = ElementOf(scopes, stacks, i)
        /\ ElementsOf(scopes, stacks) # <<>>
    BY <1>1, <1>3, ElementsLen
  <2>2. /\ Len(ElementsOf(scopes', stacks')) = Len(scopes')
        /\ \A i \in 1 .. Len(scopes') :
             ElementsOf(scopes', stacks')[i] = ElementOf(scopes', stacks', i)
    BY <1>4, ElementsLen
  <2> QED BY <1>4, <2>1, <2>2, OpenIsElements
<1>7. ASSUME NEW i \in 1 .. Len(scopes) - 1 PROVE OpenElements'[i] = OpenElements[i]
  <2>1. i \in Nat /\ i <= Len(scopes') /\ Len(scopes') \in Nat
    BY <1>1, <1>3, <1>4
  <2>2. ASSUME NEW a \in Aliases, NEW n \in 1 .. Cardinality(Declaring(scopes', a, i))
        PROVE  stacks'[a][n] = stacks[a][n]
    <3>1. /\ Cardinality(Declaring(scopes', a, i)) <= Cardinality(Declaring(scopes', a, Len(scopes')))
          /\ Cardinality(Declaring(scopes', a, i)) \in Nat
          /\ Cardinality(Declaring(scopes', a, Len(scopes'))) \in Nat
      BY <2>1, DeclaringGrows, DeclaringFinite
    <3>2. Len(stacks'[a]) = Cardinality(Declaring(scopes', a, Len(scopes')))
      BY <1>5 DEF Settled
    <3>3. n \in 1 .. Len(stacks'[a])
      BY <3>1, <3>2
    <3>4. stacks[a] \in Seq(Ids \ {BuiltinId})
      BY <1>1 DEF Stacks
    <3>5. CASE stacks'[a] = stacks[a]
      BY <3>5
    <3>6. CASE stacks'[a] = SubSeq(stacks[a], 1, Len(stacks[a]) - 1)
      <4>1. Len(stacks[a]) > 0
        BY <3>3, <3>4, <3>6
      <4> QED BY <3>3, <3>4, <3>6, <4>1, WithoutLast
    <3> QED BY <3>5, <3>6, Zenon DEF PopNs
  <2>3. \A j \in 1 .. i : scopes'[j] = scopes[j]
    BY <1>4, <2>1
  <2>4. EnvOf(scopes', stacks', i) = EnvOf(scopes, stacks, i)
    <3>1. EnvOf(scopes', stacks', i) = EnvOf(scopes', stacks, i)
      BY <2>1, <2>2, EnvOfSameStacks
    <3>2. EnvOf(scopes', stacks, i) = EnvOf(scopes, stacks, i)
      BY <2>1, <2>3, EnvOfSameElements
    <3> QED BY <3>1, <3>2
  <2>5. scopes'[i] = scopes[i] /\ i \in 1 .. Len(scopes)
    BY <1>1, <1>4
  <2> QED BY <1>6, <2>4, <2>5 DEF ElementOf
<1>8. OpenElements' = SubSeq(OpenElements, 1, Len(OpenElements) - 1)
  <2> DEFINE X == {OpenElements[i] : i \in 1 .. Len(scopes)}
  <2>1. OpenElements = [i \in 1 .. Len(scopes) |-> OpenElements[i]]
    BY <1>6, Zenon DEF OpenElements
  <2>2. OpenElements \in Seq(X)
    BY <1>1, <2>1
  <2>3. OpenElements' = [i \in 1 .. Len(scopes) - 1 |-> OpenElements'[i]]
    <3>1. OpenElements' = [i \in 1 .. Len(scopes') |-> OpenElements'[i]]
      BY Zenon DEF OpenElements
    <3> QED BY <1>4, <3>1
  <2>4. \A i \in 1 .. Len(scopes) - 1 : OpenElements'[i] \in X
    BY <1>1, <1>7
  <2> HIDE DEF X
  <2>5. OpenElements' \in Seq(X)
    BY <1>1, <1>3, <2>3, <2>4
  <2>6. /\ SubSeq(OpenElements, 1, Len(OpenElements) - 1) \in Seq(X)
        /\ Len(SubSeq(OpenElements, 1, Len(OpenElements) - 1)) = Len(scopes) - 1
        /\ \A i \in 1 .. Len(scopes) - 1 :
             SubSeq(OpenElements, 1, Len(OpenElements) - 1)[i] = OpenElements[i]
    BY <1>3, <1>6, <2>2, WithoutLast
  <2> QED BY <1>6, <1>7, <2>5, <2>6, SeqEqual
<1>9. /\ OpenElements[Len(OpenElements)].ns = scopes[Len(scopes)].ns
      /\ OpenElements[Len(OpenElements)].name = scopes[Len(scopes)].name
  <2>1. OpenElements[Len(OpenElements)] = ElementOf(scopes, stacks, Len(scopes))
    BY <1>3, <1>6
  <2> QED BY <2>1 DEF ElementOf
<1>10. (IF pc = "closing" THEN tag ELSE NoTag) = tag /\ tag \in Scoping!Tag
  BY <1>1 DEF TagRead, Scoping!Tag, AllAliases
<1>11. Scoping!Current[tag.alias] = GetNs(stacks, tag.alias)
  BY <1>1, CurrentIsMeaning DEF TagRead
<1> QED BY <1>6, <1>8, <1>9, <1>10, <1>11 DEF Scoping!End

\* Every step is one of the abstract specification, or no step of it.
LEMMA ScopingStep == IInv /\ IInv' /\ [Next]_vars => [Scoping!Next]_(Scoping!vars)
<1> SUFFICES ASSUME IInv, IInv', [Next]_vars PROVE Scoping!Next
  BY DEF Scoping!vars
<1>1. (IF pc' = "closing" THEN tag' ELSE NoTag) \in Scoping!Tag \cup {NoTag}
  <2>1. tag' \in TagRead /\ (pc' = "closing" => tag'.name \in Names)
    BY DEF IInv, TypeOK, TagsAreApart
  <2> QED BY <2>1 DEF TagRead, Scoping!Tag, AllAliases
<1>2. SUFFICES Scoping!Start \/ Scoping!End \/ OpenElements' = OpenElements
  BY <1>1 DEF Scoping!Next, Scoping!Read
<1>3. CASE Elsewhere
  BY <1>3, ElsewhereSame, ReadStep
<1>4. ASSUME NEW key \in Attributes, NEW transient \in BOOLEAN, NEW uri \in Uris \cup {NoUri},
             Attribute(key, uri, transient)
      PROVE  OpenElements' = OpenElements
  <2>1. CASE UNCHANGED stacks
    BY <1>4, <2>1, AttributeCases, ReadStep
  <2>2. ASSUME NEW a \in Aliases \ nsKeys, Declare(a, uri)
        PROVE  OpenElements' = OpenElements
    BY <1>4, <2>2, AttributeCases, DeclareStep, ReadStep
  <2> QED BY <1>4, <2>1, <2>2, AttributeCases
<1>5. CASE OpenElement \/ OpenEmptyElement
  BY <1>5, StartStep DEF OpenElement, OpenEmptyElement, names
<1>6. CASE EndElement
  <2>1. pc = "closing" /\ nsKeys' = {}
    BY <1>6 DEF EndElement, IInv, TagsAreApart
  <2>2. CASE UNCHANGED <<scopes, stacks>>
    BY <2>2, ReadStep
  <2> QED BY <1>6, <2>1, <2>2, EndElementCases, EndStep
<1>7. \/ Elsewhere \/ OpenElement \/ OpenEmptyElement \/ EndElement
      \/ \E key \in Attributes, transient \in BOOLEAN :
           \E uri \in IF key \in Declarations THEN Uris \cup {NoUri} ELSE {NoUri} :
              Attribute(key, uri, transient)
  BY DEF Next, Elsewhere
<1> QED BY <1>3, <1>4, <1>5, <1>6, <1>7

\* The parsers implement lexical scoping: elements nest, and an alias means what
\* the innermost open element that declares it says.
THEOREM ScopingImplemented == Spec => ImplementsScoping
<1>1. Init => Scoping!Init
  BY DEF Init, Scoping!Init, OpenElements
<1> QED BY <1>1, ScopingStep, InductiveInvariant, PTL DEF Spec, ImplementsScoping, Scoping!Spec
=============================================================================
