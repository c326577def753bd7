----------------------- MODULE XmlStreamHandlerProofs -----------------------
(***************************************************************************)
(* Proofs about XmlStreamHandler.  The strengthening says that the open    *)
(* elements are cut into layers, one for each context on the stack: the    *)
(* stack of the k-th context holds the elements after the first b[k] up to *)
(* the first b[k + 1], and only the root context's layer may be empty.     *)
(***************************************************************************)
EXTENDS XmlStreamHandler, SequenceTheorems, TLAPS

Element == [elem : Elements, context : AllContexts]
Stacks == [AllContexts -> Seq(Elements)]

Layered(b, cs, st, op) ==
    /\ b \in [1 .. Len(cs) + 1 -> Nat]
    /\ b[1] = 0 /\ b[Len(cs) + 1] = Len(op)
    /\ \A k, l \in 1 .. Len(cs) + 1 :
         k < l => b[k] <= b[l] /\ (k > 1 => b[k] < b[l])
    /\ \A k \in 1 .. Len(cs) :
         /\ Len(st[cs[k]]) = b[k + 1] - b[k]
         /\ \A i \in 1 .. Len(st[cs[k]]) :
              op[b[k] + i] = [elem |-> st[cs[k]][i], context |-> cs[k]]

Once(cs) == \A i, j \in 1 .. Len(cs) : cs[i] = cs[j] => i = j

\* The context of ignored elements is on top of the stack or not on it, and the
\* others come from one another.
ContextsNest(cs) ==
    /\ \A i, j \in 1 .. Len(cs) : i < j =>
         /\ cs[i] # Invalid
         /\ cs[j] # Invalid => Level[cs[i]] < Level[cs[j]]
    /\ cs # <<>> => cs[1] = Root

Idle(cs, st) == \A c \in AllContexts : c \notin Range(cs) => st[c] = <<>>

Open ==
    /\ contexts # <<>> /\ Idle(contexts, stack)
    /\ \E b : Layered(b, contexts, stack, open)

IInv ==
    /\ TypeOK /\ PopsWhatWasPushed /\ ContextsNest(contexts)
    /\ phase = "open" => Open
    /\ phase # "failed" => Idle(contexts, stack)

----------------------------------------------------------------------------
(* Layers.                                                                 *)

\* The elements of a sequence.
LEMMA RangeIs ==
    ASSUME NEW S, NEW s \in Seq(S)
    PROVE  Range(s) = {s[i] : i \in 1 .. Len(s)}
  BY LenProperties DEF Range

\* Contexts that come from one another differ.
LEMMA NestedOnce ==
    ASSUME NEW cs \in Seq(AllContexts), ContextsNest(cs)
    PROVE  Once(cs)
<1> SUFFICES ASSUME NEW i \in 1 .. Len(cs), NEW j \in 1 .. Len(cs), cs[i] = cs[j], i # j
             PROVE  FALSE
  BY DEF Once
<1>1. \A k, l \in 1 .. Len(cs) : k < l => cs[k] # cs[l]
  <2> SUFFICES ASSUME NEW k \in 1 .. Len(cs), NEW l \in 1 .. Len(cs), k < l, cs[k] = cs[l]
               PROVE  FALSE
    OBVIOUS
  <2>1. cs[k] \in Contexts
    BY DEF ContextsNest, AllContexts
  <2>2. Level[cs[k]] < Level[cs[l]] /\ Level[cs[k]] \in Nat
    BY <2>1, HandlerAssumption DEF ContextsNest
  <2> QED BY <2>2
<1>2. i < j \/ j < i
  OBVIOUS
<1> QED BY <1>1, <1>2

\* An element given to the context on top makes its layer longer.
LEMMA GrowLayer ==
    ASSUME NEW cs \in Seq(AllContexts), NEW st \in Stacks, NEW op \in Seq(Element), NEW b,
           Layered(b, cs, st, op), Once(cs), cs # <<>>, NEW e \in Elements
    PROVE  LET c == cs[Len(cs)]
           IN  Layered([b EXCEPT ![Len(cs) + 1] = @ + 1], cs,
                       [st EXCEPT ![c] = Append(@, e)],
                       Append(op, [elem |-> e, context |-> c]))
<1> DEFINE c == cs[Len(cs)]
           n == Len(cs)
           a == [b EXCEPT ![n + 1] = @ + 1]
           st1 == [st EXCEPT ![c] = Append(@, e)]
           op1 == Append(op, [elem |-> e, context |-> c])
<1>1. n \in Nat /\ n > 0 /\ Len(op) \in Nat /\ c \in AllContexts
  BY EmptySeq, LenProperties
<1>2. /\ Len(op1) = Len(op) + 1 /\ op1[Len(op) + 1] = [elem |-> e, context |-> c]
      /\ \A i \in 1 .. Len(op) : op1[i] = op[i]
  BY AppendProperties, <1>1 DEF Element
<1>3. /\ b \in [1 .. n + 1 -> Nat] /\ b[1] = 0 /\ b[n + 1] = Len(op)
      /\ \A k, l \in 1 .. n + 1 : k < l => b[k] <= b[l] /\ (k > 1 => b[k] < b[l])
  BY DEF Layered
<1>4. /\ a \in [1 .. n + 1 -> Nat] /\ a[1] = 0 /\ a[n + 1] = Len(op1)
      /\ \A k \in 1 .. n : a[k] = b[k]
  BY <1>1, <1>2, <1>3
<1>5. \A k, l \in 1 .. n + 1 : k < l => a[k] <= a[l] /\ (k > 1 => a[k] < a[l])
  <2> SUFFICES ASSUME NEW k \in 1 .. n + 1, NEW l \in 1 .. n + 1, k < l
               PROVE  a[k] <= a[l] /\ (k > 1 => a[k] < a[l])
    OBVIOUS
  <2> HIDE DEF n, a
  <2>1. k \in 1 .. n
    BY <1>1
  <2>4. a[k] = b[k] /\ b[k] \in Nat /\ b[l] \in Nat
    BY <1>3, <1>4, <2>1
  <2>2. a[l] = b[l] \/ a[l] = b[l] + 1
    BY <1>1, <1>3, <1>4 DEF a
  <2>3. b[k] <= b[l] /\ (k > 1 => b[k] < b[l])
    BY <1>3
  <2> QED BY <2>2, <2>3, <2>4
<1>6. ASSUME NEW k \in 1 .. n
      PROVE  /\ Len(st1[cs[k]]) = a[k + 1] - a[k]
             /\ \A i \in 1 .. Len(st1[cs[k]]) :
                  op1[a[k] + i] = [elem |-> st1[cs[k]][i], context |-> cs[k]]
  <2>1. /\ Len(st[cs[k]]) = b[k + 1] - b[k]
        /\ \A i \in 1 .. Len(st[cs[k]]) :
             op[b[k] + i] = [elem |-> st[cs[k]][i], context |-> cs[k]]
    BY DEF Layered
  <2>5. k \in 1 .. n + 1 /\ k + 1 \in 1 .. n + 1 /\ n + 1 \in 1 .. n + 1 /\ k < k + 1
        /\ (k + 1 < n + 1 \/ k + 1 = n + 1)
    BY <1>1
  <2>8. b[k] \in Nat /\ b[k + 1] \in Nat /\ b[k] <= b[k + 1]
    BY <1>3, <2>5
  <2>9. k + 1 < n + 1 => b[k + 1] <= b[n + 1]
    BY <1>3, <2>5
  <2>10. b[k + 1] <= Len(op)
    BY <1>1, <1>3, <2>5, <2>8, <2>9
  <2>6. b[k] \in Nat /\ b[k + 1] \in Nat /\ b[k + 1] <= Len(op) /\ b[k] <= b[k + 1]
    BY <2>8, <2>10
  <2>7. cs[k] \in AllContexts /\ st[cs[k]] \in Seq(Elements)
    BY ElementOfSeq DEF Stacks
  <2>2. b[k] \in Nat /\ b[k + 1] \in Nat /\ b[k + 1] <= Len(op) /\ b[k] <= b[k + 1]
        /\ cs[k] \in AllContexts /\ st[cs[k]] \in Seq(Elements) /\ Len(st[cs[k]]) \in Nat
    BY <2>6, <2>7, LenProperties
  <2>3. CASE k = n
    <3>1. st1[cs[k]] = Append(st[cs[k]], e)
      BY <2>2, <2>3 DEF Stacks
    <3>2. /\ Len(st1[cs[k]]) = Len(st[cs[k]]) + 1
          /\ st1[cs[k]][Len(st[cs[k]]) + 1] = e
          /\ \A i \in 1 .. Len(st[cs[k]]) : st1[cs[k]][i] = st[cs[k]][i]
      BY <2>2, <3>1, AppendProperties
    <3>3. a[k + 1] = Len(op) + 1 /\ a[k] = b[k] /\ b[k + 1] = Len(op)
      BY <1>2, <1>3, <1>4, <2>3
    <3> HIDE DEF a, st1, op1
    <3>6. PICK m \in Nat : m = Len(st[cs[k]])
      BY <2>2
    <3>7. /\ m = b[k + 1] - b[k] /\ b[k + 1] = Len(op) /\ a[k] = b[k]
          /\ a[k + 1] = Len(op) + 1 /\ Len(st1[cs[k]]) = m + 1
          /\ b[k] \in Nat /\ Len(op) \in Nat
      BY <1>1, <2>1, <2>2, <3>2, <3>3, <3>6
    <3>4. Len(st1[cs[k]]) = a[k + 1] - a[k]
      BY <3>7
    <3>5. ASSUME NEW i \in 1 .. Len(st1[cs[k]])
          PROVE  op1[a[k] + i] = [elem |-> st1[cs[k]][i], context |-> cs[k]]
      <4>3. PICK p \in Nat, q \in Nat : p = b[k] /\ q = Len(op) /\ p = a[k] /\ m = q - p
        BY <3>7
      <4>4. i \in 1 .. m + 1
        BY <3>7
      <4>5. m \in Nat /\ p \in Nat /\ q \in Nat /\ m = q - p
        BY <4>3
      <4>1. CASE i = Len(st[cs[k]]) + 1
        <5>2. i = m + 1
          BY <3>6, <4>1
        <5>3. p + i = q + 1
          BY ONLY <4>5, <5>2
        <5>1. a[k] + i = Len(op) + 1
          BY <4>3, <5>3
        <5> QED BY <1>2, <2>3, <3>2, <4>1, <5>1
      <4>2. CASE i # Len(st[cs[k]]) + 1
        <5>2. i # m + 1
          BY <3>6, <4>2
        <5>3. i \in 1 .. m /\ p + i \in 1 .. q
          BY ONLY <4>4, <4>5, <5>2
        <5>1. i \in 1 .. Len(st[cs[k]]) /\ a[k] + i \in 1 .. Len(op)
          BY <3>6, <4>3, <5>3
        <5> QED BY <1>2, <2>1, <3>2, <3>3, <5>1
      <4> QED BY <4>1, <4>2
    <3> QED BY <3>4, <3>5
  <2>4. CASE k # n
    <3>1. cs[k] # c
      BY <1>1, <2>4 DEF Once
    <3>2. st1[cs[k]] = st[cs[k]]
      BY <2>2, <3>1 DEF Stacks
    <3>3. a[k + 1] = b[k + 1] /\ a[k] = b[k]
      BY <1>1, <1>4, <2>4
    <3> HIDE DEF a, st1, op1
    <3>4. \A i \in 1 .. Len(st[cs[k]]) : b[k] + i \in 1 .. Len(op)
      BY <1>1, <2>1, <2>2
    <3> QED BY <1>2, <2>1, <3>2, <3>3, <3>4
  <2> QED BY <2>3, <2>4
<1> HIDE DEF a, st1, op1
<1>7. Layered(a, cs, st1, op1)
  BY <1>4, <1>5, <1>6 DEF Layered
<1> QED BY <1>7 DEF a, st1, op1

\* What a layered stack says of its parts, in the form the lemmas below use it.
LEMMA LayerFacts ==
    ASSUME NEW cs \in Seq(AllContexts), NEW st \in Stacks, NEW op \in Seq(Element), NEW b,
           Layered(b, cs, st, op), NEW k \in 1 .. Len(cs)
    PROVE  /\ Len(cs) \in Nat /\ Len(op) \in Nat
           /\ b[k] \in Nat /\ b[k + 1] \in Nat /\ b[k] <= b[k + 1] /\ b[k + 1] <= Len(op)
           /\ k > 1 => b[k] < b[k + 1]
           /\ cs[k] \in AllContexts /\ st[cs[k]] \in Seq(Elements)
           /\ Len(st[cs[k]]) = b[k + 1] - b[k]
           /\ \A i \in 1 .. Len(st[cs[k]]) :
                /\ op[b[k] + i] = [elem |-> st[cs[k]][i], context |-> cs[k]]
                /\ b[k] + i \in 1 .. b[k + 1]
<1>1. PICK n \in Nat, m \in Nat : n = Len(cs) /\ m = Len(op)
  BY LenProperties
<1>2. /\ b \in [1 .. n + 1 -> Nat] /\ b[n + 1] = m
      /\ \A j, l \in 1 .. n + 1 : j < l => b[j] <= b[l] /\ (j > 1 => b[j] < b[l])
  BY <1>1 DEF Layered
<1>3. /\ k \in 1 .. n + 1 /\ k + 1 \in 1 .. n + 1 /\ n + 1 \in 1 .. n + 1 /\ k < k + 1
      /\ k + 1 < n + 1 \/ k + 1 = n + 1
  BY <1>1
<1>4. b[k] \in Nat /\ b[k + 1] \in Nat /\ b[k] <= b[k + 1] /\ (k > 1 => b[k] < b[k + 1])
  BY <1>2, <1>3
<1>5. b[k + 1] <= m
  <2>1. CASE k + 1 < n + 1
    BY <1>2, <1>3, <2>1
  <2>2. CASE k + 1 = n + 1
    BY <1>2, <1>4, <2>2
  <2> QED BY <1>3, <2>1, <2>2
<1>6. cs[k] \in AllContexts /\ st[cs[k]] \in Seq(Elements)
  BY ElementOfSeq DEF Stacks
<1>7. /\ Len(st[cs[k]]) = b[k + 1] - b[k]
      /\ \A i \in 1 .. Len(st[cs[k]]) :
           op[b[k] + i] = [elem |-> st[cs[k]][i], context |-> cs[k]]
  BY DEF Layered
<1>8. ASSUME NEW i \in 1 .. Len(st[cs[k]])
      PROVE  b[k] + i \in 1 .. b[k + 1]
  <2>1. PICK p \in Nat, q \in Nat : p = b[k] /\ q = b[k + 1] /\ p <= q
    BY <1>4
  <2>2. i \in 1 .. q - p
    BY <1>7, <2>1
  <2>3. p + i \in 1 .. q
    BY ONLY <2>1, <2>2
  <2> QED BY <2>1, <2>3
<1> QED BY <1>1, <1>4, <1>5, <1>6, <1>7, <1>8

\* A child context that gets the first of its elements is a layer of its own.
LEMMA PushLayer ==
    ASSUME NEW cs \in Seq(AllContexts), NEW st \in Stacks, NEW op \in Seq(Element), NEW b,
           Layered(b, cs, st, op), cs # <<>>, NEW e \in Elements,
           NEW c \in AllContexts, st[c] = <<>>, c \notin Range(cs)
    PROVE  Layered([k \in 1 .. Len(cs) + 2 |-> IF k = Len(cs) + 2 THEN Len(op) + 1 ELSE b[k]],
                   Append(cs, c), [st EXCEPT ![c] = Append(@, e)],
                   Append(op, [elem |-> e, context |-> c]))
<1> DEFINE a == [k \in 1 .. Len(cs) + 2 |-> IF k = Len(cs) + 2 THEN Len(op) + 1 ELSE b[k]]
           cs1 == Append(cs, c)
           st1 == [st EXCEPT ![c] = Append(@, e)]
           op1 == Append(op, [elem |-> e, context |-> c])
<1>1. PICK n \in Nat, m \in Nat : n = Len(cs) /\ m = Len(op) /\ n > 0
  BY LenProperties, EmptySeq
<1>2. /\ Len(op1) = m + 1 /\ op1[m + 1] = [elem |-> e, context |-> c]
      /\ \A i \in 1 .. m : op1[i] = op[i]
  BY AppendProperties, <1>1 DEF Element
<1>3. /\ Len(cs1) = n + 1 /\ cs1[n + 1] = c /\ \A k \in 1 .. n : cs1[k] = cs[k]
  BY AppendProperties, <1>1
<1>4. /\ b \in [1 .. n + 1 -> Nat] /\ b[1] = 0 /\ b[n + 1] = m
      /\ \A k, l \in 1 .. n + 1 : k < l => b[k] <= b[l] /\ (k > 1 => b[k] < b[l])
  BY <1>1 DEF Layered
<1>5. /\ a \in [1 .. (n + 1) + 1 -> Nat] /\ a[1] = 0 /\ a[(n + 1) + 1] = m + 1
      /\ \A k \in 1 .. n + 1 : a[k] = b[k]
  BY <1>1, <1>4
<1>6. st1[c] = <<e>> /\ \A d \in AllContexts : d # c => st1[d] = st[d]
  BY DEF Stacks
<1> HIDE DEF a, cs1, st1, op1
<1>7. ASSUME NEW k \in 1 .. (n + 1) + 1, NEW l \in 1 .. (n + 1) + 1, k < l
      PROVE  a[k] <= a[l] /\ (k > 1 => a[k] < a[l])
  <2>1. k \in 1 .. n + 1 /\ a[k] = b[k] /\ b[k] \in Nat
    BY <1>4, <1>5, <1>7
  <2>2. CASE l = (n + 1) + 1
    <3>1. k < n + 1 \/ k = n + 1
      BY <2>1
    <3>2. n + 1 \in 1 .. n + 1
      OBVIOUS
    <3>3. b[k] <= m
      BY <1>4, <2>1, <3>1, <3>2
    <3> QED BY <1>5, <2>1, <2>2, <3>3
  <2>3. CASE l # (n + 1) + 1
    <3>1. l \in 1 .. n + 1
      BY <2>3
    <3> QED BY <1>4, <1>5, <1>7, <2>1, <3>1
  <2> QED BY <2>2, <2>3
<1>8. ASSUME NEW k \in 1 .. n + 1
      PROVE  /\ Len(st1[cs1[k]]) = a[k + 1] - a[k]
             /\ \A i \in 1 .. Len(st1[cs1[k]]) :
                  op1[a[k] + i] = [elem |-> st1[cs1[k]][i], context |-> cs1[k]]
  <2>1. CASE k = n + 1
    <3>1. a[k + 1] = m + 1 /\ a[k] = m /\ cs1[k] = c
      BY <1>3, <1>4, <1>5, <2>1
    <3>2. Len(st1[c]) = 1 /\ st1[c][1] = e
      BY <1>6
    <3> QED BY <1>2, <3>1, <3>2
  <2>2. CASE k # n + 1
    <3>1. k \in 1 .. n /\ k \in 1 .. Len(cs)
      BY <1>1, <2>2
    <3>2. cs1[k] = cs[k] /\ a[k] = b[k] /\ a[k + 1] = b[k + 1]
      BY <1>3, <1>5, <3>1
    <3>3. cs[k] # c
      BY <3>1, RangeIs
    <3>4. st1[cs[k]] = st[cs[k]]
      BY <1>6, <3>1, <3>3, LayerFacts
    <3>5. /\ Len(st[cs[k]]) = b[k + 1] - b[k]
          /\ \A i \in 1 .. Len(st[cs[k]]) :
               /\ op[b[k] + i] = [elem |-> st[cs[k]][i], context |-> cs[k]]
               /\ b[k] + i \in 1 .. m
      <4>1. b[k + 1] \in Nat /\ b[k + 1] <= m
        BY <1>1, <3>1, LayerFacts
      <4> QED BY <3>1, <4>1, LayerFacts
    <3> QED BY <1>2, <3>2, <3>4, <3>5
  <2> QED BY <2>1, <2>2
<1>9. Layered(a, cs1, st1, op1)
  <2>1. Len(cs1) + 1 = (n + 1) + 1
    BY <1>3
  <2> QED BY <1>2, <1>3, <1>5, <1>7, <1>8, <2>1 DEF Layered
<1> QED BY <1>9 DEF a, cs1, st1, op1

\* A sequence without its last element.
LEMMA WithoutLast ==
    ASSUME NEW S, NEW s \in Seq(S), s # <<>>
    PROVE  LET t == SubSeq(s, 1, Len(s) - 1)
           IN  /\ t \in Seq(S) /\ Len(t) = Len(s) - 1 /\ Len(s) \in Nat \ {0}
               /\ \A i \in 1 .. Len(s) - 1 : t[i] = s[i]
<1> DEFINE t == SubSeq(s, 1, Len(s) - 1)
<1>1. t \in Seq(S) /\ \A i \in 1 .. Len(s) - 1 : t[i] = s[i]
  OBVIOUS
<1>2. PICK n \in Nat : n = Len(s) /\ n > 0
  BY LenProperties, EmptySeq
<1>3. Len(t) = n - 1
  BY <1>2
<1> QED BY <1>1, <1>2, <1>3

\* The innermost element is the last of the stack of the context on top.
LEMMA TopOfLayers ==
    ASSUME NEW cs \in Seq(AllContexts), NEW st \in Stacks, NEW op \in Seq(Element), NEW b,
           Layered(b, cs, st, op), cs # <<>>, op # <<>>
    PROVE  LET c == cs[Len(cs)]
           IN  /\ st[c] # <<>> /\ c \in AllContexts /\ st[c] \in Seq(Elements)
               /\ op[Len(op)] = [elem |-> st[c][Len(st[c])], context |-> c]
               /\ Len(st[c]) <= Len(op)
               /\ Len(cs) = 1 => Len(st[c]) = Len(op)
<1> DEFINE c == cs[Len(cs)]
<1>1. PICK n \in Nat, m \in Nat : n = Len(cs) /\ m = Len(op) /\ n > 0 /\ m > 0
  BY LenProperties, EmptySeq
<1>2. b[1] = 0 /\ b[n + 1] = m /\ n \in 1 .. Len(cs)
  BY <1>1 DEF Layered
<1>3. PICK p \in Nat : p = b[n] /\ p <= m /\ (n > 1 => p < m)
  BY <1>1, <1>2, LayerFacts
<1>4. p < m /\ (n = 1 => p = 0)
  BY <1>1, <1>2, <1>3
<1>5. /\ c \in AllContexts /\ st[c] \in Seq(Elements) /\ Len(st[c]) = m - p
      /\ \A i \in 1 .. Len(st[c]) : op[p + i] = [elem |-> st[c][i], context |-> c]
  <2>1. c = cs[n] /\ n \in 1 .. Len(cs)
    BY <1>1, <1>2
  <2>2. cs[n] \in AllContexts /\ st[cs[n]] \in Seq(Elements)
        /\ Len(st[cs[n]]) = b[n + 1] - b[n]
    BY <2>1, LayerFacts
  <2>3. \A i \in 1 .. Len(st[cs[n]]) :
           op[b[n] + i] = [elem |-> st[cs[n]][i], context |-> cs[n]]
    BY <2>1, LayerFacts
  <2> HIDE DEF c
  <2> QED BY <1>2, <1>3, <2>1, <2>2, <2>3
<1>6. m - p \in 1 .. m - p /\ p + (m - p) = m
  BY <1>4
<1>7. op[m] = [elem |-> st[c][m - p], context |-> c]
  BY <1>5, <1>6
<1> QED BY <1>1, <1>4, <1>5, <1>6, <1>7, EmptySeq

\* An element that ends makes the layer on top shorter.
LEMMA ShrinkLayer ==
    ASSUME NEW cs \in Seq(AllContexts), NEW st \in Stacks, NEW op \in Seq(Element), NEW b,
           Layered(b, cs, st, op), Once(cs), cs # <<>>, op # <<>>,
           Len(st[cs[Len(cs)]]) # 1
    PROVE  LET c == cs[Len(cs)]
           IN  Layered([b EXCEPT ![Len(cs) + 1] = @ - 1], cs,
                       [st EXCEPT ![c] = SubSeq(@, 1, Len(@) - 1)],
                       SubSeq(op, 1, Len(op) - 1))
<1> DEFINE c == cs[Len(cs)]
           a == [b EXCEPT ![Len(cs) + 1] = @ - 1]
           st1 == [st EXCEPT ![c] = SubSeq(@, 1, Len(@) - 1)]
           op1 == SubSeq(op, 1, Len(op) - 1)
<1>1. PICK n \in Nat, m \in Nat : n = Len(cs) /\ m = Len(op) /\ n > 0 /\ m > 0
  BY LenProperties, EmptySeq
<1>2. Len(op1) = m - 1 /\ \A i \in 1 .. m - 1 : op1[i] = op[i]
  BY WithoutLast, <1>1
<1>3. /\ b \in [1 .. n + 1 -> Nat] /\ b[1] = 0 /\ b[n + 1] = m
      /\ \A k, l \in 1 .. n + 1 : k < l => b[k] <= b[l] /\ (k > 1 => b[k] < b[l])
  BY <1>1 DEF Layered
<1>4. /\ st[c] \in Seq(Elements) /\ st[c] # <<>> /\ c \in AllContexts
      /\ st1[c] = SubSeq(st[c], 1, Len(st[c]) - 1)
      /\ \A d \in AllContexts : d # c => st1[d] = st[d]
  BY TopOfLayers DEF Stacks
<1>5. PICK q \in Nat : /\ q = Len(st[c]) /\ q > 1 /\ Len(st1[c]) = q - 1
                       /\ \A i \in 1 .. q - 1 : st1[c][i] = st[c][i]
  BY <1>4, WithoutLast
<1>6. b[n] \in Nat /\ q = m - b[n] /\ n \in 1 .. Len(cs)
  <2>1. n \in 1 .. Len(cs) /\ c = cs[n]
    BY <1>1
  <2>2. b[n] \in Nat /\ Len(st[cs[n]]) = b[n + 1] - b[n]
    BY <2>1, LayerFacts
  <2> HIDE DEF c
  <2> QED BY <1>3, <1>5, <2>1, <2>2
<1>7. /\ a \in [1 .. n + 1 -> Nat] /\ a[1] = 0 /\ a[n + 1] = m - 1
      /\ \A k \in 1 .. n : a[k] = b[k]
  BY <1>1, <1>3
<1> HIDE DEF a, st1, op1, c
<1>8. ASSUME NEW k \in 1 .. n + 1, NEW l \in 1 .. n + 1, k < l
      PROVE  a[k] <= a[l] /\ (k > 1 => a[k] < a[l])
  <2>1. k \in 1 .. n /\ a[k] = b[k] /\ b[k] \in Nat /\ b[k] <= b[n] /\ b[n] < m - 1
    <3>1. k \in 1 .. n /\ n \in 1 .. n + 1 /\ k \in 1 .. n + 1 /\ (k < n \/ k = n)
      BY <1>1, <1>8
    <3>2. a[k] = b[k] /\ b[k] \in Nat /\ b[k] <= b[n]
      BY <1>3, <1>6, <1>7, <3>1
    <3>3. b[n] < m - 1
      BY <1>5, <1>6
    <3> QED BY <3>1, <3>2, <3>3
  <2>2. CASE l = n + 1
    BY <1>6, <1>7, <2>1, <2>2
  <2>3. CASE l # n + 1
    <3>1. l \in 1 .. n
      BY <2>3
    <3> QED BY <1>3, <1>7, <1>8, <2>1, <3>1
  <2> QED BY <2>2, <2>3
<1>9. ASSUME NEW k \in 1 .. n
      PROVE  /\ Len(st1[cs[k]]) = a[k + 1] - a[k]
             /\ \A i \in 1 .. Len(st1[cs[k]]) :
                  op1[a[k] + i] = [elem |-> st1[cs[k]][i], context |-> cs[k]]
  <2>1. k \in 1 .. Len(cs)
    BY <1>1
  <2>2. CASE k = n
    <3>1. cs[k] = c /\ a[k] = b[n] /\ a[k + 1] = m - 1
      BY <1>1, <1>7, <2>2 DEF c
    <3>2. Len(st1[c]) = (m - 1) - b[n]
      BY <1>5, <1>6
    <3>3. ASSUME NEW i \in 1 .. q - 1
          PROVE  op1[b[n] + i] = [elem |-> st1[c][i], context |-> c]
      <4>1. i \in 1 .. q /\ b[n] + i \in 1 .. m - 1
        BY <1>5, <1>6
      <4>2. op[b[n] + i] = [elem |-> st[c][i], context |-> c]
        <5>1. c = cs[n]
          BY <1>1 DEF c
        <5>2. \A j \in 1 .. Len(st[cs[n]]) :
                 op[b[n] + j] = [elem |-> st[cs[n]][j], context |-> cs[n]]
          BY <1>6 DEF Layered
        <5> QED BY <1>5, <4>1, <5>1, <5>2
      <4> QED BY <1>2, <1>5, <4>1, <4>2
    <3> QED BY <1>5, <3>1, <3>2, <3>3
  <2>3. CASE k # n
    <3>1. cs[k] # c /\ cs[k] \in AllContexts
      BY <1>1, <2>1, <2>3, ElementOfSeq DEF Once, c
    <3>2. st1[cs[k]] = st[cs[k]]
      BY <1>4, <3>1
    <3>3. k + 1 \in 1 .. n /\ n \in 1 .. n + 1 /\ k + 1 \in 1 .. n + 1
          /\ (k + 1 < n \/ k + 1 = n)
      BY <1>1, <2>3
    <3>4. a[k] = b[k] /\ a[k + 1] = b[k + 1]
      BY <1>7, <3>3
    <3>5. b[k + 1] \in Nat /\ b[k + 1] <= b[n] /\ b[n] <= m - 1
      BY <1>3, <1>5, <1>6, <3>3
    <3>6. b[k + 1] <= m - 1
      BY <1>6, <3>5
    <3>7. /\ Len(st[cs[k]]) = b[k + 1] - b[k]
          /\ \A i \in 1 .. Len(st[cs[k]]) :
               /\ op[b[k] + i] = [elem |-> st[cs[k]][i], context |-> cs[k]]
               /\ b[k] + i \in 1 .. m - 1
      <4>1. /\ Len(st[cs[k]]) = b[k + 1] - b[k]
            /\ \A i \in 1 .. Len(st[cs[k]]) :
                 op[b[k] + i] = [elem |-> st[cs[k]][i], context |-> cs[k]]
        BY <2>1 DEF Layered
      <4>2. PICK p \in Nat, r \in Nat : p = b[k] /\ r = b[k + 1] /\ r <= m - 1
        BY <1>3, <1>7, <3>3, <3>4, <3>5, <3>6
      <4>3. \A i \in 1 .. r - p : p + i \in 1 .. m - 1
        BY ONLY <4>2, m \in Nat
      <4> QED BY <4>1, <4>2, <4>3
    <3>8. ASSUME NEW i \in 1 .. Len(st[cs[k]])
          PROVE  op1[b[k] + i] = [elem |-> st[cs[k]][i], context |-> cs[k]]
      BY <1>2, <3>7
    <3> QED BY <3>2, <3>4, <3>7, <3>8
  <2> QED BY <2>2, <2>3
<1>10. Layered(a, cs, st1, op1)
  BY <1>1, <1>2, <1>7, <1>8, <1>9 DEF Layered
<1> QED BY <1>10 DEF a, st1, op1, c

\* A context whose only element ends leaves no layer behind.
LEMMA DropLayer ==
    ASSUME NEW cs \in Seq(AllContexts), NEW st \in Stacks, NEW op \in Seq(Element), NEW b,
           Layered(b, cs, st, op), Once(cs), cs # <<>>, op # <<>>,
           Len(st[cs[Len(cs)]]) = 1
    PROVE  LET c == cs[Len(cs)]
           IN  Layered([k \in 1 .. Len(cs) |-> b[k]], SubSeq(cs, 1, Len(cs) - 1),
                       [st EXCEPT ![c] = SubSeq(@, 1, Len(@) - 1)],
                       SubSeq(op, 1, Len(op) - 1))
<1> DEFINE c == cs[Len(cs)]
           a == [k \in 1 .. Len(cs) |-> b[k]]
           cs1 == SubSeq(cs, 1, Len(cs) - 1)
           st1 == [st EXCEPT ![c] = SubSeq(@, 1, Len(@) - 1)]
           op1 == SubSeq(op, 1, Len(op) - 1)
<1>1. PICK n \in Nat, m \in Nat : n = Len(cs) /\ m = Len(op) /\ n > 0 /\ m > 0
  BY LenProperties, EmptySeq
<1>2. /\ Len(op1) = m - 1 /\ \A i \in 1 .. m - 1 : op1[i] = op[i]
      /\ Len(cs1) = n - 1 /\ \A k \in 1 .. n - 1 : cs1[k] = cs[k]
  BY WithoutLast, <1>1
<1>3. /\ b \in [1 .. n + 1 -> Nat] /\ b[1] = 0 /\ b[n + 1] = m
      /\ \A k, l \in 1 .. n + 1 : k < l => b[k] <= b[l] /\ (k > 1 => b[k] < b[l])
  BY <1>1 DEF Layered
<1>4. \A d \in AllContexts : d # c => st1[d] = st[d]
  BY DEF Stacks
<1>5. n \in 1 .. Len(cs) /\ c = cs[n]
  BY <1>1
<1>6. b[n] = m - 1
  <2>1. b[n] \in Nat /\ Len(st[cs[n]]) = b[n + 1] - b[n]
    BY <1>5, LayerFacts
  <2>2. Len(st[cs[n]]) = 1
    BY <1>1
  <2>3. PICK p \in Nat : p = b[n]
    BY <2>1
  <2>4. 1 = m - p
    BY <1>3, <2>1, <2>2, <2>3
  <2>5. p = m - 1
    BY ONLY <2>4, m \in Nat, p \in Nat
  <2> QED BY <2>3, <2>5
<1>7. /\ a \in [1 .. (n - 1) + 1 -> Nat] /\ a[1] = 0 /\ a[(n - 1) + 1] = m - 1
      /\ \A k \in 1 .. n : a[k] = b[k]
  BY <1>1, <1>3, <1>6
<1> HIDE DEF a, cs1, st1, op1, c
<1>8. \A k, l \in 1 .. (n - 1) + 1 : k < l => a[k] <= a[l] /\ (k > 1 => a[k] < a[l])
  BY <1>3, <1>7
<1>9. ASSUME NEW k \in 1 .. n - 1
      PROVE  /\ Len(st1[cs1[k]]) = a[k + 1] - a[k]
             /\ \A i \in 1 .. Len(st1[cs1[k]]) :
                  op1[a[k] + i] = [elem |-> st1[cs1[k]][i], context |-> cs1[k]]
  <2>1. k \in 1 .. Len(cs) /\ k # n /\ k + 1 \in 1 .. n /\ k \in 1 .. n
        /\ (k + 1 < n \/ k + 1 = n)
    BY <1>1
  <2>2. cs1[k] = cs[k] /\ a[k] = b[k] /\ a[k + 1] = b[k + 1]
    BY <1>2, <1>7, <2>1
  <2>3. cs[k] # c /\ cs[k] \in AllContexts
    BY <1>5, <2>1, ElementOfSeq DEF Once
  <2>4. st1[cs[k]] = st[cs[k]]
    BY <1>4, <2>3
  <2>5. b[k + 1] \in Nat /\ b[k + 1] <= m - 1
    <3>1. k + 1 \in 1 .. n + 1 /\ n \in 1 .. n + 1
      BY <2>1
    <3>2. b[k + 1] \in Nat /\ b[n] \in Nat
      BY <1>3, <3>1
    <3>3. k + 1 < n => b[k + 1] <= b[n]
      BY <1>3, <3>1
    <3> QED BY <1>6, <2>1, <3>2, <3>3
  <2>6. /\ Len(st[cs[k]]) = b[k + 1] - b[k]
        /\ \A i \in 1 .. Len(st[cs[k]]) :
             /\ op[b[k] + i] = [elem |-> st[cs[k]][i], context |-> cs[k]]
             /\ b[k] + i \in 1 .. m - 1
    <3>1. /\ Len(st[cs[k]]) = b[k + 1] - b[k] /\ b[k] \in Nat
          /\ \A i \in 1 .. Len(st[cs[k]]) :
               /\ op[b[k] + i] = [elem |-> st[cs[k]][i], context |-> cs[k]]
               /\ b[k] + i \in 1 .. b[k + 1]
      BY <2>1, LayerFacts
    <3>2. 1 .. b[k + 1] \subseteq 1 .. m - 1
      BY <2>5
    <3> QED BY <3>1, <3>2
  <2>7. ASSUME NEW i \in 1 .. Len(st[cs[k]])
        PROVE  op1[b[k] + i] = [elem |-> st[cs[k]][i], context |-> cs[k]]
    BY <1>2, <2>6
  <2> QED BY <2>2, <2>4, <2>6, <2>7
<1>10. Layered(a, cs1, st1, op1)
  BY <1>2, <1>7, <1>8, <1>9 DEF Layered
<1> QED BY <1>10 DEF a, cs1, st1, op1, c

----------------------------------------------------------------------------
(* The steps.                                                              *)

\* The context on top, and what it does with a new element.
LEMMA TopContext ==
    ASSUME IInv, phase = "open"
    PROVE  /\ contexts \in Seq(AllContexts) /\ Len(contexts) \in Nat \ {0}
           /\ CurrentContext = contexts[Len(contexts)] /\ CurrentContext \in AllContexts
           /\ Once(contexts)
<1>1. contexts \in Seq(AllContexts) /\ contexts # <<>> /\ ContextsNest(contexts)
  BY DEF IInv, Open, TypeOK
<1>2. Len(contexts) \in Nat \ {0}
  BY <1>1, LenProperties, EmptySeq
<1>3. Len(contexts) \in 1 .. Len(contexts)
  BY <1>2
<1> QED BY <1>1, <1>2, <1>3, NestedOnce, ElementOfSeq DEF CurrentContext

\* The contexts after the start of an element: the same, or one more that is
\* idle and comes from the one on top.
LEMMA ContextsForNest ==
    ASSUME IInv, phase = "open", NEW elem \in Elements
    PROVE  \/ ContextsFor(elem) = contexts
           \/ \E c \in AllContexts :
                /\ ContextsFor(elem) = Append(contexts, c)
                /\ c \notin Range(contexts)
                /\ ContextsNest(Append(contexts, c))
<1> DEFINE top == CurrentContext
<1>1. /\ contexts \in Seq(AllContexts) /\ Len(contexts) \in Nat \ {0}
      /\ top = contexts[Len(contexts)] /\ top \in AllContexts
  BY TopContext
<1>2. ContextsNest(contexts)
  BY DEF IInv
<1>3. ASSUME NEW c \in AllContexts, top # Invalid,
             c # Invalid => Level[top] < Level[c]
      PROVE  c \notin Range(contexts) /\ ContextsNest(Append(contexts, c))
  <2> HIDE DEF top
  <2>1. PICK n \in Nat : n = Len(contexts) /\ n > 0
    BY <1>1
  <2>2. \A i \in 1 .. n : /\ contexts[i] \in Contexts
                          /\ c # Invalid => Level[contexts[i]] < Level[c]
    <3> SUFFICES ASSUME NEW i \in 1 .. n
                 PROVE  /\ contexts[i] \in Contexts
                        /\ c # Invalid => Level[contexts[i]] < Level[c]
      OBVIOUS
    <3>1. contexts[i] \in AllContexts /\ top \in Contexts
      BY <1>1, <1>3, <2>1, ElementOfSeq DEF AllContexts
    <3>2. CASE i = n
      BY <1>1, <1>3, <2>1, <3>1, <3>2
    <3>3. CASE i # n
      <4>1. i < n /\ n \in 1 .. n
        BY <2>1, <3>3
      <4>2. contexts[i] # Invalid /\ Level[contexts[i]] < Level[top]
        BY <1>1, <1>2, <1>3, <2>1, <4>1 DEF ContextsNest
      <4>3. contexts[i] \in Contexts
        BY <3>1, <4>2 DEF AllContexts
      <4>4. CASE c # Invalid
        <5>1. c \in Contexts
          BY <4>4 DEF AllContexts
        <5>2. Level[contexts[i]] \in Nat /\ Level[top] \in Nat /\ Level[c] \in Nat
          BY <3>1, <4>3, <5>1, HandlerAssumption
        <5> QED BY <1>3, <4>2, <4>3, <4>4, <5>2
      <4> QED BY <4>3, <4>4
    <3> QED BY <3>2, <3>3
  <2>3. \A i \in 1 .. n : contexts[i] # c
    <3> SUFFICES ASSUME NEW i \in 1 .. n, contexts[i] = c PROVE FALSE
      OBVIOUS
    <3>1. c \in Contexts /\ Level[c] < Level[c] /\ Level[c] \in Nat
      BY <2>2, HandlerAssumption
    <3> QED BY <3>1
  <2>4. c \notin Range(contexts)
    BY <1>1, <2>1, <2>3, RangeIs
  <2>5. /\ Len(Append(contexts, c)) = n + 1 /\ Append(contexts, c)[n + 1] = c
        /\ \A i \in 1 .. n : Append(contexts, c)[i] = contexts[i]
    BY <1>1, <2>1, AppendProperties
  <2>6. PICK t : t = Append(contexts, c)
    OBVIOUS
  <2>7. /\ Len(t) = n + 1 /\ t[n + 1] = c /\ \A i \in 1 .. n : t[i] = contexts[i]
    BY <2>5, <2>6
  <2>8. ASSUME NEW i \in 1 .. n + 1, NEW j \in 1 .. n + 1, i < j
        PROVE  t[i] # Invalid /\ (t[j] # Invalid => Level[t[i]] < Level[t[j]])
    <3>1. i \in 1 .. n /\ t[i] = contexts[i] /\ t[i] # Invalid
      BY <2>2, <2>7, <2>8, HandlerAssumption
    <3>2. CASE j = n + 1
      BY <2>2, <2>7, <3>1, <3>2
    <3>3. CASE j # n + 1
      <4>1. j \in 1 .. n /\ t[j] = contexts[j]
        BY <2>7, <3>3
      <4> QED BY <1>2, <2>1, <2>8, <3>1, <4>1 DEF ContextsNest
    <3> QED BY <3>2, <3>3
  <2>9. t[1] = Root
    BY <1>1, <1>2, <2>1, <2>7, EmptySeq DEF ContextsNest
  <2>10. ContextsNest(t)
    BY <2>7, <2>8, <2>9 DEF ContextsNest
  <2> QED BY <2>4, <2>6, <2>10
<1>4. CASE ~ Allowed(top, CurrentElement(top), elem)
  <2>1. top # Invalid /\ Invalid \in AllContexts
    BY <1>4 DEF Allowed, AllContexts
  <2> QED BY <1>3, <1>4, <2>1 DEF ContextsFor
<1>5. CASE Allowed(top, CurrentElement(top), elem) /\ Child(top, elem) # NoContext
  <2>1. top # Invalid /\ top \in Contexts /\ Child(top, elem) = ChildOf[top][elem]
    BY <1>1, <1>5 DEF Child, AllContexts
  <2>2. Child(top, elem) \in Contexts /\ Level[top] < Level[Child(top, elem)]
        /\ Child(top, elem) \in AllContexts
    <3>1. Child(top, elem) \in Contexts
      BY <1>5, <2>1, HandlerAssumption
    <3>2. Level[Child(top, elem)] > Level[top]
      BY <1>5, <2>1, HandlerAssumption
    <3>3. Level[Child(top, elem)] \in Nat /\ Level[top] \in Nat
      BY <2>1, <3>1, HandlerAssumption
    <3> QED BY <3>1, <3>2, <3>3 DEF AllContexts
  <2>3. ContextsFor(elem) = Append(contexts, Child(top, elem))
    BY <1>5 DEF ContextsFor
  <2> QED BY <1>3, <2>1, <2>2, <2>3
<1>6. CASE Allowed(top, CurrentElement(top), elem) /\ Child(top, elem) = NoContext
  BY <1>6 DEF ContextsFor
<1> QED BY <1>4, <1>5, <1>6

\* What the innermost of the open elements says is what the stacks say.
LEMMA Innermost ==
    ASSUME NEW cs \in Seq(AllContexts), NEW st \in Stacks, NEW op \in Seq(Element), NEW b,
           Layered(b, cs, st, op), cs # <<>>, ContextsNest(cs)
    PROVE  LET c == cs[Len(cs)]
           IN  /\ c \in AllContexts
               /\ Dispatch!ContextOf(op) = c
               /\ Dispatch!ElementOf(op)
                    = IF st[c] = <<>> THEN NoElement ELSE st[c][Len(st[c])]
<1> DEFINE c == cs[Len(cs)]
<1>1. PICK n \in Nat, m \in Nat : n = Len(cs) /\ m = Len(op) /\ n > 0
  BY LenProperties, EmptySeq
<1>2. n \in 1 .. Len(cs) /\ c = cs[n]
  BY <1>1
<1>3. CASE op # <<>>
  <2>1. /\ st[c] # <<>> /\ c \in AllContexts /\ st[c] \in Seq(Elements)
        /\ op[Len(op)] = [elem |-> st[c][Len(st[c])], context |-> c]
    BY <1>3, TopOfLayers
  <2> HIDE DEF c
  <2> QED BY <1>3, <2>1 DEF Dispatch!ContextOf, Dispatch!ElementOf, c
<1>4. CASE op = <<>>
  <2>1. m = 0 /\ b[n + 1] = m /\ b[1] = 0
    BY <1>1, <1>4 DEF Layered
  <2>2. /\ b[n] \in Nat /\ b[n] <= b[n + 1] /\ (n > 1 => b[n] < b[n + 1])
        /\ cs[n] \in AllContexts /\ st[cs[n]] \in Seq(Elements)
        /\ Len(st[cs[n]]) = b[n + 1] - b[n]
    BY <1>2, LayerFacts
  <2>3. n = 1
    BY <1>1, <2>1, <2>2
  <2>4. c = Root /\ c \in AllContexts
    BY <1>2, <2>2, <2>3 DEF ContextsNest
  <2>5. Len(st[cs[n]]) = 0
    BY <2>1, <2>2, <2>3
  <2>6. st[c] = <<>>
    BY <1>2, <2>2, <2>5, EmptySeq
  <2> HIDE DEF c
  <2> QED BY <1>4, <2>4, <2>6 DEF Dispatch!ContextOf, Dispatch!ElementOf, c
<1> QED BY <1>3, <1>4

\* The initial state: the root context, with an empty layer.
LEMMA InitIInv == Init => IInv
<1> SUFFICES ASSUME Init PROVE IInv
  OBVIOUS
<1>1. Root \in AllContexts /\ NoElement \notin Elements /\ MaxNesting \in Nat
  BY HandlerAssumption DEF AllContexts
<1>2. TypeOK
  <2>1. /\ open \in Seq([elem : Elements, context : AllContexts])
        /\ contexts \in Seq(AllContexts)
        /\ stack \in [AllContexts -> Seq(Elements)]
        /\ Len(contexts) = 1 /\ \A c \in AllContexts : Len(stack[c]) = 0
    BY <1>1 DEF Init
  <2> QED BY <1>1, <2>1 DEF Init, TypeOK, Call
<1>3. PopsWhatWasPushed
  BY DEF Init, PopsWhatWasPushed
<1>4. contexts = <<Root>> /\ Len(contexts) = 1 /\ contexts[1] = Root /\ contexts # <<>>
  BY DEF Init
<1>5. ContextsNest(contexts)
  BY <1>4 DEF ContextsNest
<1>6. Idle(contexts, stack)
  BY DEF Idle, Init
<1>7. Layered([k \in 1 .. 2 |-> 0], contexts, stack, open)
  <2>1. /\ Len(contexts) + 1 = 2 /\ Len(open) = 0
        /\ \A k \in 1 .. 1 : Len(stack[contexts[k]]) = 0
    BY <1>1, <1>4 DEF Init
  <2> QED BY <1>4, <2>1 DEF Layered
<1> QED BY <1>2, <1>3, <1>4, <1>5, <1>6, <1>7 DEF IInv, Open

\* A handler that has failed has only to be well-typed.
LEMMA FailedIInv ==
    ASSUME IInv, phase' = "failed", UNCHANGED <<open, call>>,
           error' \in {"xml_structure_error", "other"},
           UNCHANGED stack, contexts' \in Seq(AllContexts),
           Len(contexts') <= MaxNesting + 1, ContextsNest(contexts')
    PROVE  IInv'
<1>1. TypeOK'
  BY DEF IInv, TypeOK
<1>2. PopsWhatWasPushed' /\ phase' # "open"
  BY DEF PopsWhatWasPushed
<1> QED BY <1>1, <1>2 DEF IInv

\* The contexts a new element finds.
LEMMA ContextsForType ==
    ASSUME IInv, phase = "open", ~ TooDeep(contexts), NEW elem \in Elements
    PROVE  LET cs == ContextsFor(elem)
               c == cs[Len(cs)]
           IN  /\ cs \in Seq(AllContexts) /\ cs # <<>> /\ Len(cs) <= MaxNesting + 1
               /\ ContextsNest(cs) /\ c \in AllContexts
               /\ Range(contexts) \subseteq Range(cs) /\ c \in Range(cs)
               /\ \/ cs = contexts
                  \/ cs = Append(contexts, c) /\ c \notin Range(contexts)
<1> DEFINE cs == ContextsFor(elem)
           c == cs[Len(cs)]
<1>1. /\ contexts \in Seq(AllContexts) /\ ContextsNest(contexts) /\ MaxNesting \in Nat
      /\ Len(contexts) <= MaxNesting
  <2>1. contexts \in Seq(AllContexts) /\ ContextsNest(contexts) /\ MaxNesting \in Nat
    BY HandlerAssumption DEF IInv, TypeOK
  <2>2. Len(contexts) \in Nat
    BY <2>1, LenProperties
  <2> QED BY <2>1, <2>2 DEF TooDeep
<1>2. PICK n \in Nat : n = Len(contexts) /\ n > 0
  BY TopContext
<1>3. contexts # <<>>
  BY <1>2
<1>4. CASE cs = contexts
  <2>1. n \in 1 .. n /\ contexts[n] \in AllContexts
    BY <1>1, <1>2, ElementOfSeq
  <2>2. c = contexts[n]
    BY <1>2, <1>4
  <2>3. c \in Range(cs)
    BY <1>1, <1>2, <1>4, <2>1, <2>2, RangeIs
  <2> HIDE DEF c, cs
  <2> QED BY <1>1, <1>2, <1>3, <1>4, <2>1, <2>2, <2>3 DEF c, cs
<1>5. ASSUME NEW d \in AllContexts, cs = Append(contexts, d), d \notin Range(contexts),
             ContextsNest(Append(contexts, d))
      PROVE  /\ cs \in Seq(AllContexts) /\ cs # <<>> /\ Len(cs) <= MaxNesting + 1
             /\ ContextsNest(cs) /\ c = d
             /\ Range(contexts) \subseteq Range(cs) /\ c \in Range(cs)
  <2> HIDE DEF cs
  <2>1. /\ cs \in Seq(AllContexts) /\ Len(cs) = n + 1 /\ cs[n + 1] = d
        /\ \A i \in 1 .. n : cs[i] = contexts[i]
    BY <1>1, <1>2, <1>5, AppendProperties
  <2>2. c = d
    BY <2>1
  <2>3. Range(cs) = {cs[i] : i \in 1 .. n + 1} /\ Range(contexts) = {contexts[i] : i \in 1 .. n}
    BY <1>1, <1>2, <2>1, RangeIs
  <2>4. Range(contexts) \subseteq Range(cs) /\ c \in Range(cs)
    BY <2>1, <2>2, <2>3
  <2> QED BY <1>1, <1>2, <1>5, <2>1, <2>2, <2>4, EmptySeq
<1>6. \/ cs = contexts
      \/ \E d \in AllContexts : /\ cs = Append(contexts, d) /\ d \notin Range(contexts)
                                /\ ContextsNest(Append(contexts, d))
  BY ContextsForNest
<1> HIDE DEF cs, c
<1> QED BY <1>4, <1>5, <1>6 DEF cs, c

\* An element starts: it is given to the context on top, in a layer of its own
\* if that is new.
LEMMA StartElementIInv ==
    ASSUME IInv, NEW elem \in Elements, StartElement(elem), phase' # "failed"
    PROVE  /\ IInv'
           /\ open' = Append(open, [elem |-> elem, context |-> Dispatch!ContextFor(elem)])
           /\ call' = Call("start_element", Dispatch!ContextFor(elem), elem, NoContext)
           /\ phase = "open" /\ phase' = "open"
<1> DEFINE cs == ContextsFor(elem)
           c == cs[Len(cs)]
<1>1. /\ phase = "open" /\ ~ TooDeep(contexts) /\ ~ TooDeep(stack[c])
      /\ contexts' = cs /\ stack' = [stack EXCEPT ![c] = Append(@, elem)]
      /\ open' = Append(open, [elem |-> elem, context |-> c])
      /\ call' = Call("start_element", c, elem, NoContext)
      /\ UNCHANGED <<phase, error>>
  BY DEF StartElement, Throw
<1>2. /\ TypeOK /\ PopsWhatWasPushed /\ ContextsNest(contexts)
      /\ contexts # <<>> /\ Idle(contexts, stack)
  BY <1>1 DEF IInv, Open
<1>3. PICK b : Layered(b, contexts, stack, open)
  BY <1>1 DEF IInv, Open
<1>4. /\ contexts \in Seq(AllContexts) /\ stack \in Stacks /\ open \in Seq(Element)
      /\ stack \in [AllContexts -> Seq(Elements)] /\ MaxNesting \in Nat
  BY <1>2, HandlerAssumption DEF TypeOK, Stacks, Element
<1>5. /\ cs \in Seq(AllContexts) /\ cs # <<>> /\ Len(cs) <= MaxNesting + 1
      /\ ContextsNest(cs) /\ c \in AllContexts
      /\ Range(contexts) \subseteq Range(cs) /\ c \in Range(cs)
      /\ \/ cs = contexts
         \/ cs = Append(contexts, c) /\ c \notin Range(contexts)
  BY <1>1, ContextsForType
<1>6. Once(contexts)
  BY <1>2, <1>4, NestedOnce
<1>7. c = Dispatch!ContextFor(elem)
  <2>1. /\ contexts[Len(contexts)] = CurrentContext /\ CurrentContext \in AllContexts
        /\ Dispatch!ContextOf(open) = CurrentContext
        /\ Dispatch!ElementOf(open) = CurrentElement(CurrentContext)
    BY <1>2, <1>3, <1>4, Innermost DEF CurrentContext, CurrentElement
  <2>2. Dispatch!ContextFor(elem)
          = IF ~ Allowed(CurrentContext, CurrentElement(CurrentContext), elem) THEN Invalid
            ELSE IF Child(CurrentContext, elem) # NoContext THEN Child(CurrentContext, elem)
            ELSE CurrentContext
    BY <1>1, <2>1 DEF Dispatch!ContextFor
  <2>3. PICK n \in Nat : n = Len(contexts)
    BY <1>4, LenProperties
  <2>4. \A d \in AllContexts : LET s == Append(contexts, d) IN s[Len(s)] = d
    BY <1>4, <2>3, AppendProperties
  <2>5. CASE ~ Allowed(CurrentContext, CurrentElement(CurrentContext), elem)
    <3>1. cs = Append(contexts, Invalid) /\ Invalid \in AllContexts
      BY <2>5 DEF ContextsFor, AllContexts
    <3>2. c = Invalid
      BY <2>4, <3>1
    <3> QED BY <2>2, <2>5, <3>2
  <2>6. CASE /\ Allowed(CurrentContext, CurrentElement(CurrentContext), elem)
             /\ Child(CurrentContext, elem) # NoContext
    <3>1. cs = Append(contexts, Child(CurrentContext, elem))
      BY <2>6 DEF ContextsFor
    <3>2. Child(CurrentContext, elem) \in AllContexts
      BY <2>1, <2>6, HandlerAssumption DEF Child, AllContexts
    <3>3. c = Child(CurrentContext, elem)
      BY <2>4, <3>1, <3>2
    <3> QED BY <2>2, <2>6, <3>3
  <2>7. CASE /\ Allowed(CurrentContext, CurrentElement(CurrentContext), elem)
             /\ Child(CurrentContext, elem) = NoContext
    <3>1. cs = contexts
      BY <2>7 DEF ContextsFor
    <3> QED BY <2>1, <2>2, <2>7, <3>1
  <2> QED BY <2>5, <2>6, <2>7
<1> HIDE DEF cs, c
<1>8. /\ stack' \in Stacks /\ Len(stack[c]) \in Nat /\ Len(stack[c]) <= MaxNesting
      /\ Len(stack'[c]) = Len(stack[c]) + 1
      /\ \A d \in AllContexts : d # c => stack'[d] = stack[d]
  <2>1. stack[c] \in Seq(Elements) /\ Append(stack[c], elem) \in Seq(Elements)
        /\ Len(Append(stack[c], elem)) = Len(stack[c]) + 1
    BY <1>4, <1>5, AppendProperties
  <2>2. Len(stack[c]) \in Nat
    BY <2>1, LenProperties
  <2> QED BY <1>1, <1>4, <1>5, <2>1, <2>2 DEF TooDeep, Stacks
<1>9. TypeOK'
  <2>1. open' \in Seq([elem : Elements, context : AllContexts])
    BY <1>1, <1>4, <1>5, AppendProperties DEF Element
  <2>2. \A d \in AllContexts : Len(stack'[d]) <= MaxNesting + 1
    <3>1. \A d \in AllContexts : Len(stack[d]) <= MaxNesting + 1
      BY <1>2 DEF TypeOK
    <3>2. Len(stack'[c]) <= MaxNesting + 1
      BY <1>4, <1>8
    <3> QED BY <1>8, <3>1, <3>2
  <2>3. /\ call'.to \in AllContexts /\ call'.elem \in Elements \cup {NoElement}
        /\ call'.child \in AllContexts \cup {NoContext}
    BY <1>1, <1>5 DEF Call
  <2> QED BY <1>1, <1>2, <1>4, <1>5, <1>8, <2>1, <2>2, <2>3 DEF TypeOK, Stacks
<1>10. Idle(cs, stack')
  BY <1>2, <1>5, <1>8 DEF Idle
<1>11. \E a : Layered(a, cs, stack', open')
  <2>1. CASE cs = contexts
    <3>1. c = contexts[Len(contexts)]
      BY <2>1 DEF c
    <3> QED BY <1>1, <1>2, <1>3, <1>4, <1>6, <2>1, <3>1, GrowLayer
  <2>2. CASE cs = Append(contexts, c) /\ c \notin Range(contexts)
    <3>1. stack[c] = <<>>
      BY <1>2, <1>5, <2>2 DEF Idle
    <3> QED BY <1>1, <1>2, <1>3, <1>4, <1>5, <2>2, <3>1, PushLayer
  <2> QED BY <1>5, <2>1, <2>2
<1>12. IInv'
  BY <1>1, <1>2, <1>5, <1>9, <1>10, <1>11 DEF IInv, Open, PopsWhatWasPushed
<1> QED BY <1>1, <1>7, <1>12

\* An element ends: it is taken from the context on top, and that context from
\* the stack of contexts when it has no other left.
LEMMA EndElementIInv ==
    ASSUME IInv, EndElement
    PROVE  /\ IInv'
           /\ phase = "open" /\ phase' # "failed"
           /\ open # <<>> /\ open' = SubSeq(open, 1, Len(open) - 1)
           /\ call' = LET elem == Dispatch!ElementOf(open)
                          context == Dispatch!ContextOf(open)
                          outer == Dispatch!ContextOf(open')
                      IN  IF context # outer
                          THEN Call("end_child_context", outer, elem, context)
                          ELSE Call("end_element", context, elem, NoContext)
<1> DEFINE c == CurrentContext
           elem == open[Len(open)].elem
           rest == SubSeq(stack[c], 1, Len(stack[c]) - 1)
<1>1. phase = "open" /\ open # <<>>
  BY DEF EndElement
<1>2. /\ TypeOK /\ PopsWhatWasPushed /\ ContextsNest(contexts)
      /\ contexts # <<>> /\ Idle(contexts, stack)
  BY <1>1 DEF IInv, Open
<1>3. PICK b : Layered(b, contexts, stack, open)
  BY <1>1 DEF IInv, Open
<1>4. /\ contexts \in Seq(AllContexts) /\ stack \in Stacks /\ open \in Seq(Element)
      /\ stack \in [AllContexts -> Seq(Elements)] /\ MaxNesting \in Nat
  BY <1>2, HandlerAssumption DEF TypeOK, Stacks, Element
<1>5. Once(contexts)
  BY <1>2, <1>4, NestedOnce
<1>6. PICK n \in Nat, m \in Nat : n = Len(contexts) /\ m = Len(open) /\ n > 0 /\ m > 0
  BY <1>1, <1>2, <1>4, LenProperties, EmptySeq
<1>7. c = contexts[n] /\ contexts[n] = contexts[Len(contexts)] /\ n \in 1 .. Len(contexts)
  BY <1>2, <1>6 DEF CurrentContext
<1>8. /\ stack[c] # <<>> /\ c \in AllContexts /\ stack[c] \in Seq(Elements)
      /\ open[Len(open)] = [elem |-> stack[c][Len(stack[c])], context |-> c]
      /\ Len(stack[c]) <= m
      /\ n = 1 => Len(stack[c]) = m
  <2> HIDE DEF c
  <2> QED BY <1>1, <1>2, <1>3, <1>4, <1>6, <1>7, TopOfLayers
<1>9. CurrentElement(c) = elem /\ Dispatch!ElementOf(open) = elem /\ elem \in Elements
      /\ Dispatch!ContextOf(open) = c
  <2>1. PICK q \in Nat : q = Len(stack[c]) /\ q \in 1 .. Len(stack[c])
    BY <1>8, LenProperties, EmptySeq
  <2>2. stack[c][q] \in Elements
    BY <1>8, <2>1, ElementOfSeq
  <2> HIDE DEF c
  <2> QED BY <1>1, <1>8, <2>1, <2>2 DEF CurrentElement, Dispatch!ElementOf, Dispatch!ContextOf
<1>10. /\ stack' = [stack EXCEPT ![c] = rest]
       /\ IF rest = <<>>
          THEN call' = Report(c, elem) /\ contexts' = WithoutContext(contexts)
          ELSE /\ call' = Call("end_element", c, elem, NoContext)
               /\ UNCHANGED contexts
       /\ open' = SubSeq(open, 1, Len(open) - 1)
       /\ phase' = IF Len(open) = 1 THEN "closed" ELSE phase
       /\ UNCHANGED error
  BY <1>8, <1>9 DEF EndElement
<1> HIDE DEF c, elem
<1>11. /\ rest \in Seq(Elements) /\ Len(rest) = Len(stack[c]) - 1 /\ Len(stack[c]) \in Nat \ {0}
       /\ (rest = <<>> <=> Len(stack[c]) = 1)
  <2>1. /\ rest \in Seq(Elements) /\ Len(rest) = Len(stack[c]) - 1
        /\ Len(stack[c]) \in Nat \ {0}
    BY <1>8, WithoutLast
  <2> HIDE DEF rest
  <2>2. rest = <<>> <=> Len(rest) = 0
    BY <2>1, EmptySeq
  <2>3. PICK q \in Nat : q = Len(stack[c])
    BY <2>1
  <2>4. Len(rest) = 0 <=> Len(stack[c]) = 1
    BY <2>1, <2>3
  <2> QED BY <2>1, <2>2, <2>4
<1>12. open' \in Seq(Element) /\ Len(open') = m - 1
  BY <1>1, <1>4, <1>6, <1>10, WithoutLast
<1>13. /\ stack' \in Stacks /\ stack'[c] = rest
       /\ \A d \in AllContexts : d # c => stack'[d] = stack[d]
  BY <1>4, <1>8, <1>10, <1>11 DEF Stacks
<1>14. \A d \in AllContexts : Len(stack'[d]) <= MaxNesting + 1
  <2>1. \A d \in AllContexts : Len(stack[d]) <= MaxNesting + 1
    BY <1>2 DEF TypeOK
  <2>2. Len(stack'[c]) <= MaxNesting + 1
    BY <1>4, <1>8, <1>11, <1>13, <2>1
  <2> QED BY <1>13, <2>1, <2>2
<1> HIDE DEF rest
<1>typed. ASSUME contexts' \in Seq(AllContexts), Len(contexts') <= MaxNesting + 1,
                 call'.to \in AllContexts, call'.elem \in Elements \cup {NoElement},
                 call'.child \in AllContexts \cup {NoContext}
          PROVE  TypeOK'
  <2>1. phase' \in {"open", "closed"} /\ error' \in {"none", "xml_structure_error",
                                                    "general_error", "undefined", "other"}
    BY <1>1, <1>2, <1>10 DEF TypeOK
  <2>2. open' \in Seq([elem : Elements, context : AllContexts])
    BY <1>12 DEF Element
  <2>3. stack' \in [AllContexts -> Seq(Elements)]
    BY <1>13 DEF Stacks
  <2> QED BY <1>14, <1>typed, <2>1, <2>2, <2>3 DEF TypeOK
<1>15. CASE rest = <<>>
  <2>1. Len(stack[c]) = 1
    BY <1>11, <1>15
  <2>2. /\ contexts' = SubSeq(contexts, 1, Len(contexts) - 1) /\ call' = Report(c, elem)
    BY <1>10, <1>15 DEF WithoutContext
  <2>3. /\ contexts' \in Seq(AllContexts) /\ Len(contexts') = n - 1
        /\ \A i \in 1 .. n - 1 : contexts'[i] = contexts[i]
    BY <1>2, <1>4, <1>6, <2>2, WithoutLast
  <2>4. ContextsNest(contexts')
    <3>1. \A i \in 1 .. Len(contexts') : i \in 1 .. Len(contexts) /\ contexts'[i] = contexts[i]
      BY <1>6, <2>3
    <3>2. contexts' # <<>> => 1 \in 1 .. Len(contexts')
      BY <1>6, <2>3, EmptySeq
    <3> QED BY <1>2, <3>1, <3>2 DEF ContextsNest
  <2>5. Idle(contexts', stack')
    <3> SUFFICES ASSUME NEW d \in AllContexts, d \notin Range(contexts') PROVE stack'[d] = <<>>
      BY DEF Idle
    <3>1. CASE d = c
      BY <1>13, <1>15, <3>1
    <3>2. CASE d # c
      <4>1. \A i \in 1 .. n - 1 : contexts[i] # d
        BY <2>3, RangeIs
      <4>2. \A i \in 1 .. n : contexts[i] # d
        BY <1>7, <3>2, <4>1
      <4>3. d \notin Range(contexts)
        BY <1>4, <1>6, <4>2, RangeIs
      <4> QED BY <1>2, <1>13, <3>2, <4>3 DEF Idle
    <3> QED BY <3>1, <3>2
  <2>6. Layered([k \in 1 .. Len(contexts) |-> b[k]], contexts', stack', open')
    <3>1. stack' = [stack EXCEPT ![contexts[Len(contexts)]] = SubSeq(@, 1, Len(@) - 1)]
      BY <1>7, <1>10 DEF rest
    <3>2. Len(stack[contexts[Len(contexts)]]) = 1
      BY <1>7, <2>1
    <3>3. Layered([k \in 1 .. Len(contexts) |-> b[k]], SubSeq(contexts, 1, Len(contexts) - 1),
                  [stack EXCEPT ![contexts[Len(contexts)]] = SubSeq(@, 1, Len(@) - 1)],
                  SubSeq(open, 1, Len(open) - 1))
      BY <1>1, <1>2, <1>3, <1>4, <1>5, <3>2, DropLayer
    <3> QED BY <1>10, <2>2, <3>1, <3>3
  <2>7. CASE n = 1
    <3>1. m = 1 /\ phase' = "closed" /\ open' = <<>>
      BY <1>6, <1>8, <1>10, <1>12, <2>1, <2>7, EmptySeq
    <3>2. c = Root
      BY <1>2, <1>7, <2>7 DEF ContextsNest
    <3>3. call' = Call("end_element", c, elem, NoContext)
      BY <1>6, <2>2, <2>7 DEF Report
    <3>4. Dispatch!ContextOf(open') = Root
      BY <3>1 DEF Dispatch!ContextOf
    <3>5. TypeOK'
      <4>1. Len(contexts') <= MaxNesting + 1
        BY <1>4, <2>3, <2>7
      <4>2. /\ call'.to = c /\ call'.elem = elem /\ call'.child = NoContext
        BY <3>3 DEF Call
      <4> QED BY <1>8, <1>9, <1>typed, <2>3, <4>1, <4>2
    <3> QED BY <1>1, <1>2, <1>9, <1>10, <2>4, <2>5, <3>1, <3>2, <3>3, <3>4, <3>5
            DEF IInv, PopsWhatWasPushed
  <2>8. CASE n # 1
    <3>1. n - 1 \in 1 .. n /\ n - 1 < n /\ Len(contexts') = n - 1 /\ contexts' # <<>>
          /\ contexts'[n - 1] = contexts[n - 1]
      BY <1>6, <2>3, <2>8
    <3>2. /\ contexts'[n - 1] \in AllContexts /\ Dispatch!ContextOf(open') = contexts'[n - 1]
      BY <1>12, <1>13, <2>3, <2>4, <2>6, <3>1, Innermost
    <3>3. contexts[n - 1] # c
      BY <1>5, <1>6, <1>7, <3>1 DEF Once
    <3>4. call' = Call("end_child_context", contexts[n - 1], elem, c)
      BY <1>6, <2>2, <2>8 DEF Report
    <3>5. TypeOK'
      <4>1. Len(contexts') <= MaxNesting + 1
        BY <1>2, <1>4, <1>6, <2>3 DEF TypeOK
      <4>2. /\ call'.to = contexts'[n - 1] /\ call'.elem = elem /\ call'.child = c
        BY <3>1, <3>4 DEF Call
      <4> QED BY <1>8, <1>9, <1>typed, <2>3, <3>2, <4>1, <4>2
    <3>6. Open'
      BY <2>5, <2>6, <3>1 DEF Open
    <3>7. IInv' /\ phase' # "failed"
      BY <1>1, <1>2, <1>10, <2>4, <2>5, <3>5, <3>6 DEF IInv, PopsWhatWasPushed
    <3> QED BY <1>1, <1>9, <1>10, <3>1, <3>2, <3>3, <3>4, <3>7
  <2> QED BY <2>7, <2>8
<1>16. CASE rest # <<>>
  <2>1. /\ contexts' = contexts /\ call' = Call("end_element", c, elem, NoContext)
    BY <1>10, <1>16
  <2>2. Layered([b EXCEPT ![Len(contexts) + 1] = @ - 1], contexts', stack', open')
    <3>1. stack' = [stack EXCEPT ![contexts[Len(contexts)]] = SubSeq(@, 1, Len(@) - 1)]
      BY <1>7, <1>10 DEF rest
    <3>2. Len(stack[contexts[Len(contexts)]]) # 1
      BY <1>7, <1>11, <1>16
    <3>3. Layered([b EXCEPT ![Len(contexts) + 1] = @ - 1], contexts,
                  [stack EXCEPT ![contexts[Len(contexts)]] = SubSeq(@, 1, Len(@) - 1)],
                  SubSeq(open, 1, Len(open) - 1))
      BY <1>1, <1>2, <1>3, <1>4, <1>5, <3>2, ShrinkLayer
    <3> QED BY <1>10, <2>1, <3>1, <3>3
  <2>3. Idle(contexts', stack')
    <3>1. c \in Range(contexts)
      BY <1>4, <1>7, RangeIs
    <3> QED BY <1>2, <1>13, <2>1, <3>1 DEF Idle
  <2>4. Dispatch!ContextOf(open') = c
    BY <1>2, <1>4, <1>7, <1>12, <1>13, <2>1, <2>2, Innermost
  <2>5. TypeOK'
    BY <1>2, <1>4, <1>8, <1>9, <1>typed, <2>1 DEF TypeOK, Call
  <2>6. IInv' /\ phase' # "failed"
    BY <1>1, <1>2, <1>10, <2>1, <2>2, <2>3, <2>5 DEF IInv, Open, PopsWhatWasPushed
  <2> QED BY <1>1, <1>9, <1>10, <2>1, <2>4, <2>6
<1> QED BY <1>15, <1>16

\* Text and declarations are told to the context on top.
LEMMA TellIInv ==
    ASSUME IInv, NEW op, phase = "open",
           call' = Call(op, CurrentContext, NoElement, NoContext),
           UNCHANGED <<phase, open, contexts, stack, error>>
    PROVE  IInv' /\ CurrentContext = Dispatch!ContextOf(open)
<1>1. /\ TypeOK /\ ContextsNest(contexts) /\ contexts # <<>>
  BY DEF IInv, Open
<1>2. PICK b : Layered(b, contexts, stack, open)
  BY DEF IInv, Open
<1>3. contexts \in Seq(AllContexts) /\ stack \in Stacks /\ open \in Seq(Element)
  BY <1>1 DEF TypeOK, Stacks, Element
<1>4. CurrentContext \in AllContexts /\ CurrentContext = Dispatch!ContextOf(open)
  BY <1>1, <1>2, <1>3, Innermost DEF CurrentContext
<1>5. TypeOK'
  BY <1>1, <1>4 DEF TypeOK, Call
<1>6. Open => Open'
  BY DEF Open, Idle, Layered
<1>7. PopsWhatWasPushed => PopsWhatWasPushed'
  BY DEF PopsWhatWasPushed
<1>8. ContextsNest(contexts)' /\ (Idle(contexts, stack) => Idle(contexts, stack)')
  BY <1>1 DEF ContextsNest, Idle
<1> QED BY <1>4, <1>5, <1>6, <1>7, <1>8 DEF IInv

\* The end of the stream, and what changes nothing.
LEMMA QuietIInv ==
    ASSUME IInv, EndOfStream \/ UNCHANGED vars
    PROVE  /\ IInv' /\ UNCHANGED <<open, call>>
           /\ phase' = "failed" <=> phase = "failed"
<1>1. CASE EndOfStream
  <2>1. /\ phase' = "done" /\ phase # "failed"
        /\ UNCHANGED <<open, contexts, stack, error, call>>
    BY <1>1 DEF EndOfStream
  <2>2. TypeOK'
    BY <2>1 DEF IInv, TypeOK
  <2>3. PopsWhatWasPushed' /\ ContextsNest(contexts)' /\ phase' # "open"
        /\ Idle(contexts, stack)'
    BY <2>1 DEF IInv, PopsWhatWasPushed, ContextsNest, Idle
  <2> QED BY <2>1, <2>2, <2>3 DEF IInv
<1>2. CASE UNCHANGED vars
  <2>1. UNCHANGED <<phase, open, contexts, stack, error, call>>
    BY <1>2 DEF vars
  <2>2. TypeOK'
    BY <2>1 DEF IInv, TypeOK
  <2>3. (phase = "open" => Open) => (phase' = "open" => Open')
    BY <2>1 DEF Open, Idle, Layered
  <2>4. /\ PopsWhatWasPushed => PopsWhatWasPushed'
        /\ ContextsNest(contexts) => ContextsNest(contexts)'
    BY <2>1 DEF PopsWhatWasPushed, ContextsNest
  <2>5. (phase # "failed" => Idle(contexts, stack))
          => (phase' # "failed" => Idle(contexts, stack)')
    BY <2>1 DEF Idle
  <2> QED BY <2>1, <2>2, <2>3, <2>4, <2>5 DEF IInv
<1> QED BY <1>1, <1>2

\* What throws keeps the stacks as they are, but a context may be on the stack
\* that was not given its element.
LEMMA ThrowIInv ==
    ASSUME IInv, Next, phase' = "failed", phase # "failed"
    PROVE  IInv' /\ call' = call
<1>1. CASE \E elem \in Elements : StartElement(elem)
  <2>1. PICK elem \in Elements : StartElement(elem)
    BY <1>1
  <2>2. phase = "open"
    BY <2>1 DEF StartElement
  <2>3. CASE TooDeep(contexts)
    <3>1. /\ UNCHANGED <<open, call, contexts, stack>> /\ error' = "xml_structure_error"
      BY <2>1, <2>3 DEF StartElement, Throw
    <3>2. contexts \in Seq(AllContexts) /\ Len(contexts) <= MaxNesting + 1
          /\ ContextsNest(contexts)
      BY DEF IInv, TypeOK
    <3> QED BY <3>1, <3>2, FailedIInv
  <2>4. CASE ~ TooDeep(contexts)
    <3>1. /\ UNCHANGED <<open, call, stack>> /\ error' = "xml_structure_error"
          /\ contexts' = ContextsFor(elem)
      BY <2>1, <2>2, <2>4 DEF StartElement, Throw
    <3>2. /\ ContextsFor(elem) \in Seq(AllContexts) /\ ContextsNest(ContextsFor(elem))
          /\ Len(ContextsFor(elem)) <= MaxNesting + 1
      BY <2>2, <2>4, ContextsForType
    <3> QED BY <3>1, <3>2, FailedIInv
  <2> QED BY <2>3, <2>4
<1>2. CASE EndElement
  BY <1>2, EndElementIInv
<1>3. CASE Abort
  <2>1. UNCHANGED <<open, call, contexts, stack>> /\ error' = "other"
    BY <1>3 DEF Abort, Throw
  <2>2. contexts \in Seq(AllContexts) /\ Len(contexts) <= MaxNesting + 1
        /\ ContextsNest(contexts)
    BY DEF IInv, TypeOK
  <2> QED BY <2>1, <2>2, FailedIInv
<1>4. CASE Characters \/ Declaration \/ EndOfStream \/ Stopped
  BY <1>4 DEF Characters, Declaration, EndOfStream, Stopped, vars
<1> QED BY <1>1, <1>2, <1>3, <1>4 DEF Next

\* The strengthening is inductive, and every step is one of ContextDispatch.
LEMMA StepIInv ==
    ASSUME IInv, [Next]_vars
    PROVE  IInv' /\ [Dispatch!Next]_(Dispatch!vars)
<1> DEFINE mapped == IF phase = "failed" THEN <<>> ELSE open
           failed == phase = "failed"
<1>1. CASE Next /\ phase' = "failed" /\ phase # "failed"
  <2>1. IInv' /\ call' = call
    BY <1>1, ThrowIInv
  <2>2. Dispatch!Fail
    BY <1>1, <2>1 DEF Dispatch!Fail
  <2> QED BY <1>1, <2>1, <2>2 DEF Dispatch!Next
<1>2. ASSUME NEW elem \in Elements, StartElement(elem), phase' # "failed"
      PROVE  IInv' /\ [Dispatch!Next]_(Dispatch!vars)
  <2>1. /\ IInv' /\ phase = "open" /\ phase' = "open"
        /\ open' = Append(open, [elem |-> elem, context |-> Dispatch!ContextFor(elem)])
        /\ call' = Call("start_element", Dispatch!ContextFor(elem), elem, NoContext)
    BY <1>2, StartElementIInv
  <2>2. Dispatch!Start(elem)
    BY <2>1 DEF Dispatch!Start, Dispatch!Call, Call
  <2> QED BY <2>1, <2>2 DEF Dispatch!Next
<1>3. CASE EndElement
  <2>1. /\ IInv' /\ phase = "open" /\ phase' # "failed"
        /\ open # <<>> /\ open' = SubSeq(open, 1, Len(open) - 1)
        /\ call' = LET elem == Dispatch!ElementOf(open)
                       context == Dispatch!ContextOf(open)
                       outer == Dispatch!ContextOf(open')
                   IN  IF context # outer
                       THEN Call("end_child_context", outer, elem, context)
                       ELSE Call("end_element", context, elem, NoContext)
    BY <1>3, EndElementIInv
  <2>2. Dispatch!End
    BY <2>1 DEF Dispatch!End, Dispatch!Call, Call
  <2> QED BY <2>1, <2>2 DEF Dispatch!Next
<1>4. CASE Characters \/ Declaration
  <2>1. PICK op \in {"characters", "declaration"} :
          /\ phase = "open" /\ call' = Call(op, CurrentContext, NoElement, NoContext)
          /\ UNCHANGED <<phase, open, contexts, stack, error>>
    BY <1>4 DEF Characters, Declaration
  <2>2. IInv' /\ CurrentContext = Dispatch!ContextOf(open)
    BY <2>1, TellIInv
  <2>3. Dispatch!Tell(op)
    BY <2>1, <2>2 DEF Dispatch!Tell, Dispatch!Call, Call
  <2> QED BY <2>1, <2>2, <2>3 DEF Dispatch!Next
<1>5. CASE EndOfStream \/ Stopped \/ UNCHANGED vars
  <2>1. /\ IInv' /\ UNCHANGED <<open, call>> /\ (phase' = "failed" <=> phase = "failed")
    BY <1>5, QuietIInv DEF Stopped
  <2> QED BY <2>1 DEF Dispatch!vars
<1>6. CASE Abort
  BY <1>1, <1>6 DEF Abort, Throw, Next
<1> QED BY <1>1, <1>2, <1>3, <1>4, <1>5, <1>6 DEF Next, StartElement

----------------------------------------------------------------------------
(* The theorems.                                                           *)

\* The strengthening holds of every state.
THEOREM InductiveInvariant == Spec => []IInv
<1>1. Init => IInv
  BY InitIInv
<1>2. IInv /\ [Next]_vars => IInv'
  BY StepIInv
<1> QED BY <1>1, <1>2, PTL DEF Spec

\* The handler's state has the values it should, and no stack grows beyond the
\* limit and one more (xml_stream_handler::start_element and push_stack), for
\* every filter and every limit.
THEOREM TypeCorrect == Spec => []TypeOK
<1>1. IInv => TypeOK
  BY DEF IInv
<1> QED BY <1>1, InductiveInvariant, PTL

\* No element ends in a context that was not given it (pop_stack of
\* xml_context_base), for every filter.
THEOREM NothingElseIsPopped == Spec => []PopsWhatWasPushed
<1>1. IInv => PopsWhatWasPushed
  BY DEF IInv
<1> QED BY <1>1, InductiveInvariant, PTL

\* A context that is not on the stack has no element left from an earlier time
\* (xml_stream_handler::end_element), and none is there twice.
THEOREM ContextsAreFresh == Spec => []IdleContextsAreFresh
<1>1. IInv => IdleContextsAreFresh
  <2> SUFFICES ASSUME IInv PROVE IdleContextsAreFresh
    OBVIOUS
  <2>1. Once(contexts)
    BY NestedOnce DEF IInv, TypeOK
  <2> QED BY <2>1 DEF IInv, IdleContextsAreFresh, Once, Idle
<1> QED BY <1>1, InductiveInvariant, PTL

\* The stacks of xml_stream_handler and of its contexts implement dispatch by
\* the path of an element.
THEOREM HandlerImplementsDispatch == Spec => ImplementsDispatch
<1>1. Init => Dispatch!Init
  BY DEF Init, Call, Dispatch!Init, Dispatch!Call
<1>2. IInv /\ [Next]_vars => [Dispatch!Next]_(Dispatch!vars)
  BY StepIInv
<1> QED BY <1>1, <1>2, InductiveInvariant, PTL DEF Spec, ImplementsDispatch, Dispatch!Spec
=============================================================================
