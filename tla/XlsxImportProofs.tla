-------------------------- MODULE XlsxImportProofs --------------------------
(***************************************************************************)
(* Proofs about OpcReader, which the first part of the module is about,    *)
(* and XlsxImport: what an import reads.                                   *)
(***************************************************************************)
EXTENDS XlsxImport, SequenceTheorems, NaturalsInduction, WellFoundedInduction, TLAPS

(***************************************************************************)
(* Proofs about OpcReader.  The strengthening says of every frame that     *)
(* undoing its record of changed directories, the last change first, leads *)
(* from the directory it is in back through its trail to its base; the     *)
(* frame above started where the one below it is.  An empty entry of the   *)
(* record can only mean a directory that was entered, as the root entry,   *)
(* the one that is empty, is never left.  A second strengthening accounts   *)
(* for every part that was parsed: it is recorded as handled, or a frame is *)
(* still inside of its handler.                                            *)
(***************************************************************************)
Extra == UNION {[D -> Data] : D \in SUBSET RelationId}
Frames == [at : Path, rels : Seq(Relation), extras : Extra, base : Path,
           pc : {"next", "enter", "within", "leave"}, dirs : Seq(Dirs),
           name : Texts, type : Types, data : Data, path : Path,
           changed : Seq(Texts), trail : Seq(Path)]

\* The root entry is at the bottom, and there only.
Rooted(d) == d # <<>> /\ d[1] = Empty /\ \A i \in 2 .. Len(d) : d[i] # Empty

\* The directory before a change, from the record of it and the one after.
Undone(left, d) == IF left = Empty THEN SubSeq(d, 1, Len(d) - 1) ELSE Append(d, left)

Walked(base, changed, trail, d) ==
    /\ Len(trail) = Len(changed)
    /\ Append(trail, d)[1] = base
    /\ \A k \in 1 .. Len(changed) :
         /\ Rooted(trail[k])
         /\ trail[k] = Undone(changed[k], Append(trail, d)[k + 1])

\* The directory of a part is the one its frame started in.
OwnDirectory(f) == f.at # <<>> => f.at = FullPath(f.base, f.at[Len(f.at)])

DirectoryOf(cs, i, d) == IF i = Len(cs) THEN d ELSE cs[i + 1].base

FrameOK(cs, i, d) ==
    /\ cs[i].pc = "within" <=> i # Len(cs)
    /\ cs[i].pc = "next" => cs[i].changed = <<>>
    /\ OwnDirectory(cs[i])
    /\ Walked(cs[i].base, cs[i].changed, cs[i].trail, DirectoryOf(cs, i, d))

CallsOK(cs, d) == cs \in Seq(Frames) /\ \A i \in 1 .. Len(cs) : FrameOK(cs, i, d)

IInv ==
    /\ package \in Packages
    /\ phase \in {"idle", "parts", "formulas", "done", "thrown", "exhausted"}
    /\ dir \in Path /\ handled \subseteq Path
    /\ CallsOK(calls, dir)
    /\ phase = "idle" => dir = <<>>
    /\ phase = "parts" => calls # <<>> /\ Rooted(dir)
    /\ phase # "parts" => calls = <<>>

----------------------------------------------------------------------------
(* Directories.                                                            *)

\* The ends of an appended sequence.
LEMMA Appended ==
    ASSUME NEW S, NEW s \in Seq(S), NEW e \in S
    PROVE  /\ Append(s, e) \in Seq(S) /\ Len(Append(s, e)) = Len(s) + 1
           /\ \A i \in 1 .. Len(s) : Append(s, e)[i] = s[i]
           /\ Append(s, e)[Len(s) + 1] = e
  BY AppendProperties

\* A sequence without its last element.
LEMMA Shortened ==
    ASSUME NEW S, NEW s \in Seq(S), s # <<>>
    PROVE  /\ Len(s) \in Nat /\ Len(s) > 0 /\ s[Len(s)] \in S
           /\ SubSeq(s, 1, Len(s) - 1) \in Seq(S)
           /\ Len(SubSeq(s, 1, Len(s) - 1)) = Len(s) - 1
           /\ \A i \in 1 .. Len(s) - 1 : SubSeq(s, 1, Len(s) - 1)[i] = s[i]
           /\ Append(SubSeq(s, 1, Len(s) - 1), s[Len(s)]) = s
<1>1. PICK n \in Nat : n = Len(s) /\ n > 0
  BY LenProperties, EmptySeq
<1>2. s[n] \in S
  BY <1>1, ElementOfSeq
<1> DEFINE t == SubSeq(s, 1, n - 1)
<1>3. t \in Seq(S) /\ Len(t) = n - 1 /\ \A i \in 1 .. n - 1 : t[i] = s[i]
  BY <1>1, SubSeqProperties
<1> HIDE DEF t
<1>4. Append(t, s[n]) \in Seq(S) /\ Len(Append(t, s[n])) = n /\ Append(t, s[n])[n] = s[n]
      /\ \A i \in 1 .. n - 1 : Append(t, s[n])[i] = t[i]
  BY <1>1, <1>2, <1>3, AppendProperties
<1>5. \A i \in 1 .. n : Append(t, s[n])[i] = s[i]
  BY <1>1, <1>3, <1>4
<1>6. Append(t, s[n]) = s
  BY <1>1, <1>4, <1>5, SeqEqual
<1> QED BY <1>1, <1>2, <1>3, <1>6 DEF t

\* Where nothing has been changed the directory is the base.
LEMMA NothingChanged ==
    ASSUME NEW base, NEW d \in Path, NEW trail \in Seq(Path),
           Walked(base, <<>>, trail, d)
    PROVE  d = base
<1>1. Len(trail) = 0
  BY EmptySeq DEF Walked
<1> QED BY <1>1, Appended DEF Walked

\* A walk starts where it is.
LEMMA WalkStarts ==
    ASSUME NEW d \in Path
    PROVE  Walked(d, <<>>, <<>>, d)
  BY EmptySeq, AppendProperties DEF Walked, Path

\* A change that the record undoes makes a longer walk.
LEMMA WalkGrows ==
    ASSUME NEW base, NEW changed \in Seq(Texts), NEW trail \in Seq(Path),
           NEW d \in Path, NEW e \in Path, NEW left \in Texts,
           Walked(base, changed, trail, d), Rooted(d), d = Undone(left, e)
    PROVE  Walked(base, Append(changed, left), Append(trail, d), e)
<1> DEFINE c == Append(changed, left)
           t == Append(trail, d)
           w == Append(t, e)
<1>0. PICK n \in Nat : n = Len(changed) /\ n = Len(trail)
  BY LenProperties DEF Walked
<1>1. /\ c \in Seq(Texts) /\ Len(c) = n + 1 /\ c[n + 1] = left
      /\ \A i \in 1 .. n : c[i] = changed[i]
  <2>1. c \in Seq(Texts) /\ Len(c) = Len(changed) + 1
    BY AppendProperties
  <2>2. c[Len(changed) + 1] = left
    BY AppendProperties
  <2>3. \A i \in 1 .. Len(changed) : c[i] = changed[i]
    BY AppendProperties
  <2> HIDE DEF c
  <2> QED BY <1>0, <2>1, <2>2, <2>3
<1>2. /\ t \in Seq(Path) /\ Len(t) = n + 1 /\ t[n + 1] = d
      /\ \A i \in 1 .. n : t[i] = trail[i]
  <2>1. t \in Seq(Path) /\ Len(t) = Len(trail) + 1
    BY AppendProperties
  <2>2. t[Len(trail) + 1] = d
    BY AppendProperties
  <2>3. \A i \in 1 .. Len(trail) : t[i] = trail[i]
    BY AppendProperties
  <2> HIDE DEF t
  <2> QED BY <1>0, <2>1, <2>2, <2>3
<1>3. /\ w \in Seq(Path) /\ Len(w) = n + 2 /\ w[n + 2] = e
      /\ \A i \in 1 .. n + 1 : w[i] = t[i]
  <2>1. w \in Seq(Path) /\ Len(w) = Len(t) + 1
    BY <1>2, AppendProperties
  <2>2. w[Len(t) + 1] = e
    BY <1>2, AppendProperties
  <2>3. \A i \in 1 .. Len(t) : w[i] = t[i]
    <3>1. t \in Seq(Path)
      BY <1>2
    <3> HIDE DEF t
    <3> QED BY <3>1, AppendProperties
  <2> HIDE DEF t, w
  <2> QED BY <1>0, <1>2, <2>1, <2>2, <2>3
<1> HIDE DEF c, t, w
<1>4. w[1] = base
  <2>1. t[1] = base
    BY DEF Walked, t
  <2> QED BY <1>0, <1>3, <2>1
<1>5. ASSUME NEW k \in 1 .. n + 1
      PROVE  Rooted(t[k]) /\ t[k] = Undone(c[k], w[k + 1])
  <2>1. CASE k = n + 1
    <3>1. t[k] = d /\ c[k] = left
      BY <2>1, <1>1, <1>2
    <3>2. k + 1 = n + 2
      BY <2>1
    <3>3. w[k + 1] = e
      BY <3>2, <1>3
    <3> QED BY <3>1, <3>3
  <2>2. CASE k # n + 1
    <3>1. k \in 1 .. n /\ k + 1 \in 1 .. n + 1
      BY <2>2
    <3>2. w[k + 1] = t[k + 1] /\ t[k] = trail[k] /\ c[k] = changed[k]
      BY <3>1, <1>1, <1>2, <1>3
    <3> QED BY <3>1, <3>2, <1>0 DEF Walked, t
  <2> QED BY <2>1, <2>2
<1> QED BY <1>1, <1>2, <1>4, <1>5 DEF Walked, c, t, w

\* Undoing the last change leads back along the trail.
LEMMA WalkShrinks ==
    ASSUME NEW base, NEW changed \in Seq(Texts), NEW trail \in Seq(Path),
           NEW d \in Path, Walked(base, changed, trail, d), changed # <<>>
    PROVE  LET n == Len(changed)
               e == Undone(changed[n], d) IN
           /\ e \in Path /\ Rooted(e)
           /\ SubSeq(changed, 1, n - 1) \in Seq(Texts)
           /\ SubSeq(trail, 1, Len(trail) - 1) \in Seq(Path)
           /\ Walked(base, SubSeq(changed, 1, n - 1), SubSeq(trail, 1, Len(trail) - 1), e)
<1>0. PICK n \in Nat : n = Len(changed) /\ n = Len(trail) /\ n > 0
  BY LenProperties, EmptySeq DEF Walked
<1> DEFINE c == SubSeq(changed, 1, n - 1)
           t == SubSeq(trail, 1, n - 1)
           w == Append(trail, d)
           e == Undone(changed[n], d)
<1>1. trail # <<>> /\ trail[n] \in Path
  BY <1>0, EmptySeq, ElementOfSeq
<1>2. w[n + 1] = d /\ \A i \in 1 .. n : w[i] = trail[i]
  BY <1>0, Appended
<1>3. e = trail[n] /\ Rooted(e)
  BY <1>0, <1>2 DEF Walked
<1>4. c \in Seq(Texts) /\ Len(c) = n - 1 /\ \A i \in 1 .. n - 1 : c[i] = changed[i]
  BY <1>0, Shortened
<1>5. t \in Seq(Path) /\ Append(t, e) = trail /\ Len(t) = n - 1
      /\ \A i \in 1 .. n - 1 : t[i] = trail[i]
  BY <1>0, <1>1, <1>3, Shortened
<1>6. ASSUME NEW k \in 1 .. n - 1
      PROVE  Rooted(t[k]) /\ t[k] = Undone(c[k], Append(t, e)[k + 1])
  <2>1. k \in 1 .. n /\ k + 1 \in 1 .. n
    BY <1>0
  <2>2. w[k + 1] = trail[k + 1] /\ t[k] = trail[k] /\ c[k] = changed[k]
    BY <2>1, <1>2, <1>4, <1>5
  <2>3. Rooted(trail[k]) /\ trail[k] = Undone(changed[k], w[k + 1])
    BY <2>1, <1>0 DEF Walked
  <2> QED BY <2>2, <2>3, <1>5
<1>7. Append(t, e)[1] = base
  BY <1>0, <1>2, <1>5 DEF Walked
<1>8. Walked(base, c, t, e)
  BY <1>4, <1>5, <1>6, <1>7 DEF Walked
<1> QED BY <1>0, <1>1, <1>3, <1>4, <1>5, <1>8

----------------------------------------------------------------------------
(* Frames.                                                                 *)

\* The top frame walks, or moves on in its loop.
LEMMA ReplaceTop ==
    ASSUME NEW cs \in Seq(Frames), cs # <<>>, NEW d, CallsOK(cs, d), NEW g \in Frames, NEW e,
           g.pc # "within", g.at = cs[Len(cs)].at, g.base = cs[Len(cs)].base,
           g.pc = "next" => g.changed = <<>>, Walked(g.base, g.changed, g.trail, e)
    PROVE  CallsOK([cs EXCEPT ![Len(cs)] = g], e) /\ [cs EXCEPT ![Len(cs)] = g] # <<>>
<1>0. PICK n \in Nat : n = Len(cs) /\ n > 0
  BY LenProperties, EmptySeq
<1> DEFINE new == [cs EXCEPT ![n] = g]
<1>1. new \in Seq(Frames) /\ Len(new) = n
  BY <1>0, ExceptSeq
<1>2. \A j \in 1 .. n : new[j] = IF j = n THEN g ELSE cs[j]
  BY <1>0, ExceptSeq
<1> HIDE DEF new
<1>3. ASSUME NEW i \in 1 .. n
      PROVE  FrameOK(new, i, e)
  <2>0. FrameOK(cs, i, d)
    BY <1>0 DEF CallsOK
  <2>1. CASE i = n
    <3>1. new[i] = g /\ OwnDirectory(g)
      BY <1>0, <1>2, <2>0, <2>1 DEF FrameOK, OwnDirectory
    <3> QED BY <1>1, <2>1, <3>1 DEF FrameOK, DirectoryOf
  <2>2. CASE i # n
    <3>1. i + 1 \in 1 .. n /\ new[i] = cs[i]
      BY <2>2, <1>0, <1>2
    <3>2. new[i + 1].base = cs[i + 1].base
      BY <3>1, <1>0, <1>2
    <3> QED BY <1>0, <1>1, <2>0, <2>2, <3>1, <3>2 DEF FrameOK, DirectoryOf
  <2> QED BY <2>1, <2>2
<1>4. new # <<>>
  BY <1>0, <1>1, EmptySeq
<1> QED BY <1>0, <1>1, <1>3, <1>4 DEF CallsOK, new

\* A handler that goes on to the relations of its part.
LEMMA PushFrame ==
    ASSUME NEW cs \in Seq(Frames), cs # <<>>, NEW d \in Path, CallsOK(cs, d),
           NEW g \in Frames, g.pc = "within",
           g = [cs[Len(cs)] EXCEPT !.pc = "within", !.path = g.path],
           NEW h \in Frames, h.pc = "next", h.base = d, h.changed = <<>>, h.trail = <<>>,
           OwnDirectory(h)
    PROVE  LET new == Append([cs EXCEPT ![Len(cs)] = g], h)
           IN  CallsOK(new, d) /\ new # <<>>
<1>0. PICK n \in Nat : n = Len(cs) /\ n > 0
  BY LenProperties, EmptySeq
<1> DEFINE mid == [cs EXCEPT ![n] = g]
           new == Append(mid, h)
<1>1. mid \in Seq(Frames) /\ Len(mid) = n
  BY <1>0, ExceptSeq
<1>2. \A j \in 1 .. n : mid[j] = IF j = n THEN g ELSE cs[j]
  BY <1>0, ExceptSeq
<1>3. /\ new \in Seq(Frames) /\ Len(new) = n + 1 /\ new[n + 1] = h
      /\ \A j \in 1 .. n : new[j] = mid[j]
  <2> HIDE DEF mid
  <2>1. new \in Seq(Frames) /\ Len(new) = Len(mid) + 1
    BY <1>1, AppendProperties
  <2>2. new[Len(mid) + 1] = h
    BY <1>1, AppendProperties
  <2>3. \A j \in 1 .. Len(mid) : new[j] = mid[j]
    BY <1>1, AppendProperties
  <2> HIDE DEF new
  <2> QED BY <1>1, <2>1, <2>2, <2>3
<1> HIDE DEF mid, new
<1>4. /\ g.at = cs[n].at /\ g.base = cs[n].base /\ g.changed = cs[n].changed
      /\ g.trail = cs[n].trail
  <2>1. cs[n] \in Frames
    BY <1>0, ElementOfSeq
  <2> QED BY <1>0, <2>1 DEF Frames
<1>5. ASSUME NEW i \in 1 .. n + 1
      PROVE  FrameOK(new, i, d)
  <2>1. CASE i = n + 1
    <3>1. Walked(h.base, h.changed, h.trail, d)
      BY WalkStarts
    <3> QED BY <1>3, <2>1, <3>1 DEF FrameOK, DirectoryOf
  <2>2. CASE i = n
    <3>1. FrameOK(cs, n, d)
      BY <1>0 DEF CallsOK
    <3>2. new[i] = g /\ OwnDirectory(g) /\ Walked(g.base, g.changed, g.trail, d)
      BY <1>0, <1>2, <1>3, <1>4, <2>2, <3>1 DEF FrameOK, OwnDirectory, DirectoryOf
    <3>3. new[i + 1].base = d /\ i # Len(new)
      BY <1>0, <1>3, <2>2
    <3> QED BY <3>2, <3>3 DEF FrameOK, DirectoryOf
  <2>3. CASE i \in 1 .. n - 1
    <3>1. FrameOK(cs, i, d) /\ i # Len(cs)
      BY <1>0, <2>3 DEF CallsOK
    <3>2. new[i] = cs[i]
      BY <1>0, <1>2, <1>3, <2>3
    <3>3. new[i + 1].base = cs[i + 1].base
      BY <1>0, <1>2, <1>3, <1>4, <2>3
    <3>4. i # Len(new)
      BY <1>0, <1>3, <2>3
    <3> QED BY <3>1, <3>2, <3>3, <3>4 DEF FrameOK, DirectoryOf
  <2> QED BY <1>0, <2>1, <2>2, <2>3
<1>6. new # <<>>
  BY <1>0, <1>3, EmptySeq
<1> QED BY <1>0, <1>3, <1>5, <1>6 DEF CallsOK, new, mid

\* The loop of a part has ended: the frame below is where it left off.
LEMMA PopFrame ==
    ASSUME NEW cs \in Seq(Frames), Len(cs) > 1, NEW d \in Path, CallsOK(cs, d),
           cs[Len(cs)].pc = "next"
    PROVE  LET n == Len(cs) - 1
               new == [SubSeq(cs, 1, n) EXCEPT ![n] = [cs[n] EXCEPT !.pc = "leave"]]
           IN  CallsOK(new, d) /\ new # <<>>
<1>0. PICK n \in Nat : n = Len(cs) - 1 /\ n > 0
  BY LenProperties
<1> DEFINE sub == SubSeq(cs, 1, n)
           g == [cs[n] EXCEPT !.pc = "leave"]
           new == [sub EXCEPT ![n] = g]
<1>1. sub \in Seq(Frames) /\ Len(sub) = n /\ \A j \in 1 .. n : sub[j] = cs[j]
  BY <1>0, SubSeqProperties, ElementOfSeq
<1>2. cs[n] \in Frames /\ cs[n + 1] \in Frames
  BY <1>0, ElementOfSeq
<1>3. /\ g \in Frames /\ g.at = cs[n].at /\ g.base = cs[n].base /\ g.pc = "leave"
      /\ g.changed = cs[n].changed /\ g.trail = cs[n].trail
  BY <1>2 DEF Frames
<1> HIDE DEF sub, g
<1>4. new \in Seq(Frames) /\ Len(new) = n
  BY <1>0, <1>1, <1>3, ExceptSeq
<1>5. \A j \in 1 .. n : new[j] = IF j = n THEN g ELSE sub[j]
  BY <1>0, <1>1, <1>3, ExceptSeq
<1> HIDE DEF new
<1>6. d = cs[n + 1].base
  <2>1. FrameOK(cs, n + 1, d) /\ n + 1 = Len(cs)
    BY <1>0 DEF CallsOK
  <2>2. cs[n + 1].changed = <<>> /\ Walked(cs[n + 1].base, <<>>, cs[n + 1].trail, d)
    BY <2>1 DEF FrameOK, DirectoryOf
  <2>3. cs[n + 1].trail \in Seq(Path)
    BY <1>2 DEF Frames
  <2> QED BY <2>2, <2>3, NothingChanged
<1>7. ASSUME NEW i \in 1 .. n
      PROVE  FrameOK(new, i, d)
  <2>0. FrameOK(cs, i, d) /\ i # Len(cs)
    BY <1>0 DEF CallsOK
  <2>1. CASE i = n
    <3>1. new[i] = g /\ OwnDirectory(g) /\ Walked(g.base, g.changed, g.trail, d)
      BY <1>0, <1>3, <1>5, <1>6, <2>0, <2>1 DEF FrameOK, OwnDirectory, DirectoryOf
    <3> QED BY <1>3, <1>4, <2>1, <3>1 DEF FrameOK, DirectoryOf
  <2>2. CASE i # n
    <3>1. i + 1 \in 1 .. n /\ new[i] = cs[i] /\ i # Len(new)
      BY <1>0, <1>1, <1>4, <1>5, <2>2
    <3>2. new[i + 1].base = cs[i + 1].base
      BY <3>1, <1>0, <1>1, <1>3, <1>5
    <3> QED BY <2>0, <3>1, <3>2 DEF FrameOK, DirectoryOf
  <2> QED BY <2>1, <2>2
<1>8. new # <<>>
  BY <1>0, <1>4, EmptySeq
<1> QED BY <1>0, <1>4, <1>7, <1>8 DEF CallsOK, new, sub, g

----------------------------------------------------------------------------
(* Packages and paths.                                                     *)

\* A directory entered or left from a rooted stack leaves it rooted.
LEMMA StaysRooted ==
    ASSUME NEW d \in Path, Rooted(d)
    PROVE  /\ \A seg \in Dirs :
                Append(d, seg) \in Path /\ Rooted(Append(d, seg)) /\ d = Undone(Empty, Append(d, seg))
           /\ Len(d) > 1 =>
                LET e == SubSeq(d, 1, Len(d) - 1)
                IN  e \in Path /\ Rooted(e) /\ d[Len(d)] \in Texts /\ d = Undone(d[Len(d)], e)
<1>a. d \in Seq(Texts)
  BY DEF Path
<1>b. d # <<>> /\ d[1] = Empty /\ \A i \in 2 .. Len(d) : d[i] # Empty
  BY DEF Rooted
<1>0. PICK n \in Nat : n = Len(d) /\ n > 0
  BY <1>a, <1>b, LenProperties, EmptySeq
<1>1. ASSUME NEW seg \in Dirs
      PROVE  /\ Append(d, seg) \in Path /\ Rooted(Append(d, seg))
             /\ d = Undone(Empty, Append(d, seg))
  <2> DEFINE w == Append(d, seg)
             v == SubSeq(w, 1, n)
  <2>0. seg \in Texts /\ seg # Empty
    BY DEF Dirs
  <2>1. w \in Seq(Texts) /\ w # <<>>
    BY <1>a, <2>0, AppendProperties
  <2>2. Len(w) = Len(d) + 1
    BY <1>a, AppendProperties
  <2>3. w[Len(d) + 1] = seg
    BY <1>a, AppendProperties
  <2>4. \A i \in 1 .. Len(d) : w[i] = d[i]
    BY <1>a, AppendProperties
  <2> HIDE DEF w
  <2>5. w[1] = Empty
    BY <1>0, <1>b, <2>4
  <2>6. ASSUME NEW i \in 2 .. n + 1
        PROVE  w[i] # Empty
    <3>1. CASE i = n + 1
      BY <3>1, <1>0, <2>0, <2>3
    <3>2. CASE i \in 2 .. n
      BY <3>2, <1>0, <1>b, <2>4
    <3> QED BY <3>1, <3>2
  <2>7. Rooted(w)
    BY <1>0, <2>1, <2>2, <2>5, <2>6 DEF Rooted
  <2>8. \A i \in 1 .. n : w[i] \in Texts
    BY <1>0, <2>1, <2>2, ElementOfSeq
  <2>9. v \in Seq(Texts) /\ Len(v) = n /\ \A i \in 1 .. n : v[i] = w[i]
    BY <1>0, <2>8, SubSeqProperties
  <2> HIDE DEF v
  <2>10. \A i \in 1 .. n : v[i] = d[i]
    BY <1>0, <2>4, <2>9
  <2>11. v = d
    BY <1>0, <1>a, <2>9, <2>10, SeqEqual
  <2>12. Len(w) - 1 = n
    BY <1>0, <2>2
  <2>13. d = Undone(Empty, w)
    BY <2>11, <2>12 DEF Undone, v
  <2> QED BY <2>1, <2>7, <2>13 DEF w, Path
<1>2. ASSUME n > 1
      PROVE  LET e == SubSeq(d, 1, n - 1)
             IN  e \in Path /\ Rooted(e) /\ d[n] \in Texts /\ d = Undone(d[n], e)
  <2> DEFINE e == SubSeq(d, 1, n - 1)
  <2>1. e \in Seq(Texts) /\ Len(e) = n - 1 /\ \A i \in 1 .. n - 1 : e[i] = d[i]
    BY <1>a, <1>b, <1>0, Shortened
  <2>2. d[n] \in Texts /\ Append(e, d[n]) = d
    BY <1>a, <1>b, <1>0, Shortened
  <2> HIDE DEF e
  <2>3. d[n] # Empty
    BY <1>0, <1>2, <1>b
  <2>4. e # <<>>
    BY <1>2, <2>1, EmptySeq
  <2>5. e[1] = Empty /\ \A i \in 2 .. n - 1 : e[i] # Empty
    BY <1>0, <1>2, <1>b, <2>1
  <2>6. Rooted(e)
    BY <2>1, <2>4, <2>5 DEF Rooted
  <2>7. d = Undone(d[n], e)
    BY <2>2, <2>3 DEF Undone
  <2> QED BY <2>1, <2>2, <2>6, <2>7 DEF Path, e
<1> QED BY <1>0, <1>1, <1>2

\* The path of a part ends with its file name.
LEMMA PathOfPart ==
    ASSUME NEW d \in Path, d # <<>>, NEW name \in Texts
    PROVE  /\ FullPath(d, name) \in Path
           /\ FullPath(d, name)[Len(FullPath(d, name))] = name
<1>1. <<name>> \in Seq(Texts) /\ Len(<<name>>) = 1 /\ <<name>>[1] = name
  OBVIOUS
<1>2. Tail(d) \in Seq(Texts)
  BY HeadTailProperties DEF Path
<1>3. Append(Tail(d), name) \in Path
  BY <1>2, AppendProperties DEF Path
<1>4. Len(Append(Tail(d), name)) = Len(Tail(d)) + 1
  BY <1>2, AppendProperties
<1>5. Append(Tail(d), name)[Len(Tail(d)) + 1] = name
  BY <1>2, AppendProperties
<1> QED BY <1>1, <1>3, <1>4, <1>5 DEF FullPath, Path

\* A sorted sequence of relations is one of relations.
LEMMA SortedTyped ==
    ASSUME NEW rels \in Seq(Relation), NEW type, NEW out \in OrdersFor(type, rels)
    PROVE  out \in Seq(Relation)
<1>1. ASSUME out \in Sorted(rels)
      PROVE  out \in Seq(Relation)
  <2>1. PICK f \in Bijection(DOMAIN rels, DOMAIN rels) : out = [i \in DOMAIN rels |-> rels[f[i]]]
    BY <1>1 DEF Sorted
  <2>2. f \in [DOMAIN rels -> DOMAIN rels]
    BY <2>1 DEF Bijection, Injection, IsInjective
  <2>3. DOMAIN rels = 1 .. Len(rels) /\ Len(rels) \in Nat
    BY LenProperties
  <2>4. \A i \in 1 .. Len(rels) : rels[f[i]] \in Relation
    BY <2>2, <2>3, ElementOfSeq
  <2> QED BY <2>1, <2>3, <2>4
<1> QED BY <1>1 DEF OrdersFor, WorkbookOrders

\* What a package has.
LEMMA PackageFacts ==
    ASSUME NEW pkg \in Packages
    PROVE  /\ pkg.root \in Seq(Relation)
           /\ \A p \in DOMAIN pkg.parts :
                pkg.parts[p].rels \in Seq(Relation) /\ pkg.parts[p].extras \in Extra
<1>1. ASSUME NEW p \in DOMAIN pkg.parts
      PROVE  pkg.parts[p].extras \in Extra
  <2> DEFINE x == pkg.parts[p].extras
  <2>1. /\ x = [r \in DOMAIN x |-> x[r]] /\ DOMAIN x \subseteq RelationId
        /\ \A r \in DOMAIN x : x[r] \in Data
    BY PackageAssumption
  <2>2. x \in [DOMAIN x -> Data]
    BY <2>1
  <2> QED BY <2>1, <2>2 DEF Extra
<1> QED BY <1>1, PackageAssumption

\* A loop that starts is a frame.
LEMMA FrameTyped ==
    ASSUME NEW at \in Path, NEW rels \in Seq(Relation), NEW extras \in Extra, NEW base \in Path
    PROVE  LET h == Frame(at, rels, extras, base) IN
           /\ h \in Frames /\ h.pc = "next" /\ h.base = base /\ h.at = at
           /\ h.changed = <<>> /\ h.trail = <<>>
<1>1. <<>> \in Seq(Dirs) /\ <<>> \in Path /\ <<>> \in Seq(Texts) /\ <<>> \in Seq(Path)
  BY EmptySeq DEF Path
<1>2. Empty \in Texts /\ "other" \in Types /\ "null" \in Data
  BY TextAssumption DEF Data, Types
<1>3. Frame(at, rels, extras, base) \in Frames
  BY <1>1, <1>2 DEF Frame, Frames
<1> QED BY <1>3 DEF Frame

LEMMA NoExtras == <<>> \in Extra
<1>1. <<>> \in [{} -> Data]
  OBVIOUS
<1> QED BY <1>1 DEF Extra

\* The frame on top while parts are read.
LEMMA TopFacts ==
    ASSUME IInv, phase = "parts"
    PROVE  /\ calls \in Seq(Frames) /\ calls # <<>> /\ Len(calls) \in Nat /\ Len(calls) > 0
           /\ Top \in Frames /\ Top = calls[Len(calls)] /\ Top.pc # "within"
           /\ OwnDirectory(Top) /\ Walked(Top.base, Top.changed, Top.trail, dir)
           /\ Top.pc = "next" => Top.changed = <<>>
           /\ dir \in Path /\ Rooted(dir) /\ dir # <<>>
<1>1. calls \in Seq(Frames) /\ calls # <<>> /\ dir \in Path /\ Rooted(dir)
  BY DEF IInv, CallsOK
<1>2. Len(calls) \in Nat /\ Len(calls) > 0
  BY <1>1, LenProperties, EmptySeq
<1>3. Top \in Frames
  BY <1>1, <1>2, ElementOfSeq DEF Top
<1>4. FrameOK(calls, Len(calls), dir)
  BY <1>2 DEF IInv, CallsOK
<1> QED BY <1>1, <1>2, <1>3, <1>4 DEF Top, FrameOK, DirectoryOf, Rooted

----------------------------------------------------------------------------
(* The invariant.                                                          *)

LEMMA InitOK == Init => IInv
<1> SUFFICES ASSUME Init PROVE IInv
  OBVIOUS
<1>1. <<>> \in Path /\ <<>> \in Seq(Frames) /\ Len(<<>>) = 0
  BY EmptySeq DEF Path
<1>2. CallsOK(calls, dir)
  BY <1>1 DEF CallsOK, Init
<1> QED BY <1>1, <1>2 DEF IInv, Init

\* The top frame is replaced by one of the same loop that is where the
\* directory stack says.
LEMMA TopMoves ==
    ASSUME IInv, phase = "parts", NEW g \in Frames, calls' = SetTop(g),
           g.pc # "within", g.at = Top.at, g.base = Top.base,
           g.pc = "next" => g.changed = <<>>,
           dir' \in Path, Rooted(dir'), Walked(g.base, g.changed, g.trail, dir'),
           UNCHANGED <<package, phase>>, handled' \subseteq Path
    PROVE  IInv'
<1>1. CallsOK(calls, dir) /\ calls \in Seq(Frames) /\ calls # <<>>
  BY TopFacts DEF IInv
<1>2. CallsOK([calls EXCEPT ![Len(calls)] = g], dir') /\ [calls EXCEPT ![Len(calls)] = g] # <<>>
  BY <1>1, ReplaceTop DEF Top
<1>3. CallsOK(calls', dir') /\ calls' # <<>>
  BY <1>2 DEF SetTop
<1>4. package' \in Packages /\ phase' = "parts"
  BY DEF IInv
<1> QED BY <1>3, <1>4 DEF IInv

\* The read_part under way is finished with its part and walks back.
LEMMA TopLeaves ==
    ASSUME IInv, phase = "parts", NEW p \in Path,
           calls' = SetTop([Top EXCEPT !.pc = "leave", !.path = p]),
           UNCHANGED <<package, phase, dir>>, handled' \subseteq Path
    PROVE  IInv'
<1> DEFINE g == [Top EXCEPT !.pc = "leave", !.path = p]
<1>1. Top \in Frames /\ Walked(Top.base, Top.changed, Top.trail, dir) /\ dir \in Path /\ Rooted(dir)
  BY TopFacts
<1>2. /\ g \in Frames /\ g.pc = "leave" /\ g.at = Top.at /\ g.base = Top.base
      /\ g.changed = Top.changed /\ g.trail = Top.trail
  BY <1>1 DEF Frames
<1> HIDE DEF g
<1>3. calls' = SetTop(g)
  BY DEF g
<1> QED BY <1>1, <1>2, <1>3, TopMoves

LEMMA ReadFileOK == IInv /\ ReadFile => IInv'
<1> SUFFICES ASSUME IInv, ReadFile PROVE IInv'
  OBVIOUS
<1>1. dir' = <<Empty>> /\ dir' \in Path /\ Rooted(dir')
  <2>1. dir' = Append(<<>>, Empty)
    BY DEF ReadFile, IInv
  <2>2. dir' = <<Empty>>
    BY <2>1
  <2> QED BY <2>2, TextAssumption DEF Path, Rooted
<1>2. <<>> \in Path /\ package.root \in Seq(Relation)
  BY EmptySeq, PackageFacts DEF Path, IInv
<1> DEFINE h == Frame(<<>>, package.root, <<>>, dir')
<1>3. /\ h \in Frames /\ h.pc = "next" /\ h.base = dir' /\ h.at = <<>>
      /\ h.changed = <<>> /\ h.trail = <<>>
  BY <1>1, <1>2, NoExtras, FrameTyped
<1>4. calls' = <<h>>
  BY DEF ReadFile
<1> HIDE DEF h
<1>5. calls' \in Seq(Frames) /\ Len(calls') = 1 /\ calls'[1] = h /\ calls' # <<>>
  BY <1>3, <1>4
<1>6. FrameOK(calls', 1, dir')
  BY <1>1, <1>3, <1>5, WalkStarts DEF FrameOK, DirectoryOf, OwnDirectory
<1>7. CallsOK(calls', dir')
  BY <1>5, <1>6 DEF CallsOK
<1> QED BY <1>1, <1>5, <1>7 DEF IInv, ReadFile

LEMMA NextRelationOK == IInv /\ NextRelation => IInv'
<1> SUFFICES ASSUME IInv, NextRelation PROVE IInv'
  OBVIOUS
<1>0. phase = "parts"
  BY DEF NextRelation
<1>1. /\ Top \in Frames /\ Walked(Top.base, Top.changed, Top.trail, dir)
      /\ Top.changed = <<>> /\ dir \in Path /\ Rooted(dir) /\ handled \subseteq Path
  BY <1>0, TopFacts DEF NextRelation, IInv
<1>2. Top.trail \in Seq(Path) /\ Top.rels \in Seq(Relation) /\ Top.extras \in Extra
  BY <1>1 DEF Frames
<1>3. dir = Top.base
  BY <1>1, <1>2, NothingChanged
<1> DEFINE rel == Head(Top.rels)
           x == DataFor(rel.rid, Top.extras)
<1>4. rel \in Relation /\ Advanced(Top.rels) \in Seq(Relation)
  BY <1>2, HeadTailProperties DEF NextRelation, Advanced
<1>5. rel.dirs \in Seq(Dirs) /\ rel.name \in Texts /\ rel.type \in Types
  BY <1>4 DEF Relation
<1>6. x \in Data
  <2>1. PICK D \in SUBSET RelationId : Top.extras \in [D -> Data]
    BY <1>2 DEF Extra
  <2> QED BY <2>1 DEF DataFor, Data
<1> HIDE DEF rel, x
<1> DEFINE g == [Top EXCEPT !.rels = Advanced(Top.rels), !.pc = "enter", !.dirs = rel.dirs,
                            !.name = rel.name, !.type = rel.type, !.data = x,
                            !.path = <<>>, !.changed = <<>>, !.trail = <<>>]
<1>7. <<>> \in Path /\ <<>> \in Seq(Texts) /\ <<>> \in Seq(Path)
  BY EmptySeq DEF Path
<1>8. /\ g \in Frames /\ g.pc = "enter" /\ g.at = Top.at /\ g.base = Top.base
      /\ g.changed = <<>> /\ g.trail = <<>>
  BY <1>1, <1>4, <1>5, <1>6, <1>7 DEF Frames
<1>9. calls' = SetTop(g) /\ UNCHANGED <<package, phase, dir, handled>>
  BY DEF NextRelation, rel, x
<1> HIDE DEF g
<1>10. Walked(g.base, g.changed, g.trail, dir')
  BY <1>1, <1>3, <1>8, <1>9, WalkStarts
<1> QED BY <1>0, <1>1, <1>8, <1>9, <1>10, TopMoves

LEMMA ChangeDirectoryOK == IInv /\ ChangeDirectory => IInv'
<1> SUFFICES ASSUME IInv, ChangeDirectory PROVE IInv'
  OBVIOUS
<1> DEFINE next == [Top EXCEPT !.dirs = Tail(Top.dirs)]
           seg == Head(Top.dirs)
<1>0. phase = "parts" /\ Top.pc = "enter" /\ Top.dirs # <<>>
  BY DEF ChangeDirectory
<1>1. /\ Top \in Frames /\ Walked(Top.base, Top.changed, Top.trail, dir)
      /\ dir \in Path /\ Rooted(dir) /\ handled \subseteq Path
  BY <1>0, TopFacts DEF IInv
<1>2. Top.dirs \in Seq(Dirs) /\ Top.changed \in Seq(Texts) /\ Top.trail \in Seq(Path)
  BY <1>1 DEF Frames
<1>3. seg \in Dirs /\ Tail(Top.dirs) \in Seq(Dirs)
  BY <1>0, <1>2, HeadTailProperties
<1>4. /\ next \in Frames /\ next.pc = "enter" /\ next.at = Top.at /\ next.base = Top.base
      /\ next.changed = Top.changed /\ next.trail = Top.trail
  BY <1>0, <1>1, <1>3 DEF Frames
<1>5. UNCHANGED <<package, phase, handled>>
  BY DEF ChangeDirectory
\* A change from dir to e that the record undoes.
<1>6. ASSUME NEW left \in Texts, NEW e \in Path, Rooted(e), dir = Undone(left, e), dir' = e,
             calls' = SetTop([next EXCEPT !.changed = Append(@, left), !.trail = Append(@, dir)])
      PROVE  IInv'
  <2> DEFINE g == [next EXCEPT !.changed = Append(Top.changed, left),
                               !.trail = Append(Top.trail, dir)]
  <2>1. Append(Top.changed, left) \in Seq(Texts) /\ Append(Top.trail, dir) \in Seq(Path)
    BY <1>1, <1>2, AppendProperties
  <2>2. /\ g \in Frames /\ g.pc = "enter" /\ g.at = Top.at /\ g.base = Top.base
        /\ g.changed = Append(Top.changed, left) /\ g.trail = Append(Top.trail, dir)
    BY <1>4, <2>1 DEF Frames
  <2>3. Walked(Top.base, Append(Top.changed, left), Append(Top.trail, dir), e)
    BY <1>1, <1>2, <1>6, WalkGrows
  <2>4. calls' = SetTop(g)
    BY <1>4, <1>6
  <2> HIDE DEF g, next, seg
  <2>5. Walked(g.base, g.changed, g.trail, dir') /\ g.pc # "within" /\ g.pc # "next"
    BY <1>6, <2>2, <2>3
  <2> QED BY <1>0, <1>1, <1>5, <1>6, <2>2, <2>4, <2>5, TopMoves
<1>7. CASE /\ seg # Up /\ dir' = Append(dir, seg)
           /\ calls' = SetTop([next EXCEPT !.changed = Append(@, Empty),
                                           !.trail = Append(@, dir)])
  <2>1. Append(dir, seg) \in Path /\ Rooted(Append(dir, seg)) /\ dir = Undone(Empty, Append(dir, seg))
    BY <1>1, <1>3, StaysRooted
  <2> QED BY <1>6, <1>7, <2>1, TextAssumption
<1>8. CASE /\ seg = Up /\ Climbs(dir) /\ dir' = SubSeq(dir, 1, Len(dir) - 1)
           /\ calls' = SetTop([next EXCEPT !.changed = LeftRecorded(@, dir[Len(dir)]),
                                           !.trail = Append(@, dir)])
  <2> DEFINE e == SubSeq(dir, 1, Len(dir) - 1)
  <2>1. e \in Path /\ Rooted(e) /\ dir[Len(dir)] \in Texts /\ dir = Undone(dir[Len(dir)], e)
    BY <1>1, <1>8, StaysRooted DEF Climbs
  <2>2. calls' = SetTop([next EXCEPT !.changed = Append(@, dir[Len(dir)]),
                                     !.trail = Append(@, dir)])
    BY <1>8 DEF LeftRecorded
  <2> QED BY <1>6, <1>8, <2>1, <2>2
<1>9. CASE seg = Up /\ ~Climbs(dir) /\ dir' = dir /\ calls' = SetTop(next)
  <2> HIDE DEF next, seg
  <2> QED BY <1>0, <1>1, <1>4, <1>5, <1>9, TopMoves
<1> QED BY <1>7, <1>8, <1>9 DEF ChangeDirectory

LEMMA UndoChangeOK == IInv /\ UndoChange => IInv'
<1> SUFFICES ASSUME IInv, UndoChange PROVE IInv'
  OBVIOUS
<1>0. phase = "parts" /\ Top.pc = "leave" /\ Top.changed # <<>>
  BY DEF UndoChange
<1>1. /\ Top \in Frames /\ Walked(Top.base, Top.changed, Top.trail, dir)
      /\ dir \in Path /\ Rooted(dir) /\ handled \subseteq Path
  BY <1>0, TopFacts DEF IInv
<1>2. Top.changed \in Seq(Texts) /\ Top.trail \in Seq(Path)
  BY <1>1 DEF Frames
<1> DEFINE n == Len(Top.changed)
           e == Undone(Top.changed[n], dir)
           c == SubSeq(Top.changed, 1, n - 1)
           t == SubSeq(Top.trail, 1, Len(Top.trail) - 1)
           g == [Top EXCEPT !.changed = c, !.trail = t]
<1>3. e \in Path /\ Rooted(e) /\ c \in Seq(Texts) /\ t \in Seq(Path) /\ Walked(Top.base, c, t, e)
  BY <1>0, <1>1, <1>2, WalkShrinks
<1>4. dir' = e /\ calls' = SetTop(g) /\ UNCHANGED <<package, phase, handled>>
  BY <1>1 DEF UndoChange, Undone
<1> HIDE DEF e, c, t
<1>5. /\ g \in Frames /\ g.pc = "leave" /\ g.at = Top.at /\ g.base = Top.base
      /\ g.changed = c /\ g.trail = t
  BY <1>0, <1>1, <1>3 DEF Frames
<1> HIDE DEF g
<1> QED BY <1>0, <1>1, <1>3, <1>4, <1>5, TopMoves

LEMMA NotAFileOK == IInv /\ NotAFile => IInv'
<1> SUFFICES ASSUME IInv, NotAFile PROVE IInv'
  OBVIOUS
<1>0. phase = "parts"
  BY DEF NotAFile
<1>1. /\ Top \in Frames /\ Walked(Top.base, Top.changed, Top.trail, dir)
      /\ dir \in Path /\ Rooted(dir) /\ handled \subseteq Path
  BY <1>0, TopFacts DEF IInv
<1> DEFINE g == [Top EXCEPT !.pc = "leave"]
<1>2. /\ g \in Frames /\ g.pc = "leave" /\ g.at = Top.at /\ g.base = Top.base
      /\ g.changed = Top.changed /\ g.trail = Top.trail
  BY <1>1 DEF Frames
<1>3. calls' = SetTop(g) /\ UNCHANGED <<package, phase, dir, handled>>
  BY DEF NotAFile
<1> HIDE DEF g
<1> QED BY <1>0, <1>1, <1>2, <1>3, TopMoves

LEMMA ReadPartReturnsOK == IInv /\ ReadPartReturns => IInv'
<1> SUFFICES ASSUME IInv, ReadPartReturns PROVE IInv'
  OBVIOUS
<1>0. phase = "parts" /\ Top.changed = <<>>
  BY DEF ReadPartReturns
<1>1. /\ Top \in Frames /\ Walked(Top.base, Top.changed, Top.trail, dir)
      /\ dir \in Path /\ Rooted(dir) /\ handled \subseteq Path
  BY <1>0, TopFacts DEF IInv
<1> DEFINE g == [Top EXCEPT !.pc = "next"]
<1>2. /\ g \in Frames /\ g.pc = "next" /\ g.at = Top.at /\ g.base = Top.base
      /\ g.changed = Top.changed /\ g.trail = Top.trail
  BY <1>1 DEF Frames
<1>3. calls' = SetTop(g) /\ UNCHANGED <<package, phase, dir, handled>>
  BY DEF ReadPartReturns
<1> HIDE DEF g
<1> QED BY <1>0, <1>1, <1>2, <1>3, TopMoves

\* In the directory of a target with a file name, the target is a path.
LEMMA TargetIsPath ==
    ASSUME IInv, AtFile
    PROVE  phase = "parts" /\ Target \in Path /\ Target[Len(Target)] = Top.name
<1>1. phase = "parts"
  BY DEF AtFile
<1>2. Top \in Frames /\ dir \in Path /\ dir # <<>>
  BY <1>1, TopFacts
<1>3. Top.name \in Texts
  BY <1>2 DEF Frames
<1> QED BY <1>1, <1>2, <1>3, PathOfPart DEF Target

LEMMA SkipPartOK == IInv /\ SkipPart => IInv'
<1> SUFFICES ASSUME IInv, SkipPart PROVE IInv'
  OBVIOUS
<1>1. phase = "parts" /\ Target \in Path
  BY TargetIsPath DEF SkipPart
<1>2. handled \subseteq Path
  BY DEF IInv
<1> QED BY <1>1, <1>2, TopLeaves DEF SkipPart

LEMMA PartNotHandledOK == IInv /\ PartNotHandled => IInv'
<1> SUFFICES ASSUME IInv, PartNotHandled PROVE IInv'
  OBVIOUS
<1>1. phase = "parts" /\ Target \in Path
  BY TargetIsPath DEF PartNotHandled
<1>2. handled \subseteq Path
  BY DEF IInv
<1> QED BY <1>1, <1>2, TopLeaves DEF PartNotHandled

LEMMA PartPassedOverOK == IInv /\ PartPassedOver => IInv'
<1> SUFFICES ASSUME IInv, PartPassedOver PROVE IInv'
  OBVIOUS
<1>1. phase = "parts" /\ Target \in Path
  BY TargetIsPath DEF PartPassedOver
<1>2. handled' \subseteq Path
  BY <1>1 DEF IInv, PartPassedOver
<1> QED BY <1>1, <1>2, TopLeaves DEF PartPassedOver

LEMMA ReadLeafOK == IInv /\ ReadLeaf => IInv'
<1> SUFFICES ASSUME IInv, ReadLeaf PROVE IInv'
  OBVIOUS
<1>1. phase = "parts" /\ Target \in Path
  BY TargetIsPath DEF ReadLeaf, Parsing
<1>2. handled' \subseteq Path
  BY <1>1 DEF IInv, ReadLeaf
<1> QED BY <1>1, <1>2, TopLeaves DEF ReadLeaf

LEMMA ReadWithRelationsOK == IInv /\ ReadWithRelations => IInv'
<1> SUFFICES ASSUME IInv, ReadWithRelations PROVE IInv'
  OBVIOUS
<1>1. phase = "parts" /\ Target \in Path /\ Target[Len(Target)] = Top.name /\ Target \in DOMAIN package.parts
  BY TargetIsPath DEF ReadWithRelations, Parsing, Parses
<1>2. /\ calls \in Seq(Frames) /\ calls # <<>> /\ Top \in Frames /\ Top = calls[Len(calls)]
      /\ dir \in Path /\ Rooted(dir) /\ CallsOK(calls, dir) /\ package \in Packages
  BY <1>1, TopFacts DEF IInv
<1> DEFINE part == package.parts[Target]
           x == ExtrasFor(Top.type, part.extras)
           g == [Top EXCEPT !.pc = "within", !.path = Target]
<1>3. part.rels \in Seq(Relation) /\ part.extras \in Extra
  BY <1>1, <1>2, PackageFacts
<1>4. x \in Extra
  BY <1>3, NoExtras DEF ExtrasFor
<1> HIDE DEF x
<1>5. PICK rels \in OrdersFor(Top.type, part.rels) :
         calls' = Append(SetTop(g), Frame(Target, rels, x, dir))
  BY DEF ReadWithRelations, x
<1>6. rels \in Seq(Relation)
  BY <1>3, <1>5, SortedTyped
<1> DEFINE h == Frame(Target, rels, x, dir)
<1>7. /\ h \in Frames /\ h.pc = "next" /\ h.base = dir /\ h.at = Target
      /\ h.changed = <<>> /\ h.trail = <<>>
  BY <1>1, <1>2, <1>4, <1>6, FrameTyped
<1>8. /\ g \in Frames /\ g.pc = "within" /\ g.path = Target
      /\ g = [calls[Len(calls)] EXCEPT !.pc = "within", !.path = g.path]
  BY <1>1, <1>2 DEF Frames
<1>9. calls' = Append([calls EXCEPT ![Len(calls)] = g], h)
  BY <1>5 DEF SetTop
<1> HIDE DEF h, g, part
<1>10. OwnDirectory(h)
  BY <1>1, <1>7 DEF OwnDirectory, Target
<1>11. CallsOK(calls', dir) /\ calls' # <<>>
  BY <1>2, <1>7, <1>8, <1>9, <1>10, PushFrame
<1>12. UNCHANGED <<package, phase, dir, handled>>
  BY DEF ReadWithRelations
<1> QED BY <1>1, <1>2, <1>11, <1>12 DEF IInv

\* Without calls there is nothing to be said of frames.
LEMMA NoCalls == ASSUME NEW d PROVE CallsOK(<<>>, d)
  BY EmptySeq DEF CallsOK

LEMMA ThrowOK == IInv /\ Throw => IInv'
<1> SUFFICES ASSUME IInv, Throw PROVE IInv'
  OBVIOUS
<1>1. dir \in Path /\ Append(dir, RelsDir) \in Path
  <2>1. RelsDir \in Texts
    BY TextAssumption DEF Dirs
  <2> QED BY <2>1, AppendProperties DEF IInv, Path
<1>2. dir' \in Path
  BY <1>1 DEF Throw
<1>3. phase' = "thrown" /\ calls' = <<>> /\ UNCHANGED <<package, handled>>
  BY DEF Throw
<1> QED BY <1>2, <1>3, NoCalls DEF IInv

LEMMA StackIsExhaustedOK == IInv /\ StackIsExhausted => IInv'
<1> SUFFICES ASSUME IInv, StackIsExhausted PROVE IInv'
  OBVIOUS
<1>1. phase' = "exhausted" /\ calls' = <<>> /\ UNCHANGED <<package, dir, handled>>
  BY DEF StackIsExhausted
<1> QED BY <1>1, NoCalls DEF IInv

LEMMA PartIsHandledOK == IInv /\ PartIsHandled => IInv'
<1> SUFFICES ASSUME IInv, PartIsHandled PROVE IInv'
  OBVIOUS
<1>0. phase = "parts" /\ Len(calls) > 1 /\ Top.pc = "next"
  BY DEF PartIsHandled
<1>1. /\ calls \in Seq(Frames) /\ Len(calls) \in Nat /\ Top = calls[Len(calls)]
      /\ dir \in Path /\ Rooted(dir) /\ CallsOK(calls, dir)
  BY <1>0, TopFacts DEF IInv
<1> DEFINE n == Len(calls) - 1
           new == [SubSeq(calls, 1, n) EXCEPT ![n] = [calls[n] EXCEPT !.pc = "leave"]]
<1>2. calls' = new /\ handled' = handled \cup {calls[n].path} /\ UNCHANGED <<package, phase, dir>>
  BY DEF PartIsHandled, Recorded
<1>3. CallsOK(new, dir) /\ new # <<>>
  BY <1>0, <1>1, PopFrame
<1>4. calls[n] \in Frames
  BY <1>0, <1>1, ElementOfSeq
<1> HIDE DEF new, n
<1>5. handled' \subseteq Path
  BY <1>2, <1>4 DEF Frames, IInv
<1> QED BY <1>0, <1>1, <1>2, <1>3, <1>5 DEF IInv

LEMMA PackageIsReadOK == IInv /\ PackageIsRead => IInv'
<1> SUFFICES ASSUME IInv, PackageIsRead PROVE IInv'
  OBVIOUS
<1>1. phase' = "formulas" /\ calls' = <<>> /\ UNCHANGED <<package, dir, handled>>
  BY DEF PackageIsRead
<1> QED BY <1>1, NoCalls DEF IInv

LEMMA FinalizeOK == IInv /\ Finalize => IInv'
<1> SUFFICES ASSUME IInv, Finalize PROVE IInv'
  OBVIOUS
<1>1. phase' = "done" /\ UNCHANGED <<package, dir, handled, calls>>
  BY DEF Finalize
<1>2. calls = <<>>
  BY DEF Finalize, IInv
<1> QED BY <1>1, <1>2, NoCalls DEF IInv

LEMMA NextOK == IInv /\ [Next]_vars => IInv'
<1> SUFFICES ASSUME IInv, [Next]_vars PROVE IInv'
  OBVIOUS
<1>1. CASE UNCHANGED vars
  BY <1>1 DEF vars, IInv
<1>2. CASE Next
  BY <1>2, ReadFileOK, NextRelationOK, ChangeDirectoryOK, UndoChangeOK, NotAFileOK,
     ReadPartReturnsOK, SkipPartOK, PartNotHandledOK, PartPassedOverOK, ReadLeafOK,
     ReadWithRelationsOK, StackIsExhaustedOK, ThrowOK, PartIsHandledOK, PackageIsReadOK, FinalizeOK DEF Next
<1> QED BY <1>1, <1>2

----------------------------------------------------------------------------
(* Theorems.                                                               *)

\* In every reachable state the walks under way can be undone: the directory
\* stack, the records of read_part and the loops below agree with each other.
THEOREM InductiveInvariant == Spec => []IInv
<1> QED BY InitOK, NextOK, PTL DEF Spec

LEMMA FrameIsTyped == ASSUME NEW f \in Frames PROVE FrameTypeOK(f)
<1>1. \A r \in DOMAIN f.extras : f.extras[r] \in Data
  <2>1. PICK D \in SUBSET RelationId : f.extras \in [D -> Data]
    BY DEF Frames, Extra
  <2> QED BY <2>1
<1> QED BY <1>1 DEF Frames, FrameTypeOK

\* Whatever the package, however far its targets climb, the root entry stays
\* on the stack while parts are read: the assert of read_part never fails.
THEOREM TypeCorrect == Spec => []TypeOK
<1>1. ASSUME IInv PROVE TypeOK
  <2>1. calls \in Seq(Frames) /\ DOMAIN calls = 1 .. Len(calls)
    BY <1>1, LenProperties DEF IInv, CallsOK
  <2>2. \A i \in DOMAIN calls : FrameTypeOK(calls[i])
    BY <2>1, ElementOfSeq, FrameIsTyped
  <2>3. \A i \in DOMAIN calls : calls[i].pc = "within" <=> i # Len(calls)
    BY <1>1, <2>1 DEF IInv, CallsOK, FrameOK
  <2>4. phase = "parts" => dir # <<>> /\ dir[1] = Empty /\ calls # <<>>
    BY <1>1 DEF IInv, Rooted
  <2> QED BY <1>1, <2>2, <2>3, <2>4 DEF IInv, TypeOK
<1> QED BY <1>1, InductiveInvariant, PTL

\* For every package and any depth of relations: read_part returns to the
\* directory it was called in, so that each relation is resolved against the
\* part it belongs to.
THEOREM RelationsResolve == Spec => []RelationsAreRelativeToTheirPart
<1>1. ASSUME IInv PROVE RelationsAreRelativeToTheirPart
  <2> SUFFICES ASSUME phase = "parts", Top.pc = "next"
               PROVE  dir = Top.base /\ (Top.at # <<>> => Top.at = FullPath(dir, Top.at[Len(Top.at)]))
    BY DEF RelationsAreRelativeToTheirPart
  <2>1. /\ Top \in Frames /\ OwnDirectory(Top) /\ Walked(Top.base, Top.changed, Top.trail, dir)
        /\ Top.changed = <<>> /\ dir \in Path
    BY <1>1, TopFacts
  <2>2. Top.trail \in Seq(Path)
    BY <2>1 DEF Frames
  <2>3. dir = Top.base
    BY <2>1, <2>2, NothingChanged
  <2> QED BY <2>1, <2>3 DEF OwnDirectory
<1> QED BY <1>1, InductiveInvariant, PTL

----------------------------------------------------------------------------
(* Each part is read once.  A parsed part is either recorded or under way;  *)
(* one that is under way is parsed again only when a package leads back to  *)
(* it.                                                                      *)

Entries == [path : Path, type : Types, data : Data]
UnderWay(cs, p) == \E k \in 1 .. Len(cs) : cs[k].pc = "within" /\ cs[k].path = p
NoPartLeadsBack == Parsing => ~UnderWay(calls, Target)

Accounted == \A i \in 1 .. Len(log) : log[i].path \in handled \/ UnderWay(calls, log[i].path)

OnceInv ==
    /\ IInv
    /\ log \in Seq(Entries) /\ NoPartIsParsedTwice
    /\ phase = "idle" => log = <<>>
    /\ phase = "parts" => Accounted

\* What is under way stays so when the top frame moves on.
LEMMA StillUnderWay ==
    ASSUME IInv, phase = "parts", NEW g \in Frames, calls' = SetTop(g)
    PROVE  \A p : UnderWay(calls, p) => UnderWay(calls', p)
<1>1. calls \in Seq(Frames) /\ Top.pc # "within" /\ Top = calls[Len(calls)]
  BY TopFacts
<1>2. PICK n \in Nat : n = Len(calls) /\ n > 0
  BY TopFacts
<1>3. calls' = [calls EXCEPT ![n] = g]
  BY <1>2 DEF SetTop
<1>4. Len(calls') = n /\ \A j \in 1 .. n : calls'[j] = IF j = n THEN g ELSE calls[j]
  BY <1>1, <1>2, <1>3, ExceptSeq
<1> SUFFICES ASSUME NEW p, UnderWay(calls, p) PROVE UnderWay(calls', p)
  OBVIOUS
<1>5. PICK k \in 1 .. n : calls[k].pc = "within" /\ calls[k].path = p
  BY <1>2 DEF UnderWay
<1>6. k # n /\ calls'[k] = calls[k]
  BY <1>1, <1>2, <1>4, <1>5
<1> QED BY <1>4, <1>5, <1>6 DEF UnderWay

\* A step of the top frame that parses nothing keeps the account.
LEMMA AccountKept ==
    ASSUME OnceInv, phase = "parts", IInv', NEW g \in Frames, calls' = SetTop(g),
           phase' = "parts", log' = log, handled \subseteq handled'
    PROVE  OnceInv'
<1>1. \A p : UnderWay(calls, p) => UnderWay(calls', p)
  BY StillUnderWay DEF OnceInv
<1>2. Accounted'
  BY <1>1 DEF OnceInv, Accounted
<1> QED BY <1>2 DEF OnceInv, NoPartIsParsedTwice

\* A part that is parsed is new to the log.
LEMMA NewToTheLog ==
    ASSUME OnceInv, NoPartLeadsBack, Parsing, Logged
    PROVE  /\ log' \in Seq(Entries) /\ NoPartIsParsedTwice' /\ Len(log') = Len(log) + 1
           /\ log'[Len(log) + 1].path = Target
           /\ \A i \in 1 .. Len(log) : log'[i] = log[i]
<1> DEFINE e == [path |-> Target, type |-> Top.type, data |-> Top.data]
<1>1. AtFile /\ Target \notin handled /\ ~UnderWay(calls, Target)
  BY DEF Parsing, NoPartLeadsBack
<1>2. phase = "parts" /\ Target \in Path /\ Top \in Frames
  BY <1>1, TargetIsPath, TopFacts DEF OnceInv
<1>3. e \in Entries /\ e.path = Target
  BY <1>2 DEF Frames, Entries
<1>4. log' = Append(log, e) /\ log \in Seq(Entries)
  BY DEF Logged, OnceInv
<1> HIDE DEF e
<1>5. log' \in Seq(Entries) /\ Len(log') = Len(log) + 1
  BY <1>3, <1>4, AppendProperties
<1>6. log'[Len(log) + 1] = e
  BY <1>3, <1>4, AppendProperties
<1>7. \A i \in 1 .. Len(log) : log'[i] = log[i]
  BY <1>3, <1>4, AppendProperties
<1>8. \A i \in 1 .. Len(log) : log[i].path # Target
  BY <1>1, <1>2 DEF OnceInv, Accounted
<1>9. PICK n \in Nat : n = Len(log) /\ DOMAIN log = 1 .. n /\ DOMAIN log' = 1 .. n + 1
  BY <1>4, <1>5, LenProperties
<1>10. ASSUME NEW i \in 1 .. n + 1, NEW j \in 1 .. n + 1, log'[i].path = log'[j].path
       PROVE  i = j
  <2>1. CASE i \in 1 .. n /\ j \in 1 .. n
    BY <2>1, <1>7, <1>9, <1>10 DEF OnceInv, NoPartIsParsedTwice
  <2>2. CASE i = n + 1 /\ j \in 1 .. n
    BY <2>2, <1>3, <1>6, <1>7, <1>8, <1>9, <1>10
  <2>3. CASE i \in 1 .. n /\ j = n + 1
    BY <2>3, <1>3, <1>6, <1>7, <1>8, <1>9, <1>10
  <2> QED BY <2>1, <2>2, <2>3
<1>11. NoPartIsParsedTwice'
  BY <1>9, <1>10 DEF NoPartIsParsedTwice
<1> QED BY <1>3, <1>5, <1>6, <1>7, <1>11

LEMMA OnceReadLeaf ==
    ASSUME OnceInv, NoPartLeadsBack, ReadLeaf, IInv'
    PROVE  OnceInv'
<1>1. Parsing /\ Logged /\ phase = "parts" /\ phase' = "parts" /\ AtFile
  BY DEF ReadLeaf, Parsing, AtFile
<1>2. /\ log' \in Seq(Entries) /\ NoPartIsParsedTwice' /\ Len(log') = Len(log) + 1
      /\ log'[Len(log) + 1].path = Target
      /\ \A i \in 1 .. Len(log) : log'[i] = log[i]
  BY <1>1, NewToTheLog
<1> DEFINE g == [Top EXCEPT !.pc = "leave", !.path = Target]
<1>3. g \in Frames /\ calls' = SetTop(g)
  <2>1. Top \in Frames /\ Target \in Path
    BY <1>1, TopFacts, TargetIsPath DEF OnceInv
  <2> QED BY <2>1 DEF Frames, ReadLeaf
<1> HIDE DEF g
<1>4. \A p : UnderWay(calls, p) => UnderWay(calls', p)
  BY <1>1, <1>3, StillUnderWay DEF OnceInv
<1>5. handled' = handled \cup {Target}
  BY DEF ReadLeaf
<1>6. ASSUME NEW i \in 1 .. Len(log')
      PROVE  log'[i].path \in handled' \/ UnderWay(calls', log'[i].path)
  <2>0. PICK n \in Nat : n = Len(log)
    BY LenProperties DEF OnceInv
  <2>1. CASE i = n + 1
    BY <2>0, <2>1, <1>2, <1>5
  <2>2. CASE i \in 1 .. n
    <3>1. log'[i] = log[i] /\ (log[i].path \in handled \/ UnderWay(calls, log[i].path))
      BY <2>0, <2>2, <1>1, <1>2 DEF OnceInv, Accounted
    <3> QED BY <3>1, <1>4, <1>5
  <2> QED BY <2>0, <2>1, <2>2, <1>2
<1>7. Accounted'
  BY <1>6 DEF Accounted
<1> QED BY <1>1, <1>2, <1>7 DEF OnceInv

LEMMA OnceReadWithRelations ==
    ASSUME OnceInv, NoPartLeadsBack, ReadWithRelations, IInv'
    PROVE  OnceInv'
<1>1. Parsing /\ Logged /\ phase = "parts" /\ phase' = "parts" /\ AtFile /\ handled' = handled
  BY DEF ReadWithRelations, Parsing, AtFile
<1>2. /\ log' \in Seq(Entries) /\ NoPartIsParsedTwice' /\ Len(log') = Len(log) + 1
      /\ log'[Len(log) + 1].path = Target
      /\ \A i \in 1 .. Len(log) : log'[i] = log[i]
  BY <1>1, NewToTheLog
<1>3. calls \in Seq(Frames) /\ Top \in Frames /\ Target \in Path /\ Top = calls[Len(calls)]
      /\ Top.pc # "within" /\ calls' \in Seq(Frames)
  BY <1>1, TopFacts, TargetIsPath DEF OnceInv, IInv, CallsOK
<1>4. PICK n \in Nat : n = Len(calls) /\ n > 0
  BY <1>1, TopFacts DEF OnceInv
<1> DEFINE g == [Top EXCEPT !.pc = "within", !.path = Target]
           mid == [calls EXCEPT ![n] = g]
<1>5. g \in Frames /\ g.pc = "within" /\ g.path = Target
  BY <1>3 DEF Frames
<1>6. PICK h : calls' = Append(mid, h)
  BY <1>4 DEF ReadWithRelations, SetTop
<1> HIDE DEF g
<1>7. mid \in Seq(Frames) /\ Len(mid) = n /\ \A j \in 1 .. n : mid[j] = IF j = n THEN g ELSE calls[j]
  BY <1>3, <1>4, <1>5, ExceptSeq
<1> HIDE DEF mid
<1>8. Len(calls') = n + 1 /\ \A j \in 1 .. n : calls'[j] = mid[j]
  BY <1>6, <1>7
<1>9. UnderWay(calls', Target)
  <2>1. calls'[n] = g /\ n \in 1 .. n + 1
    BY <1>4, <1>7, <1>8
  <2> QED BY <1>5, <1>8, <2>1 DEF UnderWay
<1>10. ASSUME NEW p, UnderWay(calls, p)
       PROVE  UnderWay(calls', p)
  <2>1. PICK k \in 1 .. n : calls[k].pc = "within" /\ calls[k].path = p
    BY <1>4, <1>10 DEF UnderWay
  <2>2. k # n /\ calls'[k] = calls[k] /\ k \in 1 .. n + 1
    BY <1>3, <1>4, <1>7, <1>8, <2>1
  <2> QED BY <1>8, <2>1, <2>2 DEF UnderWay
<1>11. ASSUME NEW i \in 1 .. Len(log')
       PROVE  log'[i].path \in handled' \/ UnderWay(calls', log'[i].path)
  <2>0. PICK m \in Nat : m = Len(log)
    BY LenProperties DEF OnceInv
  <2>1. CASE i = m + 1
    BY <2>0, <2>1, <1>2, <1>9
  <2>2. CASE i \in 1 .. m
    <3>1. log'[i] = log[i] /\ (log[i].path \in handled \/ UnderWay(calls, log[i].path))
      BY <2>0, <2>2, <1>1, <1>2 DEF OnceInv, Accounted
    <3> QED BY <3>1, <1>1, <1>10
  <2> QED BY <2>0, <2>1, <2>2, <1>2
<1>12. Accounted'
  BY <1>11 DEF Accounted
<1> QED BY <1>1, <1>2, <1>12 DEF OnceInv

LEMMA OncePartIsHandled ==
    ASSUME OnceInv, PartIsHandled, IInv'
    PROVE  OnceInv'
<1>1. phase = "parts" /\ phase' = "parts" /\ log' = log /\ Len(calls) > 1
  BY DEF PartIsHandled
<1>2. calls \in Seq(Frames)
  BY DEF OnceInv, IInv, CallsOK
<1>3. PICK n \in Nat : n = Len(calls) - 1 /\ n > 0 /\ Len(calls) = n + 1
  BY <1>1, <1>2, LenProperties
<1> DEFINE sub == SubSeq(calls, 1, n)
           g == [calls[n] EXCEPT !.pc = "leave"]
<1>4. calls' = [sub EXCEPT ![n] = g] /\ handled' = handled \cup {calls[n].path}
  BY <1>3 DEF PartIsHandled, Recorded
<1>5. sub \in Seq(Frames) /\ Len(sub) = n /\ \A j \in 1 .. n : sub[j] = calls[j]
  BY <1>2, <1>3, SubSeqProperties, ElementOfSeq
<1>6. g \in Frames
  <2>1. calls[n] \in Frames
    BY <1>2, <1>3, ElementOfSeq
  <2> QED BY <2>1 DEF Frames
<1> HIDE DEF sub, g
<1>7. Len(calls') = n /\ \A j \in 1 .. n : calls'[j] = IF j = n THEN g ELSE sub[j]
  <2>1. n \in 1 .. Len(sub)
    BY <1>3, <1>5
  <2>2. /\ Len([sub EXCEPT ![n] = g]) = Len(sub)
        /\ \A j \in 1 .. Len(sub) : [sub EXCEPT ![n] = g][j] = IF j = n THEN g ELSE sub[j]
    BY <1>5, <1>6, <2>1, ExceptSeq
  <2> QED BY <1>4, <1>5, <2>2
<1>8. calls[n + 1].pc # "within"
  BY <1>3 DEF PartIsHandled, Top
<1>9. ASSUME NEW p, UnderWay(calls, p)
      PROVE  p \in handled' \/ UnderWay(calls', p)
  <2>1. PICK k \in 1 .. n + 1 : calls[k].pc = "within" /\ calls[k].path = p
    BY <1>3, <1>9 DEF UnderWay
  <2>2. CASE k = n
    BY <2>1, <2>2, <1>4
  <2>3. CASE k \in 1 .. n - 1
    <3>0. k \in 1 .. n /\ k # n
      BY <2>3
    <3>1. calls'[k] = sub[k] /\ sub[k] = calls[k]
      BY <3>0, <1>5, <1>7
    <3> QED BY <2>1, <3>0, <3>1, <1>7 DEF UnderWay
  <2>4. k # n + 1
    BY <1>8, <2>1
  <2>5. n \in Nat /\ k \in 1 .. n + 1
    BY <1>3, <2>1
  <2>6. k = n \/ k \in 1 .. n - 1
    BY ONLY <2>4, <2>5, SMT
  <2> QED BY ONLY <2>2, <2>3, <2>6
<1>10. Accounted'
  BY <1>1, <1>4, <1>9 DEF OnceInv, Accounted
<1> QED BY <1>1, <1>10 DEF OnceInv, NoPartIsParsedTwice

LEMMA OnceThrow ==
    ASSUME OnceInv, NoPartLeadsBack, Throw, IInv'
    PROVE  OnceInv'
<1>1. Parsing /\ phase' = "thrown"
  BY DEF Throw
<1>2. CASE log' = log
  BY <1>1, <1>2 DEF OnceInv, NoPartIsParsedTwice
<1>3. CASE Logged
  BY <1>1, <1>3, NewToTheLog DEF OnceInv
<1> QED BY <1>2, <1>3 DEF Throw

LEMMA OnceNext ==
    ASSUME OnceInv, NoPartLeadsBack, [Next]_vars
    PROVE  OnceInv'
<1>0. IInv'
  BY NextOK DEF OnceInv
\* The frames that the steps of read_part leave.
<1>1. ASSUME phase = "parts", phase' = "parts", log' = log, handled \subseteq handled',
             NEW g, calls' = SetTop(g)
      PROVE  OnceInv'
  <2>1. calls \in Seq(Frames) /\ calls' \in Seq(Frames)
    BY <1>0 DEF OnceInv, IInv, CallsOK
  <2>2. PICK n \in Nat : n = Len(calls) /\ n > 0
    BY <1>1, TopFacts DEF OnceInv
  <2>3. DOMAIN calls = 1 .. n
    BY <2>1, <2>2, LenProperties
  <2>4. calls' = [calls EXCEPT ![n] = g]
    BY <1>1, <2>2 DEF SetTop
  <2>5. calls'[n] = g /\ DOMAIN calls' = 1 .. n
    BY <2>2, <2>3, <2>4
  <2>6. g \in Frames
    BY <2>1, <2>2, <2>5, LenProperties, ElementOfSeq
  <2> QED BY <1>0, <1>1, <2>6, AccountKept
<1>2. CASE ReadFile
  <2>1. log = <<>> /\ log' = <<>> /\ phase' = "parts" /\ Len(<<>>) = 0
    BY <1>2, EmptySeq DEF ReadFile, OnceInv
  <2>2. Accounted'
    BY <2>1 DEF Accounted
  <2> QED BY <1>0, <2>1, <2>2 DEF OnceInv, NoPartIsParsedTwice
<1>3. CASE NextRelation
  BY <1>1, <1>3 DEF NextRelation
<1>4. CASE ChangeDirectory
  BY <1>1, <1>4 DEF ChangeDirectory
<1>5. CASE UndoChange
  BY <1>1, <1>5 DEF UndoChange
<1>6. CASE NotAFile
  BY <1>1, <1>6 DEF NotAFile
<1>7. CASE ReadPartReturns
  BY <1>1, <1>7 DEF ReadPartReturns
<1>8. CASE SkipPart
  BY <1>1, <1>8 DEF SkipPart, AtFile
<1>9. CASE PartNotHandled
  BY <1>1, <1>9 DEF PartNotHandled, AtFile
<1>10. CASE PartPassedOver
  BY <1>1, <1>10 DEF PartPassedOver, AtFile
<1>11. CASE ReadLeaf
  BY <1>0, <1>11, OnceReadLeaf
<1>12. CASE ReadWithRelations
  BY <1>0, <1>12, OnceReadWithRelations
<1>13. CASE Throw
  BY <1>0, <1>13, OnceThrow
<1>14. CASE PartIsHandled
  BY <1>0, <1>14, OncePartIsHandled
<1>15. CASE PackageIsRead
  BY <1>0, <1>15 DEF PackageIsRead, OnceInv, NoPartIsParsedTwice
<1>16. CASE Finalize
  BY <1>0, <1>16 DEF Finalize, OnceInv, NoPartIsParsedTwice
<1>17. CASE StackIsExhausted
  BY <1>0, <1>17 DEF StackIsExhausted, Parsing, AtFile, OnceInv, NoPartIsParsedTwice
<1>18. CASE UNCHANGED vars
  BY <1>0, <1>18 DEF vars, OnceInv, NoPartIsParsedTwice, Accounted, UnderWay
<1> QED BY <1>2, <1>3, <1>4, <1>5, <1>6, <1>7, <1>8, <1>9, <1>10, <1>11, <1>12, <1>13,
           <1>14, <1>15, <1>16, <1>18, <1>17 DEF Next

LEMMA OnceInit == Init => OnceInv
<1> SUFFICES ASSUME Init PROVE OnceInv
  OBVIOUS
<1>1. log = <<>> /\ log \in Seq(Entries) /\ DOMAIN log = {} /\ phase = "idle"
  BY EmptySeq DEF Init
<1> QED BY <1>1, InitOK DEF OnceInv, NoPartIsParsedTwice

----------------------------------------------------------------------------
(***************************************************************************)
(* Where a loop over relations is, is known now; what follows is what is   *)
(* left of it: every relation of its part is still to come, is the one     *)
(* under way, or leads to a part that is handled.                          *)
(***************************************************************************)

----------------------------------------------------------------------------
(* The way of a target.                                                    *)

\* Induction, of a set of numbers.
LEMMA NatSetInduction ==
    ASSUME NEW T \in SUBSET Nat, 0 \in T, \A n \in T : n + 1 \in T
    PROVE  Nat \subseteq T
<1> DEFINE R == {ss \in Nat \X Nat : ss[1] < ss[2]}
           U == Nat \ T
<1>1. IsWellFoundedOn(R, Nat)
  BY NatLessThanWellFounded DEF OpToRel
<1>2. SUFFICES ASSUME U # {} PROVE FALSE
  OBVIOUS
<1>3. U \subseteq Nat
  OBVIOUS
<1> HIDE DEF R, U
<1>4. PICK m \in U : \A y \in U : ~(<<y, m>> \in R)
  BY <1>1, <1>2, <1>3, WFMin
<1>5. \A y \in U : ~(y < m)
  BY <1>3, <1>4 DEF R
<1>6. m \in Nat /\ m \notin T /\ m # 0
  BY <1>4 DEF U
<1>7. m - 1 \in Nat /\ m - 1 < m /\ m = (m - 1) + 1
  BY <1>6
<1>8. m - 1 \notin U
  BY <1>5, <1>7
<1>9. m - 1 \in T
  BY <1>7, <1>8 DEF U
<1> QED BY <1>6, <1>7, <1>9

\* A way is a function that starts where it says and goes on by steps.
IsWay(w, d, dirs) ==
    w = [n \in 0 .. Len(dirs) |-> IF n = 0 THEN d ELSE Stepped(w[n - 1], dirs[n])]

LEMMA WayExists ==
    ASSUME NEW d, NEW dirs \in Seq(Dirs)
    PROVE  IsWay(Way(d, dirs), d, dirs)
<1> DEFINE Upto(w, m) == w = [n \in 0 .. m |-> IF n = 0 THEN d ELSE Stepped(w[n - 1], dirs[n])]
           T == {m \in Nat : \E w : Upto(w, m)}
<1>1. 0 \in T
  <2> DEFINE w == [n \in 0 .. 0 |-> d]
  <2>1. Upto(w, 0)
    OBVIOUS
  <2> QED BY <2>1
<1>2. ASSUME NEW m \in T
      PROVE  m + 1 \in T
  <2>1. PICK w : Upto(w, m)
    BY <1>2
  <2> DEFINE v == [n \in 0 .. m + 1 |-> IF n = m + 1 THEN Stepped(w[m], dirs[m + 1]) ELSE w[n]]
  <2>2. m \in Nat /\ DOMAIN w = 0 .. m
    BY <2>1
  <2>3. ASSUME NEW n \in 0 .. m + 1
        PROVE  v[n] = IF n = 0 THEN d ELSE Stepped(v[n - 1], dirs[n])
    <3>1. CASE n = m + 1
      <4>1. m \in 0 .. m + 1 /\ m # m + 1 /\ n - 1 = m /\ n # 0
        BY <2>2, <3>1
      <4>2. v[m] = w[m]
        BY <4>1
      <4> QED BY <3>1, <4>1, <4>2
    <3>2. CASE n # m + 1
      <4>1. n \in 0 .. m /\ v[n] = w[n]
        BY <2>2, <3>2
      <4>2. w[n] = IF n = 0 THEN d ELSE Stepped(w[n - 1], dirs[n])
        BY <2>1, <4>1
      <4>3. n # 0 => n - 1 \in 0 .. m + 1 /\ n - 1 # m + 1
        BY <2>2, <4>1
      <4>4. n # 0 => v[n - 1] = w[n - 1]
        BY <4>3
      <4> HIDE DEF v
      <4> QED BY <4>1, <4>2, <4>4
    <3> QED BY <3>1, <3>2
  <2>4. Upto(v, m + 1)
    <3>1. v = [n \in 0 .. m + 1 |-> v[n]]
      OBVIOUS
    <3> HIDE DEF v
    <3> QED BY <2>3, <3>1
  <2>5. \E u : Upto(u, m + 1)
    BY <2>4
  <2> HIDE DEF Upto, v
  <2> QED BY <2>2, <2>5
<1>3. Len(dirs) \in T
  <2> HIDE DEF T
  <2>1. T \in SUBSET Nat
    BY DEF T
  <2> QED BY <1>1, <1>2, <2>1, NatSetInduction, LenProperties
<1>4. PICK w : Upto(w, Len(dirs))
  BY <1>3
<1> QED BY <1>4 DEF Way, IsWay

\* No directories lead nowhere else, and of several the first is first.
LEMMA LedNowhere == ASSUME NEW d PROVE Led(d, <<>>) = d
<1>1. <<>> \in Seq(Dirs) /\ Len(<<>>) = 0
  BY EmptySeq
<1>2. IsWay(Way(d, <<>>), d, <<>>)
  BY <1>1, WayExists
<1> DEFINE w == Way(d, <<>>)
<1> HIDE DEF w
<1>3. w = [n \in 0 .. 0 |-> IF n = 0 THEN d ELSE Stepped(w[n - 1], <<>>[n])]
  BY <1>1, <1>2 DEF IsWay, w
<1>4. w[0] = d
  BY <1>3
<1> QED BY <1>1, <1>4 DEF Led, w

LEMMA LedOn ==
    ASSUME NEW d, NEW dirs \in Seq(Dirs), dirs # <<>>
    PROVE  Led(d, dirs) = Led(Stepped(d, Head(dirs)), Tail(dirs))
<1> DEFINE e == Stepped(d, Head(dirs))
           rest == Tail(dirs)
           w == Way(d, dirs)
           v == Way(e, rest)
<1>1. /\ rest \in Seq(Dirs) /\ Len(dirs) \in Nat /\ Len(dirs) > 0 /\ Len(rest) = Len(dirs) - 1
      /\ Head(dirs) = dirs[1] /\ \A i \in 1 .. Len(rest) : rest[i] = dirs[i + 1]
  BY EmptySeq, LenProperties, HeadTailProperties
<1>3. IsWay(w, d, dirs) /\ IsWay(v, e, rest)
  BY <1>1, WayExists
<1> HIDE DEF w, v, e, rest
<1>2. PICK k \in Nat : k = Len(rest) /\ Len(dirs) = k + 1
  BY <1>1
<1>4. w = [n \in 0 .. k + 1 |-> IF n = 0 THEN d ELSE Stepped(w[n - 1], dirs[n])]
  BY <1>2, <1>3 DEF IsWay
<1>5. v = [n \in 0 .. k |-> IF n = 0 THEN e ELSE Stepped(v[n - 1], rest[n])]
  BY <1>2, <1>3 DEF IsWay
<1>6. \A n \in 0 .. k + 1 : w[n] = IF n = 0 THEN d ELSE Stepped(w[n - 1], dirs[n])
  BY ONLY <1>4
<1>7. \A n \in 0 .. k : v[n] = IF n = 0 THEN e ELSE Stepped(v[n - 1], rest[n])
  BY ONLY <1>5
<1> DEFINE T == {n \in Nat : n <= k => w[n + 1] = v[n]}
<1>8. 0 \in T
  <2>1. w[0] = d /\ v[0] = e
    BY <1>2, <1>6, <1>7
  <2>2. w[1] = Stepped(w[0], dirs[1])
    <3>1. 1 \in 0 .. k + 1 /\ 1 - 1 = 0 /\ 1 # 0
      BY <1>2
    <3> QED BY <1>6, <3>1
  <2>3. w[1] = v[0]
    BY <1>1, <2>1, <2>2 DEF e
  <2>4. 0 + 1 = 1
    OBVIOUS
  <2> QED BY <2>3, <2>4
<1>9. ASSUME NEW n \in T
      PROVE  n + 1 \in T
  <2> SUFFICES ASSUME n + 1 <= k PROVE w[(n + 1) + 1] = v[n + 1]
    BY <1>9
  <2>1. /\ n \in Nat /\ n + 2 \in 0 .. k + 1 /\ n + 1 \in 0 .. k /\ n + 1 \in 1 .. k
        /\ n + 2 # 0 /\ n + 1 # 0
        /\ (n + 2) - 1 = n + 1 /\ (n + 1) - 1 = n /\ (n + 1) + 1 = n + 2
    BY <1>2, <1>9
  <2>2. w[n + 2] = Stepped(w[n + 1], dirs[n + 2])
    BY <1>6, <2>1
  <2>3. v[n + 1] = Stepped(v[n], rest[n + 1])
    BY <1>7, <2>1
  <2>4. rest[n + 1] = dirs[n + 2]
    BY <1>1, <1>2, <2>1
  <2>5. w[n + 1] = v[n]
    BY <1>2, <1>9, <2>1
  <2> QED BY <2>1, <2>2, <2>3, <2>4, <2>5
<1>10. k \in T
  <2> HIDE DEF T
  <2>1. T \in SUBSET Nat
    BY DEF T
  <2> QED BY <1>8, <1>9, <2>1, <1>2, NatSetInduction
<1>11. w[k + 1] = v[k]
  BY <1>2, <1>10
<1> QED BY <1>1, <1>2, <1>11 DEF Led, w, v, e, rest

----------------------------------------------------------------------------
(* Directories and paths.                                                  *)

SlashFree(d) == \A i \in 1 .. Len(d) : d[i] # Slash

\* A sequence is its head and its tail.
LEMMA HeadAndTail ==
    ASSUME NEW S, NEW s \in Seq(S), s # <<>>
    PROVE  /\ s = <<s[1]>> \o Tail(s) /\ Tail(s) \in Seq(S) /\ Len(Tail(s)) = Len(s) - 1
           /\ Len(s) \in Nat /\ Len(s) > 0 /\ s[1] \in S
           /\ \A i \in 1 .. Len(s) - 1 : Tail(s)[i] = s[i + 1]
           /\ Range(s) = {Head(s)} \cup Range(Tail(s)) /\ Head(s) = s[1]
<1> DEFINE t == Tail(s)
<1>1. /\ t \in Seq(S) /\ Len(t) = Len(s) - 1
      /\ \A i \in 1 .. Len(t) : t[i] = s[i + 1]
      /\ Head(s) = s[1] /\ s[1] \in S
  BY HeadTailProperties, ElementOfSeq, LenProperties, EmptySeq
<1> HIDE DEF t
<1>2. PICK n \in Nat : n = Len(s) /\ n > 0 /\ Len(t) = n - 1 /\ t \in Seq(S)
  BY <1>1, LenProperties, EmptySeq
<1>3. \A i \in 1 .. n - 1 : t[i] = s[i + 1]
  BY <1>1, <1>2
<1> DEFINE u == <<s[1]>>
           c == u \o t
<1>4. u \in Seq(S) /\ Len(u) = 1 /\ u[1] = s[1]
  BY <1>1
<1> HIDE DEF u
<1>5. /\ c \in Seq(S) /\ Len(c) = Len(u) + Len(t)
      /\ \A i \in 1 .. Len(u) : c[i] = u[i]
      /\ \A i \in Len(u) + 1 .. Len(u) + Len(t) : c[i] = t[i - Len(u)]
  <2>1. c \in Seq(S) /\ Len(c) = Len(u) + Len(t)
    BY <1>2, <1>4, ConcatProperties
  <2>2. \A i \in 1 .. Len(u) + Len(t) : c[i] = IF i <= Len(u) THEN u[i] ELSE t[i - Len(u)]
    BY <1>2, <1>4, ConcatProperties
  <2> HIDE DEF c
  <2> QED BY <1>2, <1>4, <2>1, <2>2
<1> HIDE DEF c
<1>6. \A i \in 1 .. n : c[i] = s[i]
  <2>1. Len(c) = n /\ c[1] = s[1] /\ \A i \in 2 .. n : c[i] = t[i - 1]
    BY <1>2, <1>4, <1>5
  <2>2. ASSUME NEW i \in 2 .. n PROVE c[i] = s[i]
    <3>1. i - 1 \in 1 .. n - 1 /\ (i - 1) + 1 = i
      BY <1>2
    <3> QED BY <2>1, <3>1, <1>3
  <2> QED BY <1>2, <2>1, <2>2
<1>7. s = c
  BY <1>2, <1>4, <1>5, <1>6, SeqEqual
<1>8. Range(s) = {s[1]} \cup Range(t)
  <2>1. DOMAIN s = 1 .. n /\ DOMAIN t = 1 .. n - 1
    BY <1>2, LenProperties
  <2>2. \A i \in 1 .. n : i = 1 \/ (i - 1 \in 1 .. n - 1 /\ (i - 1) + 1 = i)
    BY <1>2
  <2>3. \A i \in 1 .. n - 1 : i + 1 \in 1 .. n
    BY <1>2
  <2>4. ASSUME NEW x \in Range(s) PROVE x = s[1] \/ x \in Range(t)
    <3>1. PICK i \in 1 .. n : x = s[i]
      BY <2>1 DEF Range
    <3>2. CASE i = 1
      BY <3>1, <3>2
    <3>3. CASE i # 1
      <4>1. i - 1 \in 1 .. n - 1 /\ (i - 1) + 1 = i
        BY <2>2, <3>3
      <4>2. t[i - 1] = x
        BY <1>3, <3>1, <4>1
      <4> QED BY <2>1, <4>1, <4>2 DEF Range
    <3> QED BY <3>2, <3>3
  <2>5. ASSUME NEW x \in Range(t) PROVE x \in Range(s)
    <3>1. PICK i \in 1 .. n - 1 : x = t[i]
      BY <2>1 DEF Range
    <3> QED BY <1>3, <2>1, <2>3, <3>1 DEF Range
  <2>6. s[1] \in Range(s)
    BY <1>2, <2>1 DEF Range
  <2> QED BY <2>4, <2>5, <2>6
<1>9. s = <<s[1]>> \o Tail(s)
  BY <1>7 DEF c, u, t
<1> QED BY <1>1, <1>2, <1>3, <1>8, <1>9 DEF t

\* Without the root entry the stack is a directory as Stepped has it.
LEMMA StackSteps ==
    ASSUME NEW d \in Path, Rooted(d), NEW seg \in Dirs
    PROVE  /\ Tail(Append(d, seg)) = Append(Tail(d), seg)
           /\ Len(d) > 1 => /\ Tail(d) # <<>>
                            /\ Tail(SubSeq(d, 1, Len(d) - 1)) = SubSeq(Tail(d), 1, Len(Tail(d)) - 1)
           /\ Len(d) = 1 => Tail(d) = <<>>
<1>1. d \in Seq(Texts) /\ d # <<>> /\ seg \in Texts
  BY DEF Path, Rooted, Dirs
<1> DEFINE t == Tail(d)
<1>2. PICK n \in Nat : /\ n = Len(d) /\ n > 0 /\ t \in Seq(Texts) /\ Len(t) = n - 1
                       /\ \A i \in 1 .. n - 1 : t[i] = d[i + 1]
  BY <1>1, HeadAndTail
<1> HIDE DEF t
<1>3. Tail(Append(d, seg)) = Append(t, seg)
  <2> DEFINE w == Append(d, seg)
             a == Append(t, seg)
  <2>1. w \in Seq(Texts) /\ Len(w) = n + 1 /\ w[n + 1] = seg /\ \A i \in 1 .. n : w[i] = d[i]
    BY <1>1, <1>2, Appended
  <2>2. /\ a \in Seq(Texts) /\ Len(a) = (n - 1) + 1 /\ a[(n - 1) + 1] = seg
        /\ \A i \in 1 .. n - 1 : a[i] = t[i]
    BY <1>1, <1>2, Appended
  <2> HIDE DEF w, a
  <2>3. w # <<>>
    BY <1>2, <2>1, EmptySeq
  <2> DEFINE v == Tail(w)
  <2>4. v \in Seq(Texts) /\ Len(v) = Len(w) - 1 /\ \A i \in 1 .. Len(w) - 1 : v[i] = w[i + 1]
    BY <2>1, <2>3, HeadAndTail
  <2> HIDE DEF v
  <2>5. ASSUME NEW i \in 1 .. n PROVE v[i] = a[i]
    <3>1. v[i] = w[i + 1]
      BY <1>2, <2>1, <2>4
    <3>2. CASE i = n
      BY <1>2, <2>1, <2>2, <3>1, <3>2
    <3>3. CASE i \in 1 .. n - 1
      BY <1>2, <2>1, <2>2, <3>1, <3>3
    <3> QED BY <3>2, <3>3
  <2>6. Len(v) = n /\ Len(a) = n
    BY <1>2, <2>1, <2>2, <2>4
  <2>7. v = a
    BY <2>2, <2>4, <2>5, <2>6, SeqEqual
  <2> QED BY <2>7 DEF v, w, a
<1>4. ASSUME n > 1
      PROVE  t # <<>> /\ Tail(SubSeq(d, 1, n - 1)) = SubSeq(t, 1, n - 2)
  <2>0. t # <<>>
    BY <1>2, <1>4, EmptySeq
  <2> DEFINE e == SubSeq(d, 1, n - 1)
             b == SubSeq(t, 1, n - 2)
  <2>1. e \in Seq(Texts) /\ Len(e) = n - 1 /\ \A i \in 1 .. n - 1 : e[i] = d[i]
    BY <1>1, <1>2, Shortened
  <2>2. b \in Seq(Texts) /\ Len(b) = n - 2 /\ \A i \in 1 .. n - 2 : b[i] = t[i]
    <3>1. /\ SubSeq(t, 1, Len(t) - 1) \in Seq(Texts) /\ Len(SubSeq(t, 1, Len(t) - 1)) = Len(t) - 1
          /\ \A i \in 1 .. Len(t) - 1 : SubSeq(t, 1, Len(t) - 1)[i] = t[i]
      BY <1>2, <2>0, Shortened
    <3>2. Len(t) - 1 = n - 2
      BY <1>2
    <3> QED BY <3>1, <3>2
  <2> HIDE DEF e, b
  <2>3. e # <<>>
    BY <1>2, <1>4, <2>1, EmptySeq
  <2> DEFINE v == Tail(e)
  <2>4. v \in Seq(Texts) /\ Len(v) = Len(e) - 1 /\ \A i \in 1 .. Len(e) - 1 : v[i] = e[i + 1]
    BY <2>1, <2>3, HeadAndTail
  <2> HIDE DEF v
  <2>5. Len(v) = n - 2 /\ \A i \in 1 .. n - 2 : v[i] = b[i]
    <3>1. Len(v) = n - 2
      BY <1>2, <2>1, <2>4
    <3>2. ASSUME NEW i \in 1 .. n - 2 PROVE v[i] = b[i]
      <4>1. i \in 1 .. Len(e) - 1 /\ i + 1 \in 1 .. n - 1 /\ i \in 1 .. n - 1
        BY <1>2, <2>1
      <4>2. v[i] = e[i + 1] /\ e[i + 1] = d[i + 1] /\ b[i] = t[i] /\ t[i] = d[i + 1]
        BY <1>2, <2>1, <2>2, <2>4, <4>1
      <4> QED BY <4>2
    <3> QED BY <3>1, <3>2
  <2>6. v = b
    BY <2>2, <2>4, <2>5, SeqEqual
  <2> QED BY <2>0, <2>6 DEF v, e, b
<1>5. ASSUME n = 1 PROVE t = <<>>
  BY <1>2, <1>5, EmptySeq
<1>6. Len(t) - 1 = n - 2
  BY <1>2
<1> QED BY <1>2, <1>3, <1>4, <1>5, <1>6 DEF t

\* Directories that are entered and left have no empty segment but those that
\* the target has.
LEMMA SlashFreeSteps ==
    ASSUME NEW d \in Path, SlashFree(d)
    PROVE  /\ \A seg \in Dirs : seg # Slash => SlashFree(Append(d, seg))
           /\ d # <<>> => SlashFree(SubSeq(d, 1, Len(d) - 1))
<1>1. d \in Seq(Texts) /\ Len(d) \in Nat
  BY LenProperties DEF Path
<1>2. ASSUME NEW seg \in Dirs, seg # Slash
      PROVE  SlashFree(Append(d, seg))
  <2> DEFINE w == Append(d, seg)
  <2>1. seg \in Texts
    BY DEF Dirs
  <2>2. Len(w) = Len(d) + 1 /\ w[Len(d) + 1] = seg /\ \A i \in 1 .. Len(d) : w[i] = d[i]
    BY <1>1, <2>1, Appended
  <2> HIDE DEF w
  <2>3. SlashFree(w)
    <3>1. PICK n \in Nat : n = Len(d)
      BY <1>1
    <3>2. \A i \in 1 .. n : w[i] # Slash
      BY <2>2, <3>1 DEF SlashFree
    <3>3. w[n + 1] # Slash /\ Len(w) = n + 1
      BY <1>2, <2>2, <3>1
    <3> QED BY <3>2, <3>3 DEF SlashFree
  <2> QED BY <2>3 DEF w
<1>3. ASSUME d # <<>>
      PROVE  SlashFree(SubSeq(d, 1, Len(d) - 1))
  <2> DEFINE e == SubSeq(d, 1, Len(d) - 1)
  <2>1. Len(e) = Len(d) - 1 /\ \A i \in 1 .. Len(d) - 1 : e[i] = d[i]
    BY <1>1, <1>3, Shortened
  <2> HIDE DEF e
  <2>2. SlashFree(e)
    BY <1>1, <2>1 DEF SlashFree
  <2> QED BY <2>2 DEF e
<1> QED BY <1>2, <1>3

\* Where a relation leads to from a directory, and the directory of the part
\* that is found there.
LEMMA PathAtDirectory ==
    ASSUME NEW d \in Path, Rooted(d), NEW name \in Texts
    PROVE  /\ FullPath(<<Empty>> \o Tail(d), name) = FullPath(d, name)
           /\ SlashFree(d) => /\ FullPath(d, name) = Append(Tail(d), name)
                              /\ Home(FullPath(d, name)) = Tail(d)
                              /\ SlashFree(Tail(d))
           /\ FullPath(d, name) # <<>>
<1>1. d \in Seq(Texts) /\ d # <<>> /\ d[1] = Empty
  BY DEF Path, Rooted
<1>2. d = <<Empty>> \o Tail(d) /\ Tail(d) \in Seq(Texts)
  BY <1>1, HeadAndTail
<1>3. PICK n \in Nat : n = Len(d) /\ n > 0 /\ Len(Tail(d)) = n - 1
  BY <1>1, HeadAndTail
<1>4. \A i \in 1 .. n - 1 : Tail(d)[i] = d[i + 1]
  BY <1>1, <1>3, HeadAndTail
<1> DEFINE t == Tail(d)
           w == Append(t, name)
<1> HIDE DEF t
<1>5. w \in Seq(Texts) /\ Len(w) = (n - 1) + 1 /\ \A i \in 1 .. n - 1 : w[i] = t[i]
  <2>1. t \in Seq(Texts) /\ Len(t) = n - 1
    BY <1>2, <1>3 DEF t
  <2> QED BY <2>1, Appended
<1> HIDE DEF w
<1>6. w # <<>>
  BY <1>3, <1>5, EmptySeq
<1>7. FullPath(d, name) = <<name>> \/ FullPath(d, name) = w
  BY DEF FullPath, w, t
<1>8. ASSUME SlashFree(d)
      PROVE  FullPath(d, name) = w /\ Home(w) = t /\ SlashFree(t)
  <2>1. \A i \in 3 .. Len(d) : d[i] # Slash
    BY <1>3, <1>8 DEF SlashFree
  <2>2. FullPath(d, name) = w
    BY <2>1 DEF FullPath, w, t
  <2>3. Home(w) = SubSeq(w, 1, n - 1)
    <3>1. Len(w) - 1 = n - 1
      BY <1>3, <1>5
    <3> QED BY <1>6, <3>1 DEF Home
  <2> DEFINE b == SubSeq(w, 1, n - 1)
  <2>4. b \in Seq(Texts) /\ Len(b) = n - 1 /\ \A i \in 1 .. n - 1 : b[i] = w[i]
    <3>1. /\ SubSeq(w, 1, Len(w) - 1) \in Seq(Texts) /\ Len(SubSeq(w, 1, Len(w) - 1)) = Len(w) - 1
          /\ \A i \in 1 .. Len(w) - 1 : SubSeq(w, 1, Len(w) - 1)[i] = w[i]
      BY <1>5, <1>6, Shortened
    <3>2. Len(w) - 1 = n - 1
      BY <1>3, <1>5
    <3> QED BY <3>1, <3>2
  <2> HIDE DEF b
  <2>5. b = t
    <3>1. t \in Seq(Texts) /\ Len(t) = n - 1
      BY <1>2, <1>3 DEF t
    <3> QED BY <1>5, <2>4, <3>1, SeqEqual
  <2>6. SlashFree(t)
    BY <1>3, <1>4, <1>8 DEF SlashFree, t
  <2> QED BY <2>2, <2>3, <2>5, <2>6 DEF b
<1>9. FullPath(d, name) # <<>>
  <2>1. <<name>> # <<>>
    BY EmptySeq
  <2> QED BY <1>6, <1>7, <2>1
<1> QED BY <1>2, <1>8, <1>9 DEF w, t

----------------------------------------------------------------------------
(* No relation is lost.                                                    *)

\* A relation of the loop's part is the one the loop has under way, when the
\* directory is d: what is left of its target leads on to where all of it
\* leads to.
Current(f, r, d) ==
    /\ f.pc \in {"enter", "within"}
    /\ f.type = r.type /\ f.name = r.name /\ f.data = DataFor(r.rid, f.extras)
    /\ f.pc = "enter" =>
         /\ Led(Tail(d), f.dirs) = Led(Home(f.at), r.dirs)
         /\ IsRelative(r) => SlashFree(d) /\ SlashFree(f.dirs)
    /\ f.pc = "within" => f.path = LeadsTo(f.at, r)

Wanted(r) == r.name # Empty /\ r.type \in HandledTypes

LoopOK(pkg, f, d, parts) ==
    /\ f.at \in Sources(pkg)
    /\ SlashFree(f.base) /\ Tail(f.base) = Home(f.at)
    /\ Range(f.rels) \subseteq RelationsOf(pkg, f.at)
    /\ f.pc \in {"enter", "within"} => \E r \in RelationsOf(pkg, f.at) : Current(f, r, d)
    /\ \A r \in RelationsOf(pkg, f.at) : Wanted(r) =>
         r \in Range(f.rels) \/ Current(f, r, d) \/ LeadsTo(f.at, r) \in parts

LoopsOK(pkg, cs, d, parts) == \A k \in 1 .. Len(cs) : LoopOK(pkg, cs[k], d, parts)

AllHandled(pkg, at, parts) == \A r \in RelationsOf(pkg, at) : Wanted(r) => LeadsTo(at, r) \in parts

\* A part with relations that was parsed: they are handled, or their loop runs.
EntryOK(pkg, cs, parts, e) ==
    e.type \in WithRelations =>
        /\ e.path \in DOMAIN pkg.parts /\ e.path # <<>> /\ SlashFree(Home(e.path))
        /\ AllHandled(pkg, e.path, parts) \/ \E k \in 2 .. Len(cs) : cs[k].at = e.path

HInv ==
    /\ IInv
    /\ log \in Seq(Entries)
    /\ phase = "idle" => log = <<>>
    /\ phase = "parts" => LoopsOK(package, calls, dir, handled)
    /\ phase \notin {"thrown", "exhausted"} => \A j \in 1 .. Len(log) : EntryOK(package, calls, handled, log[j])

\* The frames when the one on top is replaced.
LEMMA TopReplaced ==
    ASSUME IInv, phase = "parts", NEW g \in Frames
    PROVE  /\ SetTop(g) \in Seq(Frames) /\ Len(SetTop(g)) = Len(calls)
           /\ SetTop(g)[Len(calls)] = g
           /\ \A k \in 1 .. Len(calls) : k # Len(calls) => SetTop(g)[k] = calls[k] /\ calls[k].pc = "within"
<1>1. calls \in Seq(Frames) /\ Len(calls) \in Nat /\ Len(calls) > 0
  BY TopFacts
<1>2. \A k \in 1 .. Len(calls) : calls[k].pc = "within" <=> k # Len(calls)
  BY DEF IInv, CallsOK, FrameOK
<1>3. PICK n \in Nat : n = Len(calls) /\ n > 0
  BY <1>1
<1> DEFINE new == [calls EXCEPT ![n] = g]
<1>4. new \in Seq(Frames) /\ Len(new) = n /\ \A j \in 1 .. n : new[j] = IF j = n THEN g ELSE calls[j]
  BY <1>1, <1>3, ExceptSeq
<1> HIDE DEF new
<1>5. SetTop(g) = new
  BY <1>3 DEF SetTop, new
<1> QED BY <1>2, <1>3, <1>4, <1>5

LEMMA NewTop ==
    ASSUME IInv, IInv', phase = "parts", NEW g, calls' = SetTop(g)
    PROVE  g \in Frames
<1>1. calls' \in Seq(Frames) /\ calls \in Seq(Frames)
  BY DEF IInv, CallsOK
<1>2. Len(calls) \in 1 .. Len(calls) /\ DOMAIN calls = 1 .. Len(calls)
  BY <1>1, TopFacts, LenProperties
<1>3. calls'[Len(calls)] = g /\ DOMAIN calls' = DOMAIN calls
  BY <1>2 DEF SetTop
<1> QED BY <1>1, <1>2, <1>3, LenProperties, ElementOfSeq

\* A frame that waits inside of its handler does not look at the directory.
LEMMA WaitingLoop ==
    ASSUME NEW pkg, NEW f, NEW d, NEW e, NEW parts, NEW more, LoopOK(pkg, f, d, parts),
           f.pc = "within", parts \subseteq more
    PROVE  LoopOK(pkg, f, e, more)
<1>1. \A r : Current(f, r, d) => Current(f, r, e)
  BY DEF Current
<1> QED BY <1>1 DEF LoopOK

\* Parts that are handled stay so, loops that run do.
LEMMA EntryStays ==
    ASSUME NEW pkg, NEW cs, NEW ds, NEW parts, NEW more, NEW e, EntryOK(pkg, cs, parts, e),
           parts \subseteq more,
           AllHandled(pkg, e.path, more) \/
               \A k \in 2 .. Len(cs) : cs[k].at = e.path => \E j \in 2 .. Len(ds) : ds[j].at = e.path
    PROVE  EntryOK(pkg, ds, more, e)
<1>1. AllHandled(pkg, e.path, parts) => AllHandled(pkg, e.path, more)
  BY DEF AllHandled
<1> QED BY <1>1 DEF EntryOK

\* A step of the top frame.
LEMMA LoopMoves ==
    ASSUME HInv, phase = "parts", NEW g \in Frames, g.at = Top.at, calls' = SetTop(g),
           handled \subseteq handled', LoopOK(package, g, dir', handled')
    PROVE  /\ LoopsOK(package, calls', dir', handled')
           /\ \A j \in 1 .. Len(log) : EntryOK(package, calls', handled', log[j])
<1>1. /\ Len(calls') = Len(calls) /\ calls'[Len(calls)] = g
      /\ \A k \in 1 .. Len(calls) : k # Len(calls) => calls'[k] = calls[k] /\ calls[k].pc = "within"
  BY TopReplaced DEF HInv
<1>2. Len(calls) \in Nat /\ Len(calls) > 0 /\ Top = calls[Len(calls)]
  BY TopFacts DEF HInv
<1>3. ASSUME NEW k \in 1 .. Len(calls')
      PROVE  LoopOK(package, calls'[k], dir', handled')
  <2>1. CASE k = Len(calls)
    BY <1>1, <2>1
  <2>2. CASE k # Len(calls)
    <3>1. calls'[k] = calls[k] /\ calls[k].pc = "within" /\ LoopOK(package, calls[k], dir, handled)
      BY <1>1, <2>2 DEF HInv, LoopsOK
    <3> QED BY <3>1, WaitingLoop
  <2> QED BY <2>1, <2>2
<1>4. \A k \in 2 .. Len(calls) : calls'[k].at = calls[k].at
  BY <1>1, <1>2
<1>5. ASSUME NEW j \in 1 .. Len(log)
      PROVE  EntryOK(package, calls', handled', log[j])
  <2>1. EntryOK(package, calls, handled, log[j])
    BY DEF HInv
  <2>2. \A k \in 2 .. Len(calls) : calls[k].at = log[j].path => calls'[k].at = log[j].path
    BY <1>4
  <2> QED BY <1>1, <2>1, <2>2, EntryStays
<1> QED BY <1>3, <1>5 DEF LoopsOK

\* ... that reads nothing.
LEMMA LoopKept ==
    ASSUME HInv, IInv', phase = "parts", phase' = "parts", NEW g \in Frames, g.at = Top.at,
           calls' = SetTop(g), package' = package, log' = log, handled \subseteq handled',
           LoopOK(package, g, dir', handled')
    PROVE  HInv'
<1>1. /\ LoopsOK(package, calls', dir', handled')
      /\ \A j \in 1 .. Len(log) : EntryOK(package, calls', handled', log[j])
  BY LoopMoves
<1>2. LoopsOK(package', calls', dir', handled')
  BY <1>1
<1>3. \A j \in 1 .. Len(log') : EntryOK(package', calls', handled', log'[j])
  BY <1>1
<1> QED BY <1>2, <1>3 DEF HInv

\* The read_part under way has done with the part: the target is a directory,
\* has no handler, or is recorded.
LEMMA LoopLeaves ==
    ASSUME NEW pkg, NEW f \in Frames, NEW g \in Frames, NEW d, NEW parts, NEW more, LoopOK(pkg, f, d, parts),
           parts \subseteq more, g.pc \in {"next", "leave"},
           g.at = f.at, g.base = f.base, g.rels = f.rels,
           \A r \in RelationsOf(pkg, f.at) : Wanted(r) /\ Current(f, r, d) => LeadsTo(f.at, r) \in more,
           NEW e
    PROVE  LoopOK(pkg, g, e, more)
  BY DEF LoopOK

LEMMA LoopOfTop ==
    ASSUME HInv, phase = "parts"
    PROVE  LoopOK(package, Top, dir, handled)
<1>1. Len(calls) \in 1 .. Len(calls)
  BY TopFacts DEF HInv
<1> QED BY <1>1 DEF HInv, LoopsOK, Top

\* In the directory of the target, the target is the part that the relation
\* under way leads to.
LEMMA CurrentTarget ==
    ASSUME HInv, AtFile, NEW r, Current(Top, r, dir)
    PROVE  Target = LeadsTo(Top.at, r) /\ Top.name = r.name /\ Top.type = r.type
<1>1. phase = "parts" /\ Top.pc = "enter" /\ Top.dirs = <<>>
  BY DEF AtFile
<1>2. dir \in Path /\ Rooted(dir) /\ Top \in Frames
  BY <1>1, TopFacts DEF HInv
<1>3. Top.name \in Texts
  BY <1>2 DEF Frames
<1>4. Led(Tail(dir), <<>>) = Led(Home(Top.at), r.dirs)
  BY <1>1 DEF Current
<1>5. Tail(dir) = Led(Home(Top.at), r.dirs)
  BY <1>4, LedNowhere
<1>6. FullPath(dir, Top.name) = FullPath(<<Empty>> \o Tail(dir), Top.name)
  BY <1>2, <1>3, PathAtDirectory
<1> QED BY <1>5, <1>6 DEF Target, LeadsTo, Current

LEMMA HandledReadFile == ASSUME HInv, ReadFile, IInv' PROVE HInv'
<1>1. dir' = <<Empty>>
  <2>1. dir' = Append(<<>>, Empty)
    BY DEF ReadFile, HInv, IInv
  <2> QED BY <2>1
<1> DEFINE h == Frame(<<>>, package.root, <<>>, dir')
<1>2. phase' = "parts" /\ log = <<>> /\ log' = <<>> /\ package' = package /\ handled' = handled
  BY DEF ReadFile, HInv
<1>3. calls' = <<h>>
  BY DEF ReadFile
<1>4. h.at = <<>> /\ h.base = <<Empty>> /\ h.rels = package.root /\ h.pc = "next"
  BY <1>1 DEF Frame
<1> HIDE DEF h
<1>5. Len(calls') = 1 /\ calls'[1] = h
  BY <1>3
<1>6. SlashFree(<<Empty>>) /\ Tail(<<Empty>>) = <<>>
  <2>1. Slash # Empty
    BY TextAssumption DEF Dirs
  <2>2. Len(<<Empty>>) = 1 /\ <<Empty>>[1] = Empty
    OBVIOUS
  <2>3. Tail(<<Empty>>) = <<>>
    OBVIOUS
  <2> QED BY <2>1, <2>2, <2>3 DEF SlashFree
<1>7. LoopOK(package, h, dir', handled')
  <2>1. Range(h.rels) = RelationsOf(package, h.at)
    BY <1>4 DEF RelationsOf
  <2>2. Home(h.at) = <<>> /\ h.at \in Sources(package)
    BY <1>4 DEF Home, Sources
  <2> QED BY <1>4, <1>6, <2>1, <2>2 DEF LoopOK
<1>8. LoopsOK(package', calls', dir', handled')
  BY <1>2, <1>5, <1>7 DEF LoopsOK
<1>9. Len(<<>>) = 0 /\ <<>> \in Seq(Entries)
  BY EmptySeq
<1> QED BY <1>2, <1>8, <1>9 DEF HInv

LEMMA HandledNextRelation == ASSUME HInv, NextRelation, IInv' PROVE HInv'
<1>0. phase = "parts" /\ Top.pc = "next" /\ Top.rels # <<>>
  BY DEF NextRelation
<1>1. /\ Top \in Frames /\ Walked(Top.base, Top.changed, Top.trail, dir)
      /\ Top.changed = <<>> /\ dir \in Path /\ Rooted(dir)
  BY <1>0, TopFacts DEF HInv
<1>2. Top.trail \in Seq(Path) /\ Top.rels \in Seq(Relation) /\ Top.extras \in Extra
  BY <1>1 DEF Frames
<1>3. dir = Top.base
  BY <1>1, <1>2, NothingChanged
<1> DEFINE rel == Head(Top.rels)
           x == DataFor(rel.rid, Top.extras)
           g == [Top EXCEPT !.rels = Advanced(Top.rels), !.pc = "enter", !.dirs = rel.dirs,
                            !.name = rel.name, !.type = rel.type, !.data = x,
                            !.path = <<>>, !.changed = <<>>, !.trail = <<>>]
<1>4. calls' = SetTop(g) /\ UNCHANGED <<package, phase, dir, handled, log>>
  BY DEF NextRelation
<1>5. Range(Top.rels) = {rel} \cup Range(Tail(Top.rels))
  BY <1>0, <1>2, HeadAndTail
<1> HIDE DEF rel, x
<1>6. /\ g.at = Top.at /\ g.base = Top.base /\ g.rels = Tail(Top.rels) /\ g.extras = Top.extras
      /\ g.pc = "enter" /\ g.dirs = rel.dirs /\ g.name = rel.name /\ g.type = rel.type /\ g.data = x
  BY <1>1 DEF Frames, Advanced
<1> HIDE DEF g
<1>7. g \in Frames
  BY <1>0, <1>4, NewTop DEF HInv
<1>8. LoopOK(package, Top, dir, handled)
  BY <1>0, LoopOfTop
<1>9. Current(g, rel, dir)
  <2>1. SlashFree(Top.base) /\ Tail(Top.base) = Home(Top.at)
    BY <1>8 DEF LoopOK
  <2>2. IsRelative(rel) => SlashFree(rel.dirs)
    <3>1. rel \in Relation
      BY <1>0, <1>2, HeadTailProperties DEF rel
    <3>2. DOMAIN rel.dirs = 1 .. Len(rel.dirs)
      BY <3>1, LenProperties DEF Relation
    <3> QED BY <3>2 DEF IsRelative, SlashFree
  <2> QED BY <1>3, <1>6, <2>1, <2>2 DEF Current, x
<1>10. LoopOK(package, g, dir, handled)
  <2>1. rel \in RelationsOf(package, g.at) /\ Range(g.rels) \subseteq RelationsOf(package, g.at)
    BY <1>5, <1>6, <1>8 DEF LoopOK
  <2>2. \A r \in RelationsOf(package, g.at) : Wanted(r) =>
          r \in Range(g.rels) \/ Current(g, r, dir) \/ LeadsTo(g.at, r) \in handled
    <3>1. \A r : ~Current(Top, r, dir)
      BY <1>0 DEF Current
    <3> QED BY <1>5, <1>6, <1>8, <1>9, <3>1 DEF LoopOK
  <2> QED BY <1>6, <1>8, <1>9, <2>1, <2>2 DEF LoopOK
<1> QED BY <1>0, <1>4, <1>6, <1>7, <1>10, LoopKept

LEMMA HandledChangeDirectory == ASSUME HInv, ChangeDirectory, IInv' PROVE HInv'
<1>0. phase = "parts" /\ Top.pc = "enter" /\ Top.dirs # <<>>
  BY DEF ChangeDirectory
<1>1. Top \in Frames /\ dir \in Path /\ Rooted(dir) /\ dir # <<>> /\ Len(dir) \in Nat /\ Len(dir) > 0
  <2>1. Top \in Frames /\ dir \in Path /\ Rooted(dir) /\ dir # <<>>
    BY <1>0, TopFacts DEF HInv
  <2> QED BY <2>1, HeadAndTail DEF Path
<1>2. Top.dirs \in Seq(Dirs)
  BY <1>1 DEF Frames
<1> DEFINE seg == Head(Top.dirs)
           rest == Tail(Top.dirs)
<1>3. /\ seg \in Dirs /\ rest \in Seq(Dirs) /\ seg = Top.dirs[1]
      /\ Len(Top.dirs) \in Nat /\ Len(Top.dirs) > 0 /\ Len(rest) = Len(Top.dirs) - 1
      /\ \A i \in 1 .. Len(Top.dirs) - 1 : rest[i] = Top.dirs[i + 1]
  BY <1>0, <1>2, HeadAndTail
<1>4. Led(Tail(dir), Top.dirs) = Led(Stepped(Tail(dir), seg), rest)
  BY <1>0, <1>2, LedOn
<1> HIDE DEF seg, rest
<1>5. SlashFree(Top.dirs) => seg # Slash /\ SlashFree(rest)
  BY <1>3 DEF SlashFree
<1>6. UNCHANGED <<package, phase, handled, log>>
  BY DEF ChangeDirectory
\* The frame after a step to a directory of the stack.
<1>7. ASSUME NEW g, calls' = SetTop(g), g.at = Top.at, g.base = Top.base, g.rels = Top.rels,
             g.extras = Top.extras, g.pc = "enter", g.dirs = rest, g.name = Top.name,
             g.type = Top.type, g.data = Top.data,
             Tail(dir') = Stepped(Tail(dir), seg),
             SlashFree(dir) /\ seg # Slash => SlashFree(dir')
      PROVE  HInv'
  <2>1. LoopOK(package, Top, dir, handled)
    BY <1>0, LoopOfTop
  <2>2. ASSUME NEW r, Current(Top, r, dir) PROVE Current(g, r, dir')
    BY <1>0, <1>4, <1>5, <1>7, <2>2 DEF Current
  <2>3. LoopOK(package, g, dir', handled)
    BY <1>0, <1>7, <2>1, <2>2 DEF LoopOK
  <2>4. g \in Frames
    BY <1>0, <1>7, NewTop DEF HInv
  <2> QED BY <1>0, <1>6, <1>7, <2>3, <2>4, LoopKept
<1>8. /\ Tail(Append(dir, seg)) = Append(Tail(dir), seg)
      /\ Len(dir) > 1 => /\ Tail(dir) # <<>>
                         /\ Tail(SubSeq(dir, 1, Len(dir) - 1)) = SubSeq(Tail(dir), 1, Len(Tail(dir)) - 1)
      /\ Len(dir) = 1 => Tail(dir) = <<>>
  BY <1>1, <1>3, StackSteps
<1>9. /\ SlashFree(dir) /\ seg # Slash => SlashFree(Append(dir, seg))
      /\ SlashFree(dir) => SlashFree(SubSeq(dir, 1, Len(dir) - 1))
  BY <1>1, <1>3, SlashFreeSteps
<1> DEFINE next == [Top EXCEPT !.dirs = rest]
<1>10. /\ next.at = Top.at /\ next.base = Top.base /\ next.rels = Top.rels
       /\ next.extras = Top.extras /\ next.pc = "enter" /\ next.dirs = rest
       /\ next.name = Top.name /\ next.type = Top.type /\ next.data = Top.data
       /\ next \in Frames
  BY <1>0, <1>1, <1>3 DEF Frames
<1> HIDE DEF next
<1>11. ASSUME NEW c, NEW t
       PROVE  LET g == [next EXCEPT !.changed = c, !.trail = t] IN
              /\ g.at = next.at /\ g.base = next.base /\ g.rels = next.rels
              /\ g.extras = next.extras /\ g.pc = next.pc /\ g.dirs = next.dirs
              /\ g.name = next.name /\ g.type = next.type /\ g.data = next.data
  BY <1>10 DEF Frames
<1>12. CASE /\ seg # Up /\ dir' = Append(dir, seg)
            /\ calls' = SetTop([next EXCEPT !.changed = Append(@, Empty), !.trail = Append(@, dir)])
  <2>1. Tail(dir') = Stepped(Tail(dir), seg) /\ (SlashFree(dir) /\ seg # Slash => SlashFree(dir'))
    BY <1>8, <1>9, <1>12 DEF Stepped
  <2> DEFINE g == [next EXCEPT !.changed = Append(next.changed, Empty), !.trail = Append(next.trail, dir)]
  <2>2. /\ g.at = next.at /\ g.base = next.base /\ g.rels = next.rels
        /\ g.extras = next.extras /\ g.pc = next.pc /\ g.dirs = next.dirs
        /\ g.name = next.name /\ g.type = next.type /\ g.data = next.data
    BY <1>11
  <2>3. calls' = SetTop(g)
    BY <1>12
  <2> HIDE DEF g
  <2> QED BY <1>7, <1>10, <2>1, <2>2, <2>3
<1>13. CASE /\ seg = Up /\ Climbs(dir) /\ dir' = SubSeq(dir, 1, Len(dir) - 1)
            /\ calls' = SetTop([next EXCEPT !.changed = LeftRecorded(@, dir[Len(dir)]),
                                            !.trail = Append(@, dir)])
  <2>1. Tail(dir') = Stepped(Tail(dir), seg) /\ (SlashFree(dir) /\ seg # Slash => SlashFree(dir'))
    BY <1>8, <1>9, <1>13 DEF Stepped, Climbs
  <2> DEFINE g == [next EXCEPT !.changed = LeftRecorded(next.changed, dir[Len(dir)]), !.trail = Append(next.trail, dir)]
  <2>2. /\ g.at = next.at /\ g.base = next.base /\ g.rels = next.rels
        /\ g.extras = next.extras /\ g.pc = next.pc /\ g.dirs = next.dirs
        /\ g.name = next.name /\ g.type = next.type /\ g.data = next.data
    BY <1>11
  <2>3. calls' = SetTop(g)
    BY <1>13
  <2> HIDE DEF g
  <2> QED BY <1>7, <1>10, <2>1, <2>2, <2>3
<1>14. CASE seg = Up /\ ~Climbs(dir) /\ dir' = dir /\ calls' = SetTop(next)
  <2>1. Tail(dir') = Stepped(Tail(dir), seg)
    BY <1>1, <1>8, <1>14 DEF Stepped, Climbs
  <2> QED BY <1>7, <1>10, <1>14, <2>1
<1> QED BY <1>12, <1>13, <1>14 DEF ChangeDirectory, next, seg, rest

\* The steps after which read_part walks back or returns.
LEMMA HandledLeaves ==
    ASSUME HInv, IInv', phase = "parts", phase' = "parts", NEW g, calls' = SetTop(g),
           g.pc \in {"next", "leave"}, g.at = Top.at, g.base = Top.base, g.rels = Top.rels,
           package' = package, log' = log, handled \subseteq handled',
           \A r : Wanted(r) /\ Current(Top, r, dir) => LeadsTo(Top.at, r) \in handled'
    PROVE  HInv'
<1>1. g \in Frames /\ Top \in Frames
  BY NewTop, TopFacts DEF HInv
<1>2. LoopOK(package, Top, dir, handled)
  BY LoopOfTop
<1>3. LoopOK(package, g, dir', handled')
  BY <1>1, <1>2, LoopLeaves
<1> QED BY <1>1, <1>3, LoopKept

LEMMA HandledUndoChange == ASSUME HInv, UndoChange, IInv' PROVE HInv'
<1>1. phase = "parts" /\ Top.pc = "leave" /\ UNCHANGED <<package, phase, handled, log>>
  BY DEF UndoChange
<1>2. Top \in Frames
  BY <1>1, TopFacts DEF HInv
<1> DEFINE n == Len(Top.changed)
           g == [Top EXCEPT !.changed = SubSeq(@, 1, n - 1), !.trail = SubSeq(@, 1, Len(@) - 1)]
<1>3. calls' = SetTop(g)
  BY DEF UndoChange
<1>4. g.pc = Top.pc /\ g.at = Top.at /\ g.base = Top.base /\ g.rels = Top.rels
  BY <1>2 DEF Frames
<1> HIDE DEF g
<1>5. \A r : ~Current(Top, r, dir)
  BY <1>1 DEF Current
<1> QED BY <1>1, <1>3, <1>4, <1>5, HandledLeaves

LEMMA HandledNotAFile == ASSUME HInv, NotAFile, IInv' PROVE HInv'
<1>1. phase = "parts" /\ Top.name = Empty /\ UNCHANGED <<package, phase, dir, handled, log>>
  BY DEF NotAFile
<1>2. Top \in Frames
  BY <1>1, TopFacts DEF HInv
<1> DEFINE g == [Top EXCEPT !.pc = "leave"]
<1>3. calls' = SetTop(g)
  BY DEF NotAFile
<1>4. g.pc = "leave" /\ g.at = Top.at /\ g.base = Top.base /\ g.rels = Top.rels
  BY <1>2 DEF Frames
<1> HIDE DEF g
<1>5. \A r : ~(Wanted(r) /\ Current(Top, r, dir))
  BY <1>1 DEF Current, Wanted
<1> QED BY <1>1, <1>3, <1>4, <1>5, HandledLeaves

LEMMA HandledReadPartReturns == ASSUME HInv, ReadPartReturns, IInv' PROVE HInv'
<1>1. phase = "parts" /\ Top.pc = "leave" /\ UNCHANGED <<package, phase, dir, handled, log>>
  BY DEF ReadPartReturns
<1>2. Top \in Frames
  BY <1>1, TopFacts DEF HInv
<1> DEFINE g == [Top EXCEPT !.pc = "next"]
<1>3. calls' = SetTop(g)
  BY DEF ReadPartReturns
<1>4. g.pc = "next" /\ g.at = Top.at /\ g.base = Top.base /\ g.rels = Top.rels
  BY <1>2 DEF Frames
<1> HIDE DEF g
<1>5. \A r : ~Current(Top, r, dir)
  BY <1>1 DEF Current
<1> QED BY <1>1, <1>3, <1>4, <1>5, HandledLeaves

\* The target is a file that is skipped, has no handler, or is handled.
LEMMA HandledTarget ==
    ASSUME HInv, IInv', AtFile, phase' = "parts", package' = package, log' = log,
           handled \subseteq handled',
           calls' = SetTop([Top EXCEPT !.pc = "leave", !.path = Target]),
           Target \in handled' \/ Top.type \notin HandledTypes
    PROVE  HInv'
<1>1. phase = "parts"
  BY DEF AtFile
<1>2. Top \in Frames
  BY <1>1, TopFacts DEF HInv
<1> DEFINE g == [Top EXCEPT !.pc = "leave", !.path = Target]
<1>3. g.pc = "leave" /\ g.at = Top.at /\ g.base = Top.base /\ g.rels = Top.rels
  BY <1>2 DEF Frames
<1>4. calls' = SetTop(g)
  OBVIOUS
<1> HIDE DEF g
<1>5. ASSUME NEW r, Wanted(r), Current(Top, r, dir)
      PROVE  LeadsTo(Top.at, r) \in handled'
  <2>1. Target = LeadsTo(Top.at, r) /\ Top.type = r.type
    BY <1>5, CurrentTarget
  <2> QED BY <1>5, <2>1 DEF Wanted
<1> QED BY <1>1, <1>3, <1>4, <1>5, HandledLeaves

LEMMA HandledPartOrNone ==
    ASSUME HInv, IInv', SkipPart \/ PartNotHandled \/ PartPassedOver
    PROVE  HInv'
<1>1. AtFile /\ phase = "parts" /\ phase' = "parts" /\ package' = package /\ log' = log
  BY DEF SkipPart, PartNotHandled, PartPassedOver, AtFile
<1>2. /\ calls' = SetTop([Top EXCEPT !.pc = "leave", !.path = Target])
      /\ handled \subseteq handled' /\ (Target \in handled' \/ Top.type \notin HandledTypes)
  BY DEF SkipPart, PartNotHandled, PartPassedOver
<1> QED BY <1>1, <1>2, HandledTarget

\* A part that is parsed is a new entry.
LEMMA LogGrows ==
    ASSUME HInv, Parsing, Logged
    PROVE  LET e == [path |-> Target, type |-> Top.type, data |-> Top.data] IN
           /\ log' \in Seq(Entries) /\ Len(log') = Len(log) + 1 /\ log'[Len(log) + 1] = e
           /\ \A j \in 1 .. Len(log) : log'[j] = log[j]
           /\ Len(log) \in Nat /\ e \in Entries /\ e.path = Target /\ e.type = Top.type /\ e.data = Top.data
<1> DEFINE e == [path |-> Target, type |-> Top.type, data |-> Top.data]
<1>1. AtFile /\ phase = "parts"
  BY DEF Parsing, AtFile
<1>2. Target \in Path /\ Top \in Frames
  BY <1>1, TargetIsPath, TopFacts DEF HInv
<1>3. e \in Entries /\ e.path = Target /\ e.type = Top.type /\ e.data = Top.data
  BY <1>2 DEF Frames, Entries
<1>4. log' = Append(log, e) /\ log \in Seq(Entries)
  BY DEF Logged, HInv
<1> HIDE DEF e
<1>5. log' \in Seq(Entries) /\ Len(log') = Len(log) + 1
  BY <1>3, <1>4, AppendProperties
<1>6. log'[Len(log) + 1] = e
  BY <1>3, <1>4, AppendProperties
<1>7. \A i \in 1 .. Len(log) : log'[i] = log[i]
  BY <1>3, <1>4, AppendProperties
<1> QED BY <1>3, <1>4, <1>5, <1>6, <1>7, LenProperties DEF e

LEMMA HandledReadLeaf == ASSUME HInv, ReadLeaf, IInv' PROVE HInv'
<1>1. /\ Parsing /\ Logged /\ AtFile /\ phase = "parts" /\ phase' = "parts" /\ package' = package
      /\ Top.type \notin WithRelations
      /\ handled' = handled \cup {Target}
      /\ calls' = SetTop([Top EXCEPT !.pc = "leave", !.path = Target])
  BY DEF ReadLeaf, Parsing, AtFile
<1>2. Top \in Frames
  BY <1>1, TopFacts DEF HInv
<1> DEFINE g == [Top EXCEPT !.pc = "leave", !.path = Target]
           e == [path |-> Target, type |-> Top.type, data |-> Top.data]
<1>3. g.pc = "leave" /\ g.at = Top.at /\ g.base = Top.base /\ g.rels = Top.rels /\ calls' = SetTop(g)
  BY <1>1, <1>2 DEF Frames
<1> HIDE DEF g
<1>4. ASSUME NEW r, Wanted(r), Current(Top, r, dir)
      PROVE  LeadsTo(Top.at, r) \in handled'
  BY <1>1, <1>4, CurrentTarget
<1>5. g \in Frames
  BY <1>1, <1>3, NewTop DEF HInv
<1>6. LoopOK(package, g, dir', handled')
  <2>1. LoopOK(package, Top, dir, handled)
    BY <1>1, LoopOfTop
  <2> QED BY <1>1, <1>2, <1>3, <1>4, <1>5, <2>1, LoopLeaves
<1>7. /\ LoopsOK(package, calls', dir', handled')
      /\ \A j \in 1 .. Len(log) : EntryOK(package, calls', handled', log[j])
  BY <1>1, <1>3, <1>5, <1>6, LoopMoves
<1>8. /\ log' \in Seq(Entries) /\ Len(log') = Len(log) + 1 /\ log'[Len(log) + 1] = e
      /\ e.type = Top.type /\ Len(log) \in Nat
      /\ \A j \in 1 .. Len(log) : log'[j] = log[j]
  BY <1>1, LogGrows
<1>9. EntryOK(package, calls', handled', e)
  BY <1>1, <1>8 DEF EntryOK
<1> HIDE DEF e
<1>10. \A j \in 1 .. Len(log') : EntryOK(package', calls', handled', log'[j])
  <2> SUFFICES ASSUME NEW j \in 1 .. Len(log) + 1
               PROVE  EntryOK(package, calls', handled', log'[j])
    BY <1>1, <1>8
  <2>1. j = Len(log) + 1 \/ j \in 1 .. Len(log)
    BY <1>8
  <2> QED BY <1>7, <1>8, <1>9, <2>1
<1>11. LoopsOK(package', calls', dir', handled')
  BY <1>1, <1>7
<1> QED BY <1>1, <1>8, <1>10, <1>11 DEF HInv

\* Sorting loses no relation.
LEMMA SortedRange ==
    ASSUME NEW rels \in Seq(Relation), NEW type, NEW out \in OrdersFor(type, rels)
    PROVE  Range(out) = Range(rels)
<1>1. ASSUME out \in Sorted(rels)
      PROVE  Range(out) = Range(rels)
  <2>1. PICK f \in Bijection(DOMAIN rels, DOMAIN rels) : out = [i \in DOMAIN rels |-> rels[f[i]]]
    BY <1>1 DEF Sorted
  <2>2. f \in [DOMAIN rels -> DOMAIN rels] /\ \A j \in DOMAIN rels : \E i \in DOMAIN rels : f[i] = j
    BY <2>1 DEF Bijection, Injection, Surjection
  <2> QED BY <2>1, <2>2 DEF Range
<1> QED BY <1>1 DEF OrdersFor, WorkbookOrders

\* The loop of a part with relations starts.
LEMMA LoopStarts ==
    ASSUME HInv, ReadWithRelations, AbsoluteTargetsAreLeaves(package)
    PROVE  \E rels \in OrdersFor(Top.type, package.parts[Target].rels) :
             LET g == [Top EXCEPT !.pc = "within", !.path = Target]
                 h == Frame(Target, rels,
                            ExtrasFor(Top.type, package.parts[Target].extras), dir) IN
             /\ calls' = Append(SetTop(g), h) /\ g \in Frames /\ h \in Frames
             /\ Len(calls') = Len(calls) + 1
             /\ calls'[Len(calls) + 1] = h /\ calls'[Len(calls)] = g
             /\ \A k \in 1 .. Len(calls) : k # Len(calls) => calls'[k] = calls[k] /\ calls[k].pc = "within"
             /\ LoopOK(package, g, dir, handled) /\ LoopOK(package, h, dir, handled)
             /\ Target \in DOMAIN package.parts /\ Target # <<>> /\ SlashFree(Home(Target))
<1>1. /\ Parsing /\ AtFile /\ phase = "parts" /\ Top.type \in WithRelations
      /\ Target \in DOMAIN package.parts
  BY DEF ReadWithRelations, Parsing, Parses, AtFile
<1>2. /\ Top \in Frames /\ dir \in Path /\ Rooted(dir) /\ package \in Packages /\ Target \in Path
  BY <1>1, TopFacts, TargetIsPath DEF HInv, IInv
<1> DEFINE part == package.parts[Target]
           x == ExtrasFor(Top.type, part.extras)
           g == [Top EXCEPT !.pc = "within", !.path = Target]
<1>3. part.rels \in Seq(Relation) /\ part.extras \in Extra /\ x \in Extra
  BY <1>1, <1>2, PackageFacts, NoExtras DEF ExtrasFor
<1>4. PICK rels \in OrdersFor(Top.type, part.rels) :
         calls' = Append(SetTop(g), Frame(Target, rels, x, dir))
  BY DEF ReadWithRelations
<1> DEFINE h == Frame(Target, rels, x, dir)
<1>5. rels \in Seq(Relation) /\ Range(rels) = Range(part.rels)
  BY <1>3, <1>4, SortedTyped, SortedRange
<1> HIDE DEF x
<1>6. h \in Frames /\ h.pc = "next" /\ h.base = dir /\ h.at = Target
  BY <1>2, <1>3, <1>5, FrameTyped
<1>7. h.rels = rels
  BY DEF Frame
<1>8. /\ g \in Frames /\ g.pc = "within" /\ g.path = Target /\ g.at = Top.at /\ g.base = Top.base
      /\ g.rels = Top.rels /\ g.extras = Top.extras /\ g.type = Top.type /\ g.name = Top.name
      /\ g.data = Top.data
  BY <1>2 DEF Frames
<1> HIDE DEF g, h
<1>9. LoopOK(package, Top, dir, handled) /\ Top.pc = "enter"
  BY <1>1, LoopOfTop DEF AtFile
<1>10. \A r : Current(Top, r, dir) => Current(g, r, dir)
  <2> SUFFICES ASSUME NEW r, Current(Top, r, dir) PROVE Current(g, r, dir)
    OBVIOUS
  <2>1. Target = LeadsTo(Top.at, r)
    BY <1>1, CurrentTarget
  <2> QED BY <1>8, <2>1 DEF Current
<1>11. LoopOK(package, g, dir, handled)
  BY <1>8, <1>9, <1>10 DEF LoopOK
\* The relation that leads here is not absolute.
<1>12. SlashFree(dir)
  <2>1. PICK r \in RelationsOf(package, Top.at) : Current(Top, r, dir)
    BY <1>9 DEF LoopOK
  <2>2. Top.at \in Sources(package) /\ r.type \in WithRelations
    BY <1>1, <1>9, <2>1 DEF LoopOK, Current
  <2> QED BY <1>9, <2>1, <2>2 DEF AbsoluteTargetsAreLeaves, Current
<1>13. Home(Target) = Tail(dir) /\ SlashFree(Home(Target)) /\ Target # <<>>
  <2>1. Top.name \in Texts
    BY <1>2 DEF Frames
  <2> QED BY <1>2, <1>12, <2>1, PathAtDirectory DEF Target
<1>14. LoopOK(package, h, dir, handled)
  <2>1. RelationsOf(package, Target) = Range(rels)
    BY <1>5, <1>13 DEF RelationsOf
  <2>2. Target \in Sources(package)
    BY <1>1 DEF Sources
  <2> QED BY <1>6, <1>7, <1>12, <1>13, <2>1, <2>2 DEF LoopOK
<1>15. PICK n \in Nat : n = Len(calls) /\ n > 0
  BY <1>1, TopFacts DEF HInv
<1> DEFINE mid == SetTop(g)
<1>16. /\ mid \in Seq(Frames) /\ Len(mid) = n /\ mid[n] = g
       /\ \A k \in 1 .. n : k # n => mid[k] = calls[k] /\ calls[k].pc = "within"
  BY <1>1, <1>8, <1>15, TopReplaced DEF HInv
<1> HIDE DEF mid
<1>17. calls' = Append(mid, h)
  BY <1>4 DEF h, mid
<1>18. Len(calls') = n + 1 /\ calls'[n + 1] = h /\ \A k \in 1 .. n : calls'[k] = mid[k]
  BY <1>6, <1>16, <1>17, Appended
<1>19. calls'[n] = g /\ \A k \in 1 .. n : k # n => calls'[k] = calls[k] /\ calls[k].pc = "within"
  BY <1>15, <1>16, <1>18
<1>20. calls' = Append(SetTop(g), h)
  BY <1>17 DEF mid
<1> QED BY <1>1, <1>4, <1>6, <1>8, <1>11, <1>13, <1>14, <1>15, <1>18, <1>19, <1>20 DEF g, h, x

LEMMA HandledReadWithRelations ==
    ASSUME HInv, ReadWithRelations, AbsoluteTargetsAreLeaves(package), IInv'
    PROVE  HInv'
<1>1. /\ Parsing /\ Logged /\ AtFile /\ phase = "parts"
      /\ UNCHANGED <<package, phase, dir, handled>>
  BY DEF ReadWithRelations, Parsing, AtFile
<1> DEFINE e == [path |-> Target, type |-> Top.type, data |-> Top.data]
<1>2. PICK g \in Frames, h \in Frames :
        /\ Len(calls') = Len(calls) + 1
        /\ calls'[Len(calls) + 1] = h /\ calls'[Len(calls)] = g
        /\ \A k \in 1 .. Len(calls) : k # Len(calls) => calls'[k] = calls[k] /\ calls[k].pc = "within"
        /\ LoopOK(package, g, dir, handled) /\ LoopOK(package, h, dir, handled)
        /\ Target \in DOMAIN package.parts /\ Target # <<>> /\ SlashFree(Home(Target))
        /\ h.at = Target /\ g.at = Top.at
  <2>1. Top \in Frames
    BY <1>1, TopFacts DEF HInv
  <2>2. [Top EXCEPT !.pc = "within", !.path = Target].at = Top.at
    BY <2>1 DEF Frames
  <2>3. \A rels, x : Frame(Target, rels, x, dir).at = Target
    BY DEF Frame
  <2> DEFINE g == [Top EXCEPT !.pc = "within", !.path = Target]
             h(rels) == Frame(Target, rels, ExtrasFor(Top.type, package.parts[Target].extras), dir)
  <2>4. PICK rels \in OrdersFor(Top.type, package.parts[Target].rels) :
          /\ g \in Frames /\ h(rels) \in Frames
          /\ Len(calls') = Len(calls) + 1
          /\ calls'[Len(calls) + 1] = h(rels) /\ calls'[Len(calls)] = g
          /\ \A k \in 1 .. Len(calls) : k # Len(calls) => calls'[k] = calls[k] /\ calls[k].pc = "within"
          /\ LoopOK(package, g, dir, handled) /\ LoopOK(package, h(rels), dir, handled)
          /\ Target \in DOMAIN package.parts /\ Target # <<>> /\ SlashFree(Home(Target))
    BY LoopStarts
  <2>5. h(rels).at = Target /\ g.at = Top.at
    BY <2>2, <2>3
  <2> HIDE DEF g, h
  <2> QED BY <2>4, <2>5
<1>3. PICK n \in Nat : n = Len(calls) /\ n > 0 /\ Top = calls[n]
  BY <1>1, TopFacts DEF HInv
<1>4. LoopsOK(package, calls', dir, handled)
  <2> SUFFICES ASSUME NEW k \in 1 .. n + 1 PROVE LoopOK(package, calls'[k], dir, handled)
    BY <1>2, <1>3 DEF LoopsOK
  <2>1. CASE k = n + 1 \/ k = n
    BY <1>2, <1>3, <2>1
  <2>2. CASE k \in 1 .. n /\ k # n
    <3>1. calls'[k] = calls[k] /\ LoopOK(package, calls[k], dir, handled)
      BY <1>1, <1>2, <1>3, <2>2 DEF HInv, LoopsOK
    <3> QED BY <3>1
  <2> QED BY <1>3, <2>1, <2>2
<1>5. \A k \in 2 .. Len(calls) : k \in 2 .. Len(calls') /\ calls'[k].at = calls[k].at
  BY <1>2, <1>3
<1>6. \A j \in 1 .. Len(log) : EntryOK(package, calls', handled, log[j])
  <2> SUFFICES ASSUME NEW j \in 1 .. Len(log) PROVE EntryOK(package, calls', handled, log[j])
    OBVIOUS
  <2>1. EntryOK(package, calls, handled, log[j])
    BY <1>1 DEF HInv
  <2>2. \A k \in 2 .. Len(calls) : calls[k].at = log[j].path => calls'[k].at = log[j].path
    BY <1>5
  <2> QED BY <1>5, <2>1, <2>2, EntryStays
<1>7. /\ log' \in Seq(Entries) /\ Len(log') = Len(log) + 1 /\ log'[Len(log) + 1] = e
      /\ e.path = Target /\ Len(log) \in Nat
      /\ \A j \in 1 .. Len(log) : log'[j] = log[j]
  BY <1>1, LogGrows
<1> HIDE DEF e
<1>8. EntryOK(package, calls', handled, e)
  <2>1. n + 1 \in 2 .. Len(calls') /\ calls'[n + 1].at = Target
    BY <1>2, <1>3
  <2> QED BY <1>2, <1>7, <2>1 DEF EntryOK
<1>9. \A j \in 1 .. Len(log') : EntryOK(package', calls', handled', log'[j])
  <2> SUFFICES ASSUME NEW j \in 1 .. Len(log) + 1
               PROVE  EntryOK(package, calls', handled, log'[j])
    BY <1>1, <1>7
  <2>1. j = Len(log) + 1 \/ j \in 1 .. Len(log)
    BY <1>7
  <2> QED BY <1>6, <1>7, <1>8, <2>1
<1>10. LoopsOK(package', calls', dir', handled')
  BY <1>1, <1>4
<1> QED BY <1>1, <1>7, <1>9, <1>10 DEF HInv

\* The loop of a part ends: the frame below records the part.
LEMMA LoopEnds ==
    ASSUME IInv, PartIsHandled
    PROVE  LET n == Len(calls) - 1 IN
           /\ n \in Nat /\ n > 0 /\ Len(calls') = n /\ calls'[n] = [calls[n] EXCEPT !.pc = "leave"]
           /\ calls[n] \in Frames /\ calls'[n] \in Frames
           /\ \A k \in 1 .. n : calls[k].pc = "within" /\ (k # n => calls'[k] = calls[k])
           /\ handled' = handled \cup {calls[n].path}
           /\ calls[n + 1] = Top /\ Top.pc = "next" /\ Top.rels = <<>>
<1>1. phase = "parts" /\ Len(calls) > 1 /\ Top.pc = "next" /\ Top.rels = <<>>
  BY DEF PartIsHandled
<1>2. calls \in Seq(Frames)
  BY DEF IInv, CallsOK
<1>3. PICK n \in Nat : n = Len(calls) - 1 /\ n > 0 /\ Len(calls) = n + 1
  BY <1>1, <1>2, LenProperties
<1> DEFINE sub == SubSeq(calls, 1, n)
           g == [calls[n] EXCEPT !.pc = "leave"]
<1>4. calls' = [sub EXCEPT ![n] = g] /\ handled' = handled \cup {calls[n].path}
  BY <1>3 DEF PartIsHandled, Recorded
<1>5. sub \in Seq(Frames) /\ Len(sub) = n /\ \A j \in 1 .. n : sub[j] = calls[j]
  BY <1>2, <1>3, SubSeqProperties, ElementOfSeq
<1>6. calls[n] \in Frames /\ g \in Frames
  <2>1. calls[n] \in Frames
    BY <1>2, <1>3, ElementOfSeq
  <2> QED BY <2>1 DEF Frames
<1> HIDE DEF sub
<1>7. Len(calls') = n /\ \A j \in 1 .. n : calls'[j] = IF j = n THEN g ELSE sub[j]
  <2> HIDE DEF g
  <2> QED BY <1>3, <1>4, <1>5, <1>6, ExceptSeq
<1>8. \A k \in 1 .. n : calls[k].pc = "within"
  BY <1>3 DEF IInv, CallsOK, FrameOK
<1>9. calls[n + 1] = Top
  BY <1>3 DEF Top
<1>10. calls'[n] = g /\ \A k \in 1 .. n : k # n => calls'[k] = calls[k]
  <2> HIDE DEF g
  <2>1. n \in 1 .. n
    BY <1>3
  <2>2. calls'[n] = g
    BY ONLY <1>7, <2>1
  <2>3. ASSUME NEW k \in 1 .. n, k # n PROVE calls'[k] = calls[k]
    BY ONLY <1>5, <1>7, <2>3
  <2> QED BY <2>2, <2>3
<1>11. calls'[n] = [calls[n] EXCEPT !.pc = "leave"] /\ calls'[n] \in Frames
  BY <1>6, <1>10
<1> HIDE DEF g
<1> QED BY <1>1, <1>3, <1>4, <1>6, <1>7, <1>8, <1>9, <1>10, <1>11

LEMMA HandledPartIsHandled == ASSUME HInv, PartIsHandled, IInv' PROVE HInv'
<1>1. phase = "parts" /\ UNCHANGED <<package, phase, dir, log>>
  BY DEF PartIsHandled
<1>2. PICK n \in Nat :
        /\ n = Len(calls) - 1 /\ n > 0 /\ Len(calls') = n
        /\ calls'[n] = [calls[n] EXCEPT !.pc = "leave"]
        /\ calls[n] \in Frames /\ calls'[n] \in Frames
        /\ \A k \in 1 .. n : calls[k].pc = "within" /\ (k # n => calls'[k] = calls[k])
        /\ handled' = handled \cup {calls[n].path}
        /\ calls[n + 1] = Top /\ Top.pc = "next" /\ Top.rels = <<>>
  BY LoopEnds DEF HInv
<1>3. Len(calls) = n + 1
  BY <1>1, <1>2, TopFacts DEF HInv
<1> DEFINE g == calls'[n]
<1>4. g.at = calls[n].at /\ g.base = calls[n].base /\ g.rels = calls[n].rels /\ g.pc = "leave"
  BY <1>2 DEF Frames
<1> HIDE DEF g
<1>5. \A k \in 1 .. n + 1 : LoopOK(package, calls[k], dir, handled)
  BY <1>1, <1>3 DEF HInv, LoopsOK
<1>6. LoopOK(package, g, dir, handled')
  <2>1. ASSUME NEW r, Current(calls[n], r, dir)
        PROVE  LeadsTo(calls[n].at, r) \in handled'
    BY <1>2, <2>1 DEF Current
  <2>2. LoopOK(package, calls[n], dir, handled) /\ g \in Frames
    BY <1>2, <1>5 DEF g
  <2> QED BY <1>2, <1>4, <2>1, <2>2, LoopLeaves
<1>7. LoopsOK(package, calls', dir, handled')
  <2> SUFFICES ASSUME NEW k \in 1 .. n PROVE LoopOK(package, calls'[k], dir, handled')
    BY <1>2 DEF LoopsOK
  <2>1. CASE k = n
    BY <1>6, <2>1 DEF g
  <2>2. CASE k # n
    <3>1. calls'[k] = calls[k] /\ calls[k].pc = "within" /\ LoopOK(package, calls[k], dir, handled)
      BY <1>2, <1>5, <2>2
    <3> QED BY <1>2, <3>1, WaitingLoop
  <2> QED BY <2>1, <2>2
\* All relations of the part whose loop has ended are handled.
<1>8. AllHandled(package, Top.at, handled)
  <2>1. LoopOK(package, Top, dir, handled)
    BY <1>1, LoopOfTop
  <2>2. Range(Top.rels) = {}
    <3>1. DOMAIN <<>> = {}
      BY EmptySeq, LenProperties
    <3> QED BY <1>2, <3>1 DEF Range
  <2>3. \A r : ~Current(Top, r, dir)
    BY <1>2 DEF Current
  <2> QED BY <2>1, <2>2, <2>3 DEF LoopOK, AllHandled
<1>9. \A j \in 1 .. Len(log) : EntryOK(package, calls', handled', log[j])
  <2> SUFFICES ASSUME NEW j \in 1 .. Len(log) PROVE EntryOK(package, calls', handled', log[j])
    OBVIOUS
  <2>1. EntryOK(package, calls, handled, log[j]) /\ handled \subseteq handled'
    BY <1>1, <1>2 DEF HInv
  <2>2. CASE Top.at = log[j].path
    <3>1. AllHandled(package, log[j].path, handled')
      BY <1>8, <2>1, <2>2 DEF AllHandled
    <3> QED BY <2>1, <3>1, EntryStays
  <2>3. CASE Top.at # log[j].path
    <3>1. ASSUME NEW k \in 2 .. Len(calls), calls[k].at = log[j].path
          PROVE  k \in 2 .. Len(calls') /\ calls'[k].at = log[j].path
      <4>1. k \in 2 .. n
        BY <1>2, <1>3, <2>3, <3>1
      <4>2. CASE k = n
        BY <1>2, <1>4, <3>1, <4>1, <4>2 DEF g
      <4>3. CASE k # n
        BY <1>2, <3>1, <4>1, <4>3
      <4> QED BY <4>2, <4>3
    <3> QED BY <2>1, <3>1, EntryStays
  <2> QED BY <2>2, <2>3
<1>10. LoopsOK(package', calls', dir', handled')
  BY <1>1, <1>7
<1>11. \A j \in 1 .. Len(log') : EntryOK(package', calls', handled', log'[j])
  BY <1>1, <1>9
<1> QED BY <1>1, <1>10, <1>11 DEF HInv

\* No loop is left when the package is read.
LEMMA HandledPackageIsRead == ASSUME HInv, PackageIsRead, IInv' PROVE HInv'
<1>1. phase = "parts" /\ phase' = "formulas" /\ calls' = <<>> /\ Len(calls) = 1
      /\ UNCHANGED <<package, dir, handled, log>>
  BY DEF PackageIsRead
<1>2. \A j \in 1 .. Len(log) : EntryOK(package, calls', handled, log[j])
  <2> SUFFICES ASSUME NEW j \in 1 .. Len(log) PROVE EntryOK(package, calls', handled, log[j])
    OBVIOUS
  <2>1. EntryOK(package, calls, handled, log[j])
    BY <1>1 DEF HInv
  <2>2. \A k \in 2 .. Len(calls) : FALSE
    BY <1>1
  <2> QED BY <2>1, <2>2, EntryStays
<1>3. \A j \in 1 .. Len(log') : EntryOK(package', calls', handled', log'[j])
  BY <1>1, <1>2
<1> QED BY <1>1, <1>3 DEF HInv

LEMMA HandledExhausted == ASSUME HInv, StackIsExhausted, IInv' PROVE HInv'
<1>1. phase' = "exhausted" /\ log' = log
  BY DEF StackIsExhausted
<1> QED BY <1>1 DEF HInv

LEMMA HandledThrow == ASSUME HInv, Throw, IInv' PROVE HInv'
<1>1. Parsing /\ phase' = "thrown"
  BY DEF Throw
<1>2. log' \in Seq(Entries)
  <2>1. CASE log' = log
    BY <2>1 DEF HInv
  <2>2. CASE Logged
    BY <1>1, <2>2, LogGrows
  <2> QED BY <2>1, <2>2 DEF Throw
<1> QED BY <1>1, <1>2 DEF HInv

LEMMA HandledRest ==
    ASSUME HInv, Finalize \/ UNCHANGED vars, IInv'
    PROVE  HInv'
<1>1. CASE Finalize
  BY <1>1 DEF Finalize, HInv
<1>2. CASE UNCHANGED vars
  BY <1>2 DEF vars, HInv
<1> QED BY <1>1, <1>2

LEMMA HandledNext ==
    ASSUME HInv, AbsoluteTargetsAreLeaves(package), [Next]_vars
    PROVE  HInv'
<1>1. IInv'
  BY NextOK DEF HInv
<1> QED BY <1>1, HandledReadFile, HandledNextRelation, HandledChangeDirectory,
     HandledUndoChange, HandledNotAFile, HandledReadPartReturns, HandledPartOrNone,
     HandledReadLeaf, HandledReadWithRelations, HandledPartIsHandled, HandledPackageIsRead,
     HandledExhausted, HandledThrow, HandledRest DEF Next

\* The package is the same throughout.
LEMMA PackageStays == [Next]_vars => package' = package
  BY DEF Next, vars, ReadFile, NextRelation, ChangeDirectory, UndoChange, NotAFile,
     ReadPartReturns, SkipPart, PartNotHandled, PartPassedOver, ReadLeaf, ReadWithRelations,
     StackIsExhausted, Throw, PartIsHandled, PackageIsRead, Finalize

LEMMA HandledInit == Init => HInv
<1> SUFFICES ASSUME Init PROVE HInv
  OBVIOUS
<1>1. log = <<>> /\ log \in Seq(Entries) /\ Len(<<>>) = 0 /\ phase = "idle"
  BY EmptySeq DEF Init
<1> QED BY <1>1, InitOK DEF HInv

\* A relative target without an empty segment on its way leads where the rules
\* of paths say.
LEMMA LedStaysSlashFree ==
    ASSUME NEW d \in Path, SlashFree(d), NEW dirs \in Seq(Dirs), SlashFree(dirs)
    PROVE  Led(d, dirs) \in Path /\ SlashFree(Led(d, dirs))
<1> DEFINE w == Way(d, dirs)
           T == {n \in Nat : n <= Len(dirs) => w[n] \in Path /\ SlashFree(w[n])}
<1>1. IsWay(w, d, dirs) /\ Len(dirs) \in Nat
  BY WayExists, LenProperties
<1> HIDE DEF w
<1>2. \A n \in 0 .. Len(dirs) : w[n] = IF n = 0 THEN d ELSE Stepped(w[n - 1], dirs[n])
  <2>1. w = [n \in 0 .. Len(dirs) |-> IF n = 0 THEN d ELSE Stepped(w[n - 1], dirs[n])]
    BY <1>1 DEF IsWay
  <2> QED BY ONLY <2>1
<1>3. 0 \in T
  BY <1>1, <1>2
<1>4. ASSUME NEW n \in T
      PROVE  n + 1 \in T
  <2> SUFFICES ASSUME n + 1 <= Len(dirs) PROVE w[n + 1] \in Path /\ SlashFree(w[n + 1])
    BY <1>4
  <2>1. n \in Nat /\ n + 1 \in 0 .. Len(dirs) /\ n + 1 \in 1 .. Len(dirs) /\ (n + 1) - 1 = n /\ n + 1 # 0
    BY <1>1, <1>4
  <2>2. w[n + 1] = Stepped(w[n], dirs[n + 1])
    BY <1>2, <2>1
  <2>3. dirs[n + 1] \in Dirs /\ dirs[n + 1] # Slash
    BY <2>1, ElementOfSeq DEF SlashFree
  <2>4. w[n] \in Path /\ SlashFree(w[n])
    BY <1>1, <1>4, <2>1
  <2>5. \A e \in Path, seg \in Dirs :
          Append(e, seg) \in Path /\ (e # <<>> => SubSeq(e, 1, Len(e) - 1) \in Path)
    BY Shortened, AppendProperties DEF Path, Dirs
  <2>6. Stepped(w[n], dirs[n + 1]) \in Path /\ SlashFree(Stepped(w[n], dirs[n + 1]))
    <3> DEFINE e == w[n]
               seg == dirs[n + 1]
    <3>1. e \in Path /\ SlashFree(e) /\ seg \in Dirs /\ seg # Slash
      BY <2>3, <2>4
    <3> HIDE DEF e, seg
    <3> QED BY <2>5, <3>1, SlashFreeSteps DEF Stepped, e, seg
  <2> QED BY <2>2, <2>6
<1>5. Len(dirs) \in T
  <2> HIDE DEF T
  <2>1. T \in SUBSET Nat
    BY DEF T
  <2> QED BY <1>1, <1>3, <1>4, <2>1, NatSetInduction
<1> QED BY <1>1, <1>5 DEF Led, w

\* Below the root entry there is the directory.
LEMMA BelowTheRoot ==
    ASSUME NEW d \in Path, SlashFree(d), NEW name
    PROVE  FullPath(<<Empty>> \o d, name) = Append(d, name)
<1> DEFINE u == <<Empty>>
           c == u \o d
<1>1. u \in Seq(Texts) /\ Len(u) = 1 /\ d \in Seq(Texts) /\ Len(d) \in Nat
  BY TextAssumption, LenProperties DEF Path
<1> HIDE DEF u
<1>2. /\ c \in Seq(Texts) /\ Len(c) = 1 + Len(d)
      /\ \A i \in 1 .. 1 + Len(d) : c[i] = IF i <= 1 THEN u[i] ELSE d[i - 1]
  <2>1. c \in Seq(Texts) /\ Len(c) = Len(u) + Len(d)
    BY <1>1, ConcatProperties
  <2>2. \A i \in 1 .. Len(u) + Len(d) : c[i] = IF i <= Len(u) THEN u[i] ELSE d[i - Len(u)]
    BY <1>1, ConcatProperties
  <2> HIDE DEF c
  <2> QED BY <1>1, <2>1, <2>2
<1> HIDE DEF c
<1>3. c # <<>>
  BY <1>1, <1>2, EmptySeq
<1> DEFINE t == Tail(c)
<1>4. t \in Seq(Texts) /\ Len(t) = Len(c) - 1 /\ \A i \in 1 .. Len(c) - 1 : t[i] = c[i + 1]
  BY <1>2, <1>3, HeadAndTail
<1> HIDE DEF t
<1>5. PICK n \in Nat : n = Len(d) /\ Len(c) = n + 1
  BY <1>1, <1>2
<1>6. Len(t) = n
  BY <1>4, <1>5
<1>7. \A i \in 1 .. n : t[i] = d[i]
  <2> SUFFICES ASSUME NEW i \in 1 .. n PROVE t[i] = d[i]
    OBVIOUS
  <2>1. i + 1 \in 1 .. 1 + n /\ ~(i + 1 <= 1) /\ (i + 1) - 1 = i /\ i \in 1 .. Len(c) - 1
    BY <1>5
  <2>2. t[i] = c[i + 1]
    BY <1>4, <2>1
  <2>3. c[i + 1] = d[(i + 1) - 1]
    BY <1>2, <1>5, <2>1
  <2> QED BY <2>1, <2>2, <2>3
<1>8. t = d
  BY <1>1, <1>4, <1>5, <1>6, <1>7, SeqEqual
<1>9. ~\E i \in 3 .. Len(c) : c[i] = Slash
  <2> SUFFICES ASSUME NEW i \in 3 .. n + 1 PROVE c[i] # Slash
    BY <1>5
  <2>1. i \in 1 .. 1 + n /\ ~(i <= 1) /\ i - 1 \in 1 .. n
    BY <1>5
  <2>2. c[i] = d[i - 1] /\ d[i - 1] # Slash
    BY <1>2, <1>5, <2>1 DEF SlashFree
  <2> QED BY <2>2
<1>10. FullPath(c, name) = Append(t, name)
  BY <1>9 DEF FullPath, t
<1> QED BY <1>8, <1>10 DEF c, u

LEMMA LeadsWhereResolved ==
    ASSUME NEW at \in Path, SlashFree(Home(at)), NEW r \in Relation, IsRelative(r)
    PROVE  LeadsTo(at, r) = Resolve(at, r)
<1>1. Home(at) \in Path
  <2>1. CASE at = <<>>
    BY <2>1, EmptySeq DEF Home, Path
  <2>2. CASE at # <<>>
    BY <2>2, Shortened DEF Home, Path
  <2> QED BY <2>1, <2>2
<1>2. r.dirs \in Seq(Dirs) /\ r.name \in Texts
  BY DEF Relation
<1>3. SlashFree(r.dirs)
  <2>1. DOMAIN r.dirs = 1 .. Len(r.dirs)
    BY <1>2, LenProperties
  <2> QED BY <2>1 DEF IsRelative, SlashFree
<1>4. Led(Home(at), r.dirs) \in Path /\ SlashFree(Led(Home(at), r.dirs))
  BY <1>1, <1>2, <1>3, LedStaysSlashFree
<1>5. FullPath(<<Empty>> \o Led(Home(at), r.dirs), r.name) = Append(Led(Home(at), r.dirs), r.name)
  BY <1>4, BelowTheRoot
<1> QED BY <1>5 DEF LeadsTo, Resolve

LEMMA RelationsTyped ==
    ASSUME IInv, NEW at \in Sources(package)
    PROVE  RelationsOf(package, at) \subseteq Relation /\ at \in Path
<1>1. package \in Packages
  BY DEF IInv
<1>2. package.root \in Seq(Relation) /\ \A p \in DOMAIN package.parts : package.parts[p].rels \in Seq(Relation)
  BY <1>1, PackageFacts
<1>3. at # <<>> => at \in DOMAIN package.parts
  BY DEF Sources
<1>4. \A s \in Seq(Relation) : Range(s) \subseteq Relation
  <2> SUFFICES ASSUME NEW s \in Seq(Relation), NEW x \in Range(s) PROVE x \in Relation
    OBVIOUS
  <2>1. DOMAIN s = 1 .. Len(s)
    BY LenProperties
  <2>2. PICK i \in 1 .. Len(s) : x = s[i]
    BY <2>1 DEF Range
  <2> QED BY <2>2, ElementOfSeq
<1>5. DOMAIN package.parts \subseteq Path /\ <<>> \in Path
  BY <1>1, PackageAssumption, EmptySeq DEF Path
<1> QED BY <1>2, <1>3, <1>4, <1>5 DEF RelationsOf

\* What the invariant says when the import has ended.
LEMMA AllAreHandled ==
    ASSUME HInv, phase = "done", NEW i \in DOMAIN log, log[i].type \in WithRelations,
           NEW r \in RelationsOf(package, log[i].path), Wanted(r)
    PROVE  /\ LeadsTo(log[i].path, r) \in handled
           /\ log[i].path \in DOMAIN package.parts /\ log[i].path # <<>>
           /\ IsRelative(r) => LeadsTo(log[i].path, r) = Resolve(log[i].path, r)
<1>1. i \in 1 .. Len(log)
  BY LenProperties DEF HInv
<1>2. calls = <<>>
  BY DEF HInv, IInv
<1>3. Len(<<>>) = 0
  BY EmptySeq
<1>4. \A k \in 2 .. Len(calls) : FALSE
  BY <1>2, <1>3
<1>5. EntryOK(package, calls, handled, log[i])
  BY <1>1 DEF HInv
<1>6. /\ log[i].path \in DOMAIN package.parts /\ log[i].path # <<>> /\ SlashFree(Home(log[i].path))
      /\ AllHandled(package, log[i].path, handled)
  BY <1>4, <1>5 DEF EntryOK
<1>7. log[i].path \in Sources(package)
  BY <1>6 DEF Sources
<1>8. r \in Relation /\ log[i].path \in Path
  BY <1>7, RelationsTyped DEF HInv
<1> QED BY <1>6, <1>8, LeadsWhereResolved DEF AllHandled

LEMMA InvHandles == HInv => EveryRelatedPartIsHandled
<1> SUFFICES ASSUME HInv, phase = "done", NEW i \in DOMAIN log, log[i].type \in WithRelations,
                    NEW rel \in Range(package.parts[log[i].path].rels),
                    rel.name # Empty, rel.type \in HandledTypes, IsRelative(rel)
             PROVE  Resolve(log[i].path, rel) \in handled
  BY DEF EveryRelatedPartIsHandled
<1>1. i \in 1 .. Len(log) /\ log[i].path # <<>>
  <2>1. i \in 1 .. Len(log)
    BY LenProperties DEF HInv
  <2> QED BY <2>1 DEF HInv, EntryOK
<1>2. rel \in RelationsOf(package, log[i].path) /\ Wanted(rel)
  BY <1>1 DEF RelationsOf, Wanted
<1> QED BY <1>2, AllAreHandled

\* However deep the relations of a package go and in whatever order they come,
\* the walks back of read_part, the loops that check_relation_part runs inside
\* of each other and m_handled_parts together lose none of them: only the parts
\* that relations are followed from must not be found by an absolute target.
THEOREM NoRelationIsLost ==
    Spec => [](AbsoluteTargetsAreLeaves(package) => EveryRelatedPartIsHandled)
<1> DEFINE Good == AbsoluteTargetsAreLeaves(package)
           Inv == Good => HInv
<1>1. Init => Inv
  BY HandledInit
<1>2. Inv /\ [Next]_vars => Inv'
  <2> SUFFICES ASSUME Inv, [Next]_vars, Good' PROVE HInv'
    OBVIOUS
  <2>1. Good
    BY PackageStays
  <2> QED BY <2>1, HandledNext
<1>3. Inv => (Good => EveryRelatedPartIsHandled)
  BY InvHandles
<1> QED BY <1>1, <1>2, <1>3, PTL DEF Spec

----------------------------------------------------------------------------
(* Data reaches its part, and strings and caches come before the sheets.    *)
(* The loops that run inside of each other follow the kinds of their parts; *)
(* so the loop of the workbook is the second, a pivot table is read inside  *)
(* of a sheet, and what the sort of the workbook has put before the sheets  *)
(* is behind it by then.                                                   *)

KindAt(cs, k) == IF k = 1 THEN "package" ELSE cs[k - 1].type

\* Each loop belongs to the part that the frame below it is in, which is in
\* the log, and has the data of that part.
LinkOK(pkg, cs, lg, k) ==
    IF k = 1 THEN cs[k].at = <<>>
    ELSE /\ cs[k].at = cs[k - 1].path /\ cs[k].at \in DOMAIN pkg.parts /\ cs[k].at # <<>>
         /\ cs[k - 1].type \in WithRelations /\ cs[k - 1].name # Empty
         /\ cs[k].extras = ExtrasFor(cs[k - 1].type, pkg.parts[cs[k].at].extras)
         /\ \E j \in 1 .. Len(lg) : lg[j].path = cs[k].at

Rank(f, i) == SchemaRank(f.rels[i].type)
RanksUp(f) ==
    /\ \A i, j \in 1 .. Len(f.rels) : i <= j => Rank(f, i) <= Rank(f, j)
    /\ f.pc \in {"enter", "within"} => \A i \in 1 .. Len(f.rels) : SchemaRank(f.type) <= Rank(f, i)
\* Of the workbook only sheets and what follows them are left.
Late(f) ==
    /\ \A i \in 1 .. Len(f.rels) : Rank(f, i) >= 2
    /\ f.pc \in {"enter", "within"} => SchemaRank(f.type) >= 2

ChainOK(pkg, cs, lg) ==
    \A k \in 1 .. Len(cs) :
        /\ LinkOK(pkg, cs, lg, k)
        /\ KindAt(cs, k) = "office_doc" => RanksUp(cs[k])

SheetsBegun(lg) == \E j \in 1 .. Len(lg) : lg[j].type = "worksheet"
InWorkbook(cs, path) == Len(cs) >= 2 /\ cs[1].type = "office_doc" /\ cs[1].path = path
SheetsAreLate(pkg, cs, lg, parts) ==
    SheetsBegun(lg) =>
        /\ Len(cs) >= 2 /\ cs[1].type = "office_doc" => Late(cs[2])
        /\ \A l \in Leads(pkg) : l.rel.type = "office_doc" => l.to \in parts \/ InWorkbook(cs, l.to)

\* Entries are of parts that relations lead to, with the data there is.
LogOK(pkg, lg) ==
    \A j \in 1 .. Len(lg) :
        /\ \E l \in Leads(pkg) : l.to = lg[j].path /\ l.rel.type = lg[j].type
        /\ \A l \in Leads(pkg) : IsInformed(pkg, l) /\ l.to = lg[j].path => lg[j].data = "info"

InformedAreRead(pkg, lg, parts) ==
    \A l \in Leads(pkg) :
        /\ IsInformed(pkg, l) /\ l.to \in parts
        /\ l.rel.type \notin pkg.unsupported /\ l.to \in DOMAIN pkg.parts
        => \E j \in 1 .. Len(lg) : lg[j].path = l.to

WInv ==
    /\ HInv
    /\ StringsAndCachesComeFirst
    /\ phase = "parts" => ChainOK(package, calls, log)
    /\ phase \notin {"thrown", "exhausted"} => /\ LogOK(package, log) /\ InformedAreRead(package, log, handled)
                           /\ SheetsAreLate(package, calls, log, handled)

\* What leads are.
LEMMA LeadIs ==
    ASSUME NEW pkg, NEW l \in Leads(pkg)
    PROVE  /\ l.from \in Sources(pkg) /\ l.rel \in RelationsOf(pkg, l.from)
           /\ l.to = LeadsTo(l.from, l.rel) /\ l.rel.name # Empty
<1>1. PICK at \in Sources(pkg) :
        \E r \in RelationsOf(pkg, at) : l = [from |-> at, rel |-> r, to |-> LeadsTo(at, r)]
  BY DEF Leads
<1>2. PICK r \in RelationsOf(pkg, at) : l = [from |-> at, rel |-> r, to |-> LeadsTo(at, r)]
  BY <1>1
<1> QED BY <1>2 DEF Leads

LEMMA IsLead ==
    ASSUME NEW pkg, NEW at \in Sources(pkg), NEW r \in RelationsOf(pkg, at), r.name # Empty
    PROVE  \E l \in Leads(pkg) : l.from = at /\ l.rel = r /\ l.to = LeadsTo(at, r)
<1> DEFINE l == [from |-> at, rel |-> r, to |-> LeadsTo(at, r)]
<1>1. l.from = at /\ l.rel = r /\ l.to = LeadsTo(at, r)
  OBVIOUS
<1>2. l \in Leads(pkg)
  BY DEF Leads
<1> QED BY <1>1, <1>2

\* The kinds of parts that a type leads from.
LEMMA RelatedFrom ==
    ASSUME NEW kind \in {"package"} \cup WithRelations
    PROVE  /\ "office_doc" \in RelatedTypes(kind) => kind = "package"
           /\ "worksheet" \in RelatedTypes(kind) => kind = "office_doc"
           /\ "shared_strings" \in RelatedTypes(kind) => kind = "office_doc"
           /\ "pivot_table" \in RelatedTypes(kind) => kind = "worksheet"
           /\ "pivot_cache_def" \in RelatedTypes(kind) => kind \in {"office_doc", "pivot_table"}
           /\ kind = "package" => \A t \in RelatedTypes(kind) \cap HandledTypes : t = "office_doc"
           /\ kind = "pivot_table" => \A t \in RelatedTypes(kind) \cap HandledTypes : t = "pivot_cache_def"
  BY DEF RelatedTypes, WithRelations, HandledTypes

\* A loop belongs to a part of the kind of the relation it was reached by.
LEMMA LoopHasKind ==
    ASSUME HInv, phase = "parts", ChainOK(package, calls, log), NEW k \in 1 .. Len(calls)
    PROVE  /\ KindAt(calls, k) \in Kinds(package, calls[k].at)
           /\ KindAt(calls, k) \in {"package"} \cup WithRelations
           /\ KindAt(calls, k) = "package" <=> k = 1
           /\ calls[k].at \in Sources(package)
<1>0. Len(calls) \in Nat /\ calls[k].at \in Sources(package)
  BY TopFacts DEF HInv, LoopsOK, LoopOK
<1>1. CASE k = 1
  BY <1>0, <1>1 DEF ChainOK, LinkOK, KindAt, Kinds
<1>2. CASE k # 1
  <2>1. k - 1 \in 1 .. Len(calls) /\ k - 1 # Len(calls)
    BY <1>0, <1>2
  <2> DEFINE f == calls[k - 1]
  <2>2. /\ calls[k].at = f.path /\ calls[k].at # <<>> /\ f.type \in WithRelations /\ f.name # Empty
    BY <1>2 DEF ChainOK, LinkOK
  <2>3. f.pc = "within" /\ LoopOK(package, f, dir, handled)
    BY <2>1 DEF HInv, LoopsOK, IInv, CallsOK, FrameOK
  <2>4. PICK r \in RelationsOf(package, f.at) : Current(f, r, dir)
    BY <2>3 DEF LoopOK
  <2>5. f.path = LeadsTo(f.at, r) /\ r.name # Empty /\ r.type = f.type /\ f.at \in Sources(package)
    BY <2>2, <2>3, <2>4 DEF Current, LoopOK
  <2>6. PICK l \in Leads(package) : l.rel = r /\ l.to = f.path
    BY <2>4, <2>5, IsLead
  <2>7. f.type \in Kinds(package, calls[k].at)
    BY <2>2, <2>5, <2>6 DEF Kinds
  <2>8. "package" \notin WithRelations
    BY DEF WithRelations
  <2> QED BY <1>0, <1>2, <2>2, <2>7, <2>8 DEF KindAt
<1> QED BY <1>1, <1>2

\* A relation of a loop's part fits its kind.
LEMMA RelationFits ==
    ASSUME HInv, phase = "parts", ChainOK(package, calls, log), RelationsFitTheirPart(package),
           NEW k \in 1 .. Len(calls), NEW r \in RelationsOf(package, calls[k].at), r.name # Empty
    PROVE  r.type \in RelatedTypes(KindAt(calls, k))
<1>1. KindAt(calls, k) \in Kinds(package, calls[k].at) /\ calls[k].at \in Sources(package)
  BY LoopHasKind
<1>2. PICK l \in Leads(package) : l.from = calls[k].at /\ l.rel = r
  BY <1>1, IsLead
<1> QED BY <1>1, <1>2 DEF RelationsFitTheirPart

\* ... and so does the type of every frame that is inside of a handler.
LEMMA WaitingFits ==
    ASSUME HInv, phase = "parts", ChainOK(package, calls, log), RelationsFitTheirPart(package),
           NEW k \in 1 .. Len(calls), k # Len(calls)
    PROVE  /\ calls[k].type \in RelatedTypes(KindAt(calls, k))
           /\ calls[k].type = "office_doc" <=> k = 1
           /\ k + 1 \in 1 .. Len(calls) /\ KindAt(calls, k + 1) = calls[k].type
           /\ calls[k].pc = "within"
<1>0. Len(calls) \in Nat /\ k + 1 \in 1 .. Len(calls) /\ k + 1 # 1 /\ (k + 1) - 1 = k
  BY TopFacts DEF HInv
<1>1. calls[k].pc = "within" /\ LoopOK(package, calls[k], dir, handled)
  BY DEF HInv, LoopsOK, IInv, CallsOK, FrameOK
<1>2. PICK r \in RelationsOf(package, calls[k].at) : Current(calls[k], r, dir)
  BY <1>1 DEF LoopOK
<1>3. LinkOK(package, calls, log, k + 1)
  BY <1>0 DEF ChainOK
<1>4. calls[k].name # Empty /\ calls[k].type \in WithRelations
  BY <1>0, <1>3 DEF LinkOK
<1>5. calls[k].type \in RelatedTypes(KindAt(calls, k))
  BY <1>2, <1>4, RelationFits DEF Current
<1>6. KindAt(calls, k) \in {"package"} \cup WithRelations /\ (KindAt(calls, k) = "package" <=> k = 1)
  BY LoopHasKind
<1>7. calls[k].type = "office_doc" => k = 1
  BY <1>5, <1>6, RelatedFrom
<1>8. k = 1 => calls[k].type = "office_doc"
  <2>1. calls[k].type \in HandledTypes
    BY <1>4 DEF WithRelations, HandledTypes
  <2> QED BY <1>5, <1>6, <2>1, RelatedFrom
<1>9. KindAt(calls, k + 1) = calls[k].type
  BY <1>0 DEF KindAt
<1> QED BY <1>0, <1>1, <1>5, <1>7, <1>8, <1>9

\* The loop of a workbook is the second.
LEMMA WorkbookIsSecond ==
    ASSUME HInv, phase = "parts", ChainOK(package, calls, log), RelationsFitTheirPart(package),
           NEW k \in 1 .. Len(calls), KindAt(calls, k) = "office_doc"
    PROVE  k = 2 /\ Len(calls) >= 2 /\ calls[1].type = "office_doc" /\ RanksUp(calls[2])
<1>0. Len(calls) \in Nat /\ Len(calls) > 0
  BY TopFacts DEF HInv
<1>1. k # 1
  BY DEF KindAt
<1>2. k - 1 \in 1 .. Len(calls) /\ k - 1 # Len(calls) /\ calls[k - 1].type = "office_doc"
  BY <1>0, <1>1 DEF KindAt
<1>3. k - 1 = 1
  BY <1>2, WaitingFits
<1>4. k = 2
  BY <1>0, <1>3
<1>5. RanksUp(calls[k])
  BY DEF ChainOK
<1> QED BY <1>0, <1>2, <1>3, <1>4, <1>5

\* A part of one kind has the kind of its loop.
LEMMA KindIsOne ==
    ASSUME NEW pkg, PartsHaveOneKind(pkg), NEW at, NEW k1 \in Kinds(pkg, at), NEW k2 \in Kinds(pkg, at)
    PROVE  k1 = k2
<1>1. CASE at = <<>>
  BY <1>1 DEF Kinds
<1>2. CASE at # <<>>
  <2>1. PICK l \in Leads(pkg) : l.to = at /\ l.rel.type = k1
    BY <1>2 DEF Kinds
  <2>2. PICK k \in Leads(pkg) : k.to = at /\ k.rel.type = k2
    BY <1>2 DEF Kinds
  <2> QED BY <2>1, <2>2 DEF PartsHaveOneKind
<1> QED BY <1>1, <1>2

\* The relation whose target the loop on top has found.
LEMMA TopRelation ==
    ASSUME WInv, WellFormed(package), AtFile
    PROVE  LET n == Len(calls) IN
           /\ n \in 1 .. Len(calls) /\ n \in Nat /\ n > 0 /\ Top = calls[n]
           /\ Top.type \in RelatedTypes(KindAt(calls, n))
           /\ \E l \in Leads(package) :
                /\ l.from = Top.at /\ l.rel \in RelationsOf(package, Top.at) /\ l.to = Target
                /\ Top.type = l.rel.type /\ Top.data = DataFor(l.rel.rid, Top.extras)
<1>1. phase = "parts" /\ HInv /\ ChainOK(package, calls, log) /\ Top.name # Empty /\ Top.pc = "enter"
  BY DEF AtFile, WInv
<1>2. PICK n \in Nat : n = Len(calls) /\ n > 0 /\ Top = calls[n] /\ n \in 1 .. Len(calls)
  BY <1>1, TopFacts DEF HInv
<1>3. LoopOK(package, Top, dir, handled)
  BY <1>1, LoopOfTop
<1>4. PICK r \in RelationsOf(package, Top.at) : Current(Top, r, dir)
  BY <1>1, <1>3 DEF LoopOK
<1>5. /\ Target = LeadsTo(Top.at, r) /\ Top.type = r.type /\ r.name # Empty
      /\ Top.data = DataFor(r.rid, Top.extras) /\ Top.at \in Sources(package)
  BY <1>1, <1>3, <1>4, CurrentTarget DEF Current, LoopOK
<1>6. PICK l \in Leads(package) : l.from = Top.at /\ l.rel = r /\ l.to = Target
  BY <1>4, <1>5, IsLead
<1>7. r.type \in RelatedTypes(KindAt(calls, n))
  BY <1>1, <1>2, <1>4, <1>5, RelationFits DEF WellFormed
<1> QED BY <1>2, <1>4, <1>5, <1>6, <1>7

\* The loop of a pivot table has no data for its relations; loops whose parts
\* give data have it.
LEMMA ExtrasOfTop ==
    ASSUME WInv, phase = "parts", WellFormed(package)
    PROVE  LET kind == KindAt(calls, Len(calls)) IN
           /\ kind = "pivot_table" => \A rid : DataFor(rid, Top.extras) = "null"
           /\ kind # "package" /\ GivesData(kind) =>
                Top.extras = package.parts[Top.at].extras
<1>1. HInv /\ ChainOK(package, calls, log)
  BY DEF WInv
<1>2. Len(calls) \in 1 .. Len(calls) /\ Top = calls[Len(calls)]
  BY <1>1, TopFacts DEF HInv
<1> DEFINE kind == KindAt(calls, Len(calls))
<1>3. kind # "package" =>
        /\ kind = calls[Len(calls) - 1].type
        /\ Top.extras = ExtrasFor(kind, package.parts[Top.at].extras)
  BY <1>1, <1>2 DEF ChainOK, LinkOK, KindAt
<1>4. ASSUME kind = "pivot_table", NEW rid
      PROVE  DataFor(rid, Top.extras) = "null"
  <2>1. Top.extras = <<>>
    BY <1>3, <1>4 DEF ExtrasFor
  <2>2. DOMAIN <<>> = {}
    BY EmptySeq, LenProperties
  <2> QED BY <2>1, <2>2 DEF DataFor
<1>5. kind # "package" /\ GivesData(kind) => Top.extras = package.parts[Top.at].extras
  BY <1>3 DEF GivesData, ExtrasFor
<1> QED BY <1>4, <1>5

\* A part that is parsed is given the data that any relation to it has.
LEMMA ParsedWithData ==
    ASSUME WInv, WellFormed(package), AtFile, Top.type \in HandledTypes,
           NEW l \in Leads(package), IsInformed(package, l), l.to = Target
    PROVE  /\ l.rel.type = Top.type
           /\ Top.data = "info" \/ (KindAt(calls, Len(calls)) = "pivot_table" /\ Top.type = "pivot_cache_def"
                                      /\ Top.data = "null")
<1>1. phase = "parts" /\ HInv /\ ChainOK(package, calls, log)
  BY DEF AtFile, WInv
<1> DEFINE n == Len(calls)
           kind == KindAt(calls, n)
<1>2. n \in 1 .. Len(calls) /\ Top = calls[n] /\ Top.type \in RelatedTypes(kind)
  BY TopRelation
<1>3. PICK k \in Leads(package) :
        /\ k.from = Top.at /\ k.to = Target
        /\ Top.type = k.rel.type /\ Top.data = DataFor(k.rel.rid, Top.extras)
  BY TopRelation
<1>4. l.rel.type = Top.type
  BY <1>3 DEF WellFormed, PartsHaveOneKind
<1>5. kind \in Kinds(package, Top.at) /\ kind \in {"package"} \cup WithRelations /\ (kind = "package" <=> n = 1)
  BY <1>1, <1>2, LoopHasKind
<1> HIDE DEF kind, n
<1>6. IsInformed(package, k) \/ "pivot_table" \in Kinds(package, Top.at)
  BY <1>3 DEF WellFormed, DataIsGivenToAll
<1>7. CASE IsInformed(package, k)
  <2>1. PICK giver \in Kinds(package, Top.at) : GivesData(giver)
    BY <1>3, <1>7 DEF IsInformed
  <2>2. giver = kind
    BY <1>5, <2>1, KindIsOne DEF WellFormed
  <2>3. kind # "package"
    BY <2>1, <2>2 DEF GivesData
  <2>4. Top.extras = package.parts[Top.at].extras
    BY <1>1, <2>1, <2>2, <2>3, ExtrasOfTop DEF kind, n
  <2> QED BY <1>3, <1>4, <1>7, <2>4 DEF IsInformed
<1>8. CASE "pivot_table" \in Kinds(package, Top.at)
  <2>1. kind = "pivot_table"
    BY <1>5, <1>8, KindIsOne DEF WellFormed
  <2>2. Top.data = "null"
    BY <1>1, <1>3, <2>1, ExtrasOfTop DEF kind, n
  <2>3. Top.type = "pivot_cache_def"
    BY <1>2, <1>5, <2>1, RelatedFrom
  <2> QED BY <1>4, <2>1, <2>2, <2>3 DEF kind, n
<1> QED BY <1>6, <1>7, <1>8

\* Strings and caches are parsed before a sheet is, and a workbook before all.
LEMMA ParsedBeforeSheets ==
    ASSUME WInv, WellFormed(package), Parsing,
           Top.type \in {"shared_strings", "pivot_cache_def", "office_doc"}
    PROVE  ~SheetsBegun(log)
<1>1. /\ phase = "parts" /\ HInv /\ ChainOK(package, calls, log) /\ AtFile /\ Top.pc = "enter"
      /\ SheetsAreLate(package, calls, log, handled)
      /\ Target \notin handled /\ Top.type \in HandledTypes
      /\ Top.type \in NeedsData => Top.data = "info"
  BY DEF AtFile, WInv, Parsing, Parses
<1> DEFINE n == Len(calls)
           kind == KindAt(calls, n)
<1>2. n \in 1 .. Len(calls) /\ Top = calls[n] /\ Top.type \in RelatedTypes(kind)
  BY <1>1, TopRelation
<1>3. PICK k \in Leads(package) : k.to = Target /\ Top.type = k.rel.type /\ Top.data = DataFor(k.rel.rid, Top.extras)
  BY <1>1, TopRelation
<1>4. kind \in {"package"} \cup WithRelations /\ (kind = "package" <=> n = 1)
  BY <1>1, <1>2, LoopHasKind
<1>5. CASE Top.type = "office_doc"
  <2>1. kind = "package"
    BY <1>2, <1>4, <1>5, RelatedFrom
  <2>2. Len(calls) = 1
    BY <1>4, <2>1
  <2>3. ~InWorkbook(calls, Target)
    BY <2>2 DEF InWorkbook
  <2> QED BY <1>1, <1>3, <1>5, <2>3 DEF SheetsAreLate
<1>6. CASE Top.type # "office_doc"
  <2>1. kind = "office_doc"
    <3>1. Top.type = "pivot_cache_def" => Top.data # "null"
      BY <1>1 DEF NeedsData
    <3>2. kind = "pivot_table" => Top.data = "null"
      BY <1>1, <1>3, ExtrasOfTop
    <3> QED BY <1>2, <1>4, <1>6, <3>1, <3>2, RelatedFrom
  <2>2. n = 2 /\ Len(calls) >= 2 /\ calls[1].type = "office_doc"
    BY <1>1, <1>2, <2>1, WorkbookIsSecond DEF WellFormed
  <2>3. Top = calls[2]
    BY <1>2, <2>2
  <2>4. SheetsBegun(log) => Late(Top)
    BY <1>1, <2>2, <2>3 DEF SheetsAreLate
  <2>5. ~(SchemaRank(Top.type) >= 2)
    BY <1>6 DEF SchemaRank
  <2> QED BY <1>1, <2>4, <2>5 DEF Late
<1> QED BY <1>5, <1>6

\* What a part that is parsed adds to the log keeps the log in order.
LEMMA LogStaysOK ==
    ASSUME WInv, WellFormed(package), Parsing, Logged
    PROVE  /\ StringsAndCachesComeFirst' /\ LogOK(package, log')
           /\ \A j \in 1 .. Len(log) : j \in 1 .. Len(log') /\ log'[j] = log[j]
           /\ \E j \in 1 .. Len(log') : log'[j].path = Target
           /\ SheetsBegun(log') => SheetsBegun(log) \/ Top.type = "worksheet"
<1> DEFINE e == [path |-> Target, type |-> Top.type, data |-> Top.data]
<1>1. /\ log' \in Seq(Entries) /\ Len(log') = Len(log) + 1 /\ log'[Len(log) + 1] = e
      /\ \A j \in 1 .. Len(log) : log'[j] = log[j]
      /\ Len(log) \in Nat /\ e \in Entries /\ e.path = Target /\ e.type = Top.type /\ e.data = Top.data
  BY LogGrows DEF WInv
<1>2. /\ AtFile /\ phase = "parts" /\ HInv /\ LogOK(package, log) /\ Top.type \in HandledTypes
      /\ (Top.type \in NeedsData => Top.data = "info") /\ StringsAndCachesComeFirst
  BY DEF Parsing, Parses, AtFile, WInv
<1> HIDE DEF e
<1>3. PICK m \in Nat : m = Len(log) /\ Len(log') = m + 1
  BY <1>1
<1>4. \A j \in 1 .. m : j \in 1 .. m + 1 /\ log'[j] = log[j]
  BY <1>1, <1>3
<1>5. log'[m + 1] = e /\ m + 1 \in 1 .. m + 1 /\ \A j \in 1 .. m + 1 : j = m + 1 \/ j \in 1 .. m
  BY <1>1, <1>3
<1>6. StringsAndCachesComeFirst'
  <2>1. DOMAIN log' = 1 .. m + 1 /\ DOMAIN log = 1 .. m
    BY <1>1, <1>2, <1>3, LenProperties DEF HInv
  <2> SUFFICES ASSUME NEW i \in 1 .. m + 1, NEW j \in 1 .. m + 1,
                      log'[i].type = "worksheet",
                      log'[j].type \in {"shared_strings", "pivot_cache_def"}
               PROVE  j < i
    BY <2>1 DEF StringsAndCachesComeFirst
  <2>2. CASE i \in 1 .. m /\ j \in 1 .. m
    BY <1>2, <1>4, <2>1, <2>2 DEF StringsAndCachesComeFirst
  <2>3. CASE i = m + 1
    <3>1. j # m + 1
      BY <2>3
    <3> QED BY <1>3, <2>3, <3>1
  <2>4. CASE i \in 1 .. m /\ j = m + 1
    <3>1. Top.type \in {"shared_strings", "pivot_cache_def"}
      BY <1>1, <1>5, <2>4
    <3>2. ~SheetsBegun(log)
      BY <3>1, ParsedBeforeSheets
    <3>3. log[i].type = "worksheet"
      BY <1>4, <2>4
    <3> QED BY <1>3, <2>4, <3>2, <3>3 DEF SheetsBegun
  <2> QED BY <1>5, <2>2, <2>3, <2>4
<1>7. LogOK(package, log')
  <2> SUFFICES ASSUME NEW j \in 1 .. m + 1
               PROVE  /\ \E l \in Leads(package) : l.to = log'[j].path /\ l.rel.type = log'[j].type
                      /\ \A l \in Leads(package) : IsInformed(package, l) /\ l.to = log'[j].path => log'[j].data = "info"
    BY <1>3 DEF LogOK
  <2>1. CASE j = m + 1
    <3>1. \E l \in Leads(package) : l.to = Target /\ l.rel.type = Top.type
      BY <1>2, TopRelation
    <3>2. ASSUME NEW l \in Leads(package), IsInformed(package, l), l.to = Target
          PROVE  Top.data = "info"
      <4>1. Top.data = "info" \/ (Top.type = "pivot_cache_def" /\ Top.data = "null")
        BY <1>2, <3>2, ParsedWithData
      <4> QED BY <1>2, <4>1 DEF NeedsData
    <3> QED BY <1>1, <1>5, <2>1, <3>1, <3>2
  <2>2. CASE j \in 1 .. m
    BY <1>2, <1>3, <1>4, <2>2 DEF LogOK
  <2> QED BY <1>5, <2>1, <2>2
<1>8. \E j \in 1 .. Len(log') : log'[j].path = Target
  BY <1>1, <1>3, <1>5
<1>9. SheetsBegun(log') => SheetsBegun(log) \/ Top.type = "worksheet"
  BY <1>1, <1>3, <1>4, <1>5 DEF SheetsBegun
<1> QED BY <1>3, <1>4, <1>6, <1>7, <1>8, <1>9

\* A loop that moves on keeps its place among the others.
LEMMA ChainMoves ==
    ASSUME WInv, phase = "parts", NEW g \in Frames, calls' = SetTop(g),
           g.at = Top.at, g.extras = Top.extras,
           RanksUp(Top) => RanksUp(g), Late(Top) => Late(g),
           NEW lg, \A j \in 1 .. Len(log) : j \in 1 .. Len(lg) /\ lg[j] = log[j],
           SheetsBegun(lg) => SheetsBegun(log), NEW parts, handled \subseteq parts
    PROVE  ChainOK(package, calls', lg) /\ SheetsAreLate(package, calls', lg, parts)
<1>0. HInv /\ IInv /\ ChainOK(package, calls, log) /\ SheetsAreLate(package, calls, log, handled)
  BY DEF WInv, HInv
<1>1. PICK n \in Nat : n = Len(calls) /\ n > 0 /\ Top = calls[n] /\ n \in 1 .. n
  BY <1>0, TopFacts
<1>2. /\ Len(calls') = n /\ calls'[n] = g /\ \A k \in 1 .. n : k # n => calls'[k] = calls[k]
  BY <1>0, <1>1, TopReplaced
<1>3. ASSUME NEW k \in 1 .. n
      PROVE  /\ LinkOK(package, calls', lg, k)
             /\ KindAt(calls', k) = KindAt(calls, k)
             /\ KindAt(calls', k) = "office_doc" => RanksUp(calls'[k])
  <2>1. LinkOK(package, calls, log, k) /\ (KindAt(calls, k) = "office_doc" => RanksUp(calls[k]))
    BY <1>0, <1>1 DEF ChainOK
  <2>2. calls'[k].at = calls[k].at /\ calls'[k].extras = calls[k].extras
    BY <1>1, <1>2
  <2>3. k # 1 => k - 1 \in 1 .. n /\ k - 1 # n
    BY <1>1
  <2>4. k # 1 => calls'[k - 1] = calls[k - 1]
    BY <1>2, <2>3
  <2>5. KindAt(calls', k) = KindAt(calls, k)
    BY <2>4 DEF KindAt
  <2>6. LinkOK(package, calls', lg, k)
    <3>1. CASE k = 1
      BY <2>1, <2>2, <3>1 DEF LinkOK
    <3>2. CASE k # 1
      <4>1. \E j \in 1 .. Len(lg) : lg[j].path = calls[k].at
        BY <2>1, <3>2 DEF LinkOK
      <4> QED BY <2>1, <2>2, <2>4, <3>2, <4>1 DEF LinkOK
    <3> QED BY <3>1, <3>2
  <2>7. RanksUp(calls[k]) => RanksUp(calls'[k])
    BY <1>1, <1>2
  <2> QED BY <2>1, <2>5, <2>6, <2>7
<1>4. ChainOK(package, calls', lg)
  BY <1>2, <1>3 DEF ChainOK
<1>5. SheetsAreLate(package, calls', lg, parts)
  <2> SUFFICES ASSUME SheetsBegun(lg)
               PROVE  /\ Len(calls') >= 2 /\ calls'[1].type = "office_doc" => Late(calls'[2])
                      /\ \A l \in Leads(package) : l.rel.type = "office_doc" =>
                            l.to \in parts \/ InWorkbook(calls', l.to)
    BY DEF SheetsAreLate
  <2>1. /\ Len(calls) >= 2 /\ calls[1].type = "office_doc" => Late(calls[2])
        /\ \A l \in Leads(package) : l.rel.type = "office_doc" =>
              l.to \in handled \/ InWorkbook(calls, l.to)
    BY <1>0 DEF SheetsAreLate
  <2>2. CASE n = 1
    <3>1. ~(Len(calls') >= 2) /\ ~(Len(calls) >= 2)
      BY <1>1, <1>2, <2>2
    <3> QED BY <2>1, <3>1 DEF InWorkbook
  <2>3. CASE n # 1
    <3>1. 1 \in 1 .. n /\ 2 \in 1 .. n
      BY <1>1, <2>3
    <3>2. calls'[1] = calls[1] /\ (Late(calls[2]) => Late(calls'[2]))
      BY <1>1, <1>2, <2>3, <3>1
    <3> QED BY <1>1, <1>2, <2>1, <3>2 DEF InWorkbook
  <2> QED BY <2>2, <2>3
<1> QED BY <1>4, <1>5

\* A step of the top frame within its loop that reads nothing.
LEMMA OrderKept ==
    ASSUME WInv, HInv', phase = "parts", phase' = "parts", NEW g, calls' = SetTop(g),
           package' = package, log' = log, handled \subseteq handled',
           InformedAreRead(package, log, handled'),
           g.at = Top.at, g.extras = Top.extras,
           RanksUp(Top) => RanksUp(g), Late(Top) => Late(g)
    PROVE  WInv'
<1>1. g \in Frames
  BY NewTop DEF WInv, HInv
<1>2. ChainOK(package, calls', log) /\ SheetsAreLate(package, calls', log, handled')
  BY <1>1, ChainMoves
<1>3. ChainOK(package', calls', log') /\ SheetsAreLate(package', calls', log', handled')
  BY <1>2
<1>4. LogOK(package', log') /\ InformedAreRead(package', log', handled')
  BY DEF WInv
<1>5. StringsAndCachesComeFirst'
  BY DEF WInv, StringsAndCachesComeFirst
<1> QED BY <1>3, <1>4, <1>5 DEF WInv

\* A frame of the same loop that has not taken another relation.
LEMMA RanksStay ==
    ASSUME NEW f, NEW g, g.rels = f.rels, g.type = f.type,
           g.pc \in {"enter", "within"} => f.pc \in {"enter", "within"}
    PROVE  (RanksUp(f) => RanksUp(g)) /\ (Late(f) => Late(g))
  BY DEF RanksUp, Late, Rank

LEMMA OrderNextRelation == ASSUME WInv, NextRelation, HInv' PROVE WInv'
<1>0. /\ phase = "parts" /\ phase' = "parts" /\ Top.pc = "next" /\ Top.rels # <<>> /\ HInv
      /\ UNCHANGED <<package, dir, handled, log>>
  BY DEF NextRelation, WInv
<1>1. Top \in Frames
  BY <1>0, TopFacts DEF HInv
<1>2. Top.rels \in Seq(Relation)
  BY <1>1 DEF Frames
<1> DEFINE rel == Head(Top.rels)
           x == DataFor(rel.rid, Top.extras)
           g == [Top EXCEPT !.rels = Advanced(Top.rels), !.pc = "enter", !.dirs = rel.dirs,
                            !.name = rel.name, !.type = rel.type, !.data = x,
                            !.path = <<>>, !.changed = <<>>, !.trail = <<>>]
<1>3. calls' = SetTop(g)
  BY DEF NextRelation
<1>4. /\ Len(Tail(Top.rels)) = Len(Top.rels) - 1 /\ rel = Top.rels[1]
      /\ Len(Top.rels) \in Nat /\ Len(Top.rels) > 0
      /\ \A i \in 1 .. Len(Top.rels) - 1 : Tail(Top.rels)[i] = Top.rels[i + 1]
  BY <1>0, <1>2, HeadAndTail
<1> HIDE DEF rel, x
<1>5. /\ g.at = Top.at /\ g.extras = Top.extras /\ g.rels = Tail(Top.rels)
      /\ g.pc = "enter" /\ g.type = rel.type
  BY <1>1 DEF Frames, Advanced
<1> HIDE DEF g
<1>6. PICK m \in Nat : m = Len(Top.rels) /\ Len(g.rels) = m - 1 /\ m > 0
  BY <1>4, <1>5
<1>7. \A i \in 1 .. m - 1 : i + 1 \in 1 .. m /\ Rank(g, i) = Rank(Top, i + 1)
  BY <1>4, <1>5, <1>6 DEF Rank
<1>8. SchemaRank(g.type) = Rank(Top, 1) /\ 1 \in 1 .. m
  BY <1>4, <1>5, <1>6 DEF Rank
<1>9. RanksUp(Top) => RanksUp(g)
  <2> SUFFICES ASSUME \A i, j \in 1 .. m : i <= j => Rank(Top, i) <= Rank(Top, j)
               PROVE  /\ \A i, j \in 1 .. m - 1 : i <= j => Rank(g, i) <= Rank(g, j)
                      /\ \A i \in 1 .. m - 1 : SchemaRank(g.type) <= Rank(g, i)
    BY <1>6 DEF RanksUp
  <2>1. ASSUME NEW i \in 1 .. m - 1, NEW j \in 1 .. m - 1, i <= j
        PROVE  Rank(g, i) <= Rank(g, j)
    <3>1. i + 1 \in 1 .. m /\ j + 1 \in 1 .. m /\ i + 1 <= j + 1
      BY <1>6, <2>1
    <3> QED BY <1>7, <3>1
  <2>2. ASSUME NEW i \in 1 .. m - 1
        PROVE  SchemaRank(g.type) <= Rank(g, i)
    <3>1. i + 1 \in 1 .. m /\ 1 <= i + 1
      BY <1>6
    <3> QED BY <1>7, <1>8, <3>1
  <2> QED BY <2>1, <2>2
<1>10. Late(Top) => Late(g)
  BY <1>5, <1>6, <1>7, <1>8 DEF Late
<1>11. InformedAreRead(package, log, handled')
  BY <1>0 DEF WInv
<1> QED BY <1>0, <1>3, <1>5, <1>9, <1>10, <1>11, OrderKept

\* The steps of read_part that parse nothing change the frame on top only, and
\* leave it in its loop.
LEMMA WalksMoveTop ==
    ASSUME HInv, phase = "parts",
           ChangeDirectory \/ UndoChange \/ NotAFile \/ ReadPartReturns \/ SkipPart \/ PartNotHandled
    PROVE  \E g :
             /\ calls' = SetTop(g) /\ g.at = Top.at /\ g.extras = Top.extras /\ g.rels = Top.rels
             /\ g.type = Top.type /\ (g.pc \in {"enter", "within"} => Top.pc \in {"enter", "within"})
<1>0. Top \in Frames
  BY TopFacts DEF HInv
<1>1. CASE ChangeDirectory
  <2> DEFINE rest == Tail(Top.dirs)
             next == [Top EXCEPT !.dirs = rest]
  <2> HIDE DEF rest
  <2>1. /\ next.at = Top.at /\ next.extras = Top.extras /\ next.rels = Top.rels
        /\ next.type = Top.type /\ next.pc = Top.pc
    BY <1>0 DEF Frames
  <2>2. next = [Top EXCEPT !.dirs = rest]
    OBVIOUS
  <2>3. DOMAIN next = DOMAIN Top /\ Top = [f \in DOMAIN Top |-> Top[f]]
    BY <1>0 DEF Frames
  <2>4. ASSUME NEW c, NEW t
        PROVE  LET g == [next EXCEPT !.changed = c, !.trail = t] IN
               g.at = Top.at /\ g.extras = Top.extras /\ g.rels = Top.rels
               /\ g.type = Top.type /\ g.pc = Top.pc
    BY <1>0 DEF Frames
  <2>5. Top.pc = "enter"
    BY <1>1 DEF ChangeDirectory
  <2>6. \/ calls' = SetTop(next)
        \/ \E c, t : calls' = SetTop([next EXCEPT !.changed = c, !.trail = t])
    BY <1>1 DEF ChangeDirectory, rest
  <2>7. CASE calls' = SetTop(next)
    BY <2>1, <2>5, <2>7
  <2>8. CASE \E c, t : calls' = SetTop([next EXCEPT !.changed = c, !.trail = t])
    <3>1. PICK c, t : calls' = SetTop([next EXCEPT !.changed = c, !.trail = t])
      BY <2>8
    <3> DEFINE g == [next EXCEPT !.changed = c, !.trail = t]
    <3>2. g.at = Top.at /\ g.extras = Top.extras /\ g.rels = Top.rels /\ g.type = Top.type
      BY <2>4
    <3>3. calls' = SetTop(g)
      BY <3>1
    <3> HIDE DEF g
    <3> QED BY <2>5, <3>2, <3>3
  <2> QED BY <2>6, <2>7, <2>8
<1>2. CASE UndoChange
  <2>1. PICK c, t : calls' = SetTop([Top EXCEPT !.changed = c, !.trail = t])
    BY <1>2 DEF UndoChange
  <2> DEFINE g == [Top EXCEPT !.changed = c, !.trail = t]
  <2>2. /\ g.at = Top.at /\ g.extras = Top.extras /\ g.rels = Top.rels /\ g.type = Top.type
        /\ g.pc = Top.pc
    BY <1>0 DEF Frames
  <2>3. calls' = SetTop(g)
    BY <2>1
  <2> HIDE DEF g
  <2> QED BY <2>2, <2>3
<1>3. CASE NotAFile \/ ReadPartReturns
  <2>1. PICK pc \in {"next", "leave"} : calls' = SetTop([Top EXCEPT !.pc = pc])
    BY <1>3 DEF NotAFile, ReadPartReturns
  <2> DEFINE g == [Top EXCEPT !.pc = pc]
  <2>2. /\ g.at = Top.at /\ g.extras = Top.extras /\ g.rels = Top.rels /\ g.type = Top.type
        /\ g.pc = pc
    BY <1>0 DEF Frames
  <2>3. calls' = SetTop(g)
    BY <2>1
  <2> HIDE DEF g
  <2> QED BY <2>2, <2>3
<1>4. CASE SkipPart \/ PartNotHandled
  <2> DEFINE g == [Top EXCEPT !.pc = "leave", !.path = Target]
  <2>2. /\ g.at = Top.at /\ g.extras = Top.extras /\ g.rels = Top.rels /\ g.type = Top.type
        /\ g.pc = "leave"
    BY <1>0 DEF Frames
  <2>3. calls' = SetTop(g)
    BY <1>4 DEF SkipPart, PartNotHandled
  <2> HIDE DEF g
  <2> QED BY <2>2, <2>3
<1> QED BY <1>1, <1>2, <1>3, <1>4

LEMMA OrderWalks ==
    ASSUME WInv, ChangeDirectory \/ UndoChange \/ NotAFile \/ ReadPartReturns \/ SkipPart \/ PartNotHandled,
           HInv'
    PROVE  WInv'
<1>0. /\ phase = "parts" /\ phase' = "parts" /\ HInv
      /\ UNCHANGED <<package, handled, log>>
  BY DEF ChangeDirectory, UndoChange, NotAFile, ReadPartReturns, SkipPart, PartNotHandled, AtFile, WInv
<1>2. PICK g :
        /\ calls' = SetTop(g) /\ g.at = Top.at /\ g.extras = Top.extras /\ g.rels = Top.rels
        /\ g.type = Top.type /\ (g.pc \in {"enter", "within"} => Top.pc \in {"enter", "within"})
  BY <1>0, WalksMoveTop
<1>3. (RanksUp(Top) => RanksUp(g)) /\ (Late(Top) => Late(g))
  BY <1>2, RanksStay
<1>4. InformedAreRead(package, log, handled')
  BY <1>0 DEF WInv
<1> QED BY <1>0, <1>2, <1>3, <1>4, OrderKept

\* A part that data is for and a pivot table leads to has been handled in the
\* loop of the workbook: it comes before the sheet of the pivot table.
LEMMA CacheIsBehind ==
    ASSUME WInv, WellFormed(package), phase = "parts",
           KindAt(calls, Len(calls)) = "pivot_table",
           NEW l \in Leads(package), IsInformed(package, l), l.rel.type = "pivot_cache_def"
    PROVE  l.to \in handled
<1>0. HInv /\ ChainOK(package, calls, log) /\ RelationsFitTheirPart(package)
  BY DEF WInv, WellFormed
<1>1. PICK n \in Nat : n = Len(calls) /\ n > 0
  BY <1>0, TopFacts DEF HInv
\* The loops below: of the sheet and of the workbook.
<1>2. n - 1 \in 1 .. n /\ n - 1 # n /\ calls[n - 1].type = "pivot_table" /\ n \in 1 .. n
  BY <1>1 DEF KindAt
<1>3. KindAt(calls, n - 1) = "worksheet"
  <2>1. "pivot_table" \in RelatedTypes(KindAt(calls, n - 1))
    BY <1>0, <1>1, <1>2, WaitingFits
  <2>2. KindAt(calls, n - 1) \in {"package"} \cup WithRelations
    BY <1>0, <1>1, <1>2, LoopHasKind
  <2> QED BY <2>1, <2>2, RelatedFrom
<1>4. n - 2 \in 1 .. n /\ n - 2 # n /\ calls[n - 2].type = "worksheet"
  <2>1. n - 1 # 1 /\ (n - 1) - 1 = n - 2
    BY <1>1, <1>3 DEF KindAt
  <2> QED BY <1>1, <1>2, <1>3, <2>1 DEF KindAt
<1>5. KindAt(calls, n - 2) = "office_doc"
  <2>1. "worksheet" \in RelatedTypes(KindAt(calls, n - 2))
    BY <1>0, <1>1, <1>4, WaitingFits
  <2>2. KindAt(calls, n - 2) \in {"package"} \cup WithRelations
    BY <1>0, <1>1, <1>4, LoopHasKind
  <2> QED BY <2>1, <2>2, RelatedFrom
<1>6. n - 2 = 2 /\ RanksUp(calls[2]) /\ calls[1].type = "office_doc"
  BY <1>0, <1>1, <1>4, <1>5, WorkbookIsSecond
<1>7. 2 \in 1 .. n /\ 1 \in 1 .. n /\ 2 # n /\ 1 # n /\ calls[2].type = "worksheet"
  <2>1. n - 2 = 2
    BY <1>6
  <2>2. n = 4
    <3>1. n \in Nat
      BY <1>1
    <3> QED BY ONLY <2>1, <3>1
  <2>3. calls[2].type = "worksheet"
    BY <1>4, <2>1
  <2> QED BY <2>2, <2>3
<1> DEFINE f == calls[2]
\* The relation is one of the workbook.
<1>8. l.from = f.at
  <2>1. PICK kind \in Kinds(package, l.from) : GivesData(kind)
    BY DEF IsInformed
  <2>2. l.rel.type \in RelatedTypes(kind)
    BY <1>0, <2>1 DEF RelationsFitTheirPart
  <2>3. kind \in {"package"} \cup WithRelations /\ kind # "pivot_table"
    BY <2>1 DEF GivesData, WithRelations
  <2>4. kind = "office_doc"
    BY <2>2, <2>3, RelatedFrom
  <2>5. l.from # <<>>
    BY DEF IsInformed
  <2>6. PICK m \in Leads(package) : m.to = l.from /\ m.rel.type = "office_doc"
    BY <2>1, <2>4, <2>5 DEF Kinds
  <2>7. KindAt(calls, 2) \in Kinds(package, f.at) /\ KindAt(calls, 2) = "office_doc"
    BY <1>0, <1>1, <1>5, <1>6, <1>7, LoopHasKind
  <2>8. f.at # <<>>
    BY <1>0, <1>1, <1>7 DEF ChainOK, LinkOK
  <2>9. PICK k \in Leads(package) : k.to = f.at /\ k.rel.type = "office_doc"
    BY <2>7, <2>8 DEF Kinds
  <2> QED BY <2>6, <2>9 DEF WellFormed, ThereIsOneWorkbook
<1>9. l.rel \in RelationsOf(package, f.at) /\ Wanted(l.rel) /\ l.to = LeadsTo(f.at, l.rel)
  <2>1. l.rel \in RelationsOf(package, l.from) /\ l.to = LeadsTo(l.from, l.rel) /\ l.rel.name # Empty
    BY LeadIs
  <2>2. "pivot_cache_def" \in HandledTypes
    BY DEF HandledTypes
  <2> QED BY <1>8, <2>1, <2>2 DEF Wanted
\* It is neither to come nor under way in the loop of the workbook.
<1>10. f.pc = "within" /\ f \in Frames
  <2>1. calls \in Seq(Frames)
    BY <1>0 DEF HInv, IInv, CallsOK
  <2> QED BY <1>0, <1>1, <1>7, <2>1, WaitingFits, ElementOfSeq
<1>11. l.rel \notin Range(f.rels)
  <2> SUFFICES ASSUME l.rel \in Range(f.rels) PROVE FALSE
    OBVIOUS
  <2>1. f.rels \in Seq(Relation)
    BY <1>10 DEF Frames
  <2>2. PICK i \in 1 .. Len(f.rels) : f.rels[i] = l.rel
    BY <2>1, LenProperties DEF Range
  <2>3. SchemaRank("worksheet") <= Rank(f, i)
    BY <1>6, <1>7, <1>10 DEF RanksUp
  <2>4. Rank(f, i) = 1 /\ SchemaRank("worksheet") = 2
    BY <2>2 DEF Rank, SchemaRank
  <2> QED BY <2>3, <2>4
<1>12. ~Current(f, l.rel, dir)
  BY <1>7 DEF Current
<1>13. LoopOK(package, f, dir, handled)
  BY <1>0, <1>1, <1>7 DEF HInv, LoopsOK
<1> QED BY <1>9, <1>11, <1>12, <1>13 DEF LoopOK

LEMMA OrderPartPassedOver ==
    ASSUME WInv, WellFormed(package), PartPassedOver, HInv'
    PROVE  WInv'
<1>0. /\ phase = "parts" /\ phase' = "parts" /\ HInv /\ AtFile /\ Target \notin handled
      /\ Top.type \in HandledTypes /\ ~Parses(Top.type, Top.data, Target)
      /\ handled' = handled \cup {Target} /\ UNCHANGED <<package, log>>
  BY DEF PartPassedOver, AtFile, WInv
<1>1. Top \in Frames
  BY <1>0, TopFacts DEF HInv
<1> DEFINE g == [Top EXCEPT !.pc = "leave", !.path = Target]
<1>2. /\ g.at = Top.at /\ g.extras = Top.extras /\ g.rels = Top.rels /\ g.type = Top.type
      /\ g.pc = "leave"
  BY <1>1 DEF Frames
<1>3. calls' = SetTop(g)
  BY DEF PartPassedOver
<1> HIDE DEF g
<1>4. (RanksUp(Top) => RanksUp(g)) /\ (Late(Top) => Late(g))
  BY <1>2, RanksStay
<1>5. InformedAreRead(package, log, handled')
  <2> SUFFICES ASSUME NEW l \in Leads(package), IsInformed(package, l), l.to = Target,
                      l.rel.type \notin package.unsupported, l.to \in DOMAIN package.parts
               PROVE  FALSE
    BY <1>0 DEF WInv, InformedAreRead
  <2>1. /\ l.rel.type = Top.type
        /\ Top.data = "info" \/ (KindAt(calls, Len(calls)) = "pivot_table" /\ Top.type = "pivot_cache_def")
    BY <1>0, ParsedWithData
  <2>2. Top.data # "info"
    BY <1>0, <2>1 DEF Parses
  <2> QED BY <1>0, <2>1, <2>2, CacheIsBehind
<1> QED BY <1>0, <1>2, <1>3, <1>4, <1>5, OrderKept

\* What is handled with an entry of its own.
LEMMA InformedStay ==
    ASSUME NEW pkg, NEW lg, NEW parts, InformedAreRead(pkg, lg, parts), NEW more, NEW path,
           \A j \in 1 .. Len(lg) : j \in 1 .. Len(more) /\ more[j] = lg[j],
           NEW all, all = parts \/ (all = parts \cup {path} /\ \E j \in 1 .. Len(more) : more[j].path = path)
    PROVE  InformedAreRead(pkg, more, all)
<1> SUFFICES ASSUME NEW l \in Leads(pkg), IsInformed(pkg, l), l.to \in all,
                    l.rel.type \notin pkg.unsupported, l.to \in DOMAIN pkg.parts
             PROVE  \E j \in 1 .. Len(more) : more[j].path = l.to
  BY DEF InformedAreRead
<1>1. CASE l.to \in parts
  <2>1. PICK j \in 1 .. Len(lg) : lg[j].path = l.to
    BY <1>1 DEF InformedAreRead
  <2> QED BY <2>1
<1>2. CASE l.to \notin parts
  BY <1>2
<1> QED BY <1>1, <1>2

LEMMA OrderReadLeaf ==
    ASSUME WInv, WellFormed(package), ReadLeaf, HInv'
    PROVE  WInv'
<1>0. /\ phase = "parts" /\ phase' = "parts" /\ HInv /\ AtFile /\ Parsing /\ Logged
      /\ Top.type \notin WithRelations /\ package' = package
      /\ handled' = handled \cup {Target}
  BY DEF ReadLeaf, Parsing, AtFile, WInv
<1>1. Top \in Frames
  BY <1>0, TopFacts DEF HInv
<1> DEFINE g == [Top EXCEPT !.pc = "leave", !.path = Target]
<1>2. /\ g.at = Top.at /\ g.extras = Top.extras /\ g.rels = Top.rels /\ g.type = Top.type
      /\ g.pc = "leave"
  BY <1>1 DEF Frames
<1>3. calls' = SetTop(g)
  BY DEF ReadLeaf
<1> HIDE DEF g
<1>4. (RanksUp(Top) => RanksUp(g)) /\ (Late(Top) => Late(g)) /\ g \in Frames
  BY <1>0, <1>2, <1>3, RanksStay, NewTop DEF HInv
<1>5. /\ StringsAndCachesComeFirst' /\ LogOK(package, log')
      /\ \A j \in 1 .. Len(log) : j \in 1 .. Len(log') /\ log'[j] = log[j]
      /\ \E j \in 1 .. Len(log') : log'[j].path = Target
      /\ SheetsBegun(log') => SheetsBegun(log)
  <2>1. Top.type # "worksheet"
    BY <1>0 DEF WithRelations
  <2> QED BY <1>0, <2>1, LogStaysOK
<1>6. ChainOK(package, calls', log') /\ SheetsAreLate(package, calls', log', handled')
  BY <1>0, <1>2, <1>3, <1>4, <1>5, ChainMoves
<1>7. InformedAreRead(package, log', handled')
  <2>1. InformedAreRead(package, log, handled)
    BY <1>0 DEF WInv
  <2> QED BY <1>0, <1>5, <2>1, InformedStay
<1>8. /\ ChainOK(package', calls', log') /\ SheetsAreLate(package', calls', log', handled')
      /\ InformedAreRead(package', log', handled') /\ LogOK(package', log')
  BY <1>0, <1>5, <1>6, <1>7
<1> QED BY <1>5, <1>8 DEF WInv

\* The relations of the workbook are in the order of their ranks.
LEMMA SortedRanks ==
    ASSUME NEW rels \in Seq(Relation), NEW out \in OrdersFor("office_doc", rels), NEW f,
           f.rels = out, f.pc = "next"
    PROVE  RanksUp(f)
<1>1. out \in Sorted(rels) /\ out \in Seq(Relation)
  BY SortedTyped DEF OrdersFor, WorkbookOrders
<1>2. PICK p \in Bijection(DOMAIN rels, DOMAIN rels) :
        /\ \A i, j \in DOMAIN rels : i < j => ~SortsBefore(rels[p[j]], rels[p[i]])
        /\ out = [i \in DOMAIN rels |-> rels[p[i]]]
  BY <1>1 DEF Sorted
<1>3. DOMAIN rels = 1 .. Len(rels) /\ DOMAIN out = DOMAIN rels /\ DOMAIN out = 1 .. Len(out)
  BY <1>1, <1>2, LenProperties
<1>4. PICK n \in Nat : n = Len(out) /\ DOMAIN rels = 1 .. n
  BY <1>1, <1>3, LenProperties
<1>5. ASSUME NEW i \in 1 .. n, NEW j \in 1 .. n, i <= j
      PROVE  Rank(f, i) <= Rank(f, j)
  <2>0. SchemaRank(out[i].type) \in Nat /\ SchemaRank(out[j].type) \in Nat
    BY DEF SchemaRank
  <2>1. CASE i = j
    BY <2>0, <2>1 DEF Rank
  <2>2. CASE i < j
    <3>1. ~SortsBefore(rels[p[j]], rels[p[i]])
      BY <1>2, <1>4, <2>2
    <3>2. out[i] = rels[p[i]] /\ out[j] = rels[p[j]]
      BY <1>2, <1>4
    <3>3. ~SortsBefore(out[j], out[i])
      BY <3>1, <3>2
    <3>4. SchemaRank(out[i].type) <= SchemaRank(out[j].type)
      BY <2>0, <3>3 DEF SortsBefore
    <3>5. Rank(f, i) = SchemaRank(out[i].type) /\ Rank(f, j) = SchemaRank(out[j].type)
      BY DEF Rank
    <3> QED BY <3>4, <3>5
  <2> QED BY <1>5, <2>1, <2>2
<1> QED BY <1>4, <1>5 DEF RanksUp

\* The loop of a part with relations starts: the last of the chain.
LEMMA ChainGrows ==
    ASSUME WInv, WellFormed(package), ReadWithRelations, HInv'
    PROVE  /\ ChainOK(package, calls', log')
           /\ SheetsAreLate(package, calls', log', handled)
<1>0. /\ HInv /\ IInv /\ phase = "parts" /\ AtFile /\ Parsing /\ Logged /\ Top.type \in WithRelations
      /\ ChainOK(package, calls, log) /\ SheetsAreLate(package, calls, log, handled)
      /\ AbsoluteTargetsAreLeaves(package) /\ RelationsFitTheirPart(package)
      /\ Top.pc = "enter" /\ Top.name # Empty
  BY DEF ReadWithRelations, Parsing, AtFile, WInv, HInv, WellFormed
<1>1. PICK n \in Nat : n = Len(calls) /\ n > 0 /\ Top = calls[n] /\ n \in 1 .. n
  BY <1>0, TopFacts
<1> DEFINE part == package.parts[Target]
           g == [Top EXCEPT !.pc = "within", !.path = Target]
           h(rels) == Frame(Target, rels, ExtrasFor(Top.type, part.extras), dir)
<1>2. PICK rels \in OrdersFor(Top.type, part.rels) :
        /\ g \in Frames /\ h(rels) \in Frames
        /\ Len(calls') = Len(calls) + 1
        /\ calls'[Len(calls) + 1] = h(rels) /\ calls'[Len(calls)] = g
        /\ \A k \in 1 .. Len(calls) : k # Len(calls) => calls'[k] = calls[k] /\ calls[k].pc = "within"
        /\ Target \in DOMAIN package.parts /\ Target # <<>>
  BY <1>0, LoopStarts
<1> DEFINE b == h(rels)
<1>3. /\ b.at = Target /\ b.extras = ExtrasFor(Top.type, part.extras) /\ b.rels = rels /\ b.pc = "next"
  BY DEF Frame
<1>4. /\ g.at = Top.at /\ g.extras = Top.extras /\ g.rels = Top.rels /\ g.type = Top.type
      /\ g.name = Top.name /\ g.path = Target /\ g.pc = "within"
  BY <1>0, TopFacts DEF Frames
<1>5. part.rels \in Seq(Relation)
  <2>1. package \in Packages
    BY <1>0 DEF IInv
  <2> QED BY <1>2, <2>1, PackageFacts
<1> HIDE DEF g, h, b, part
<1>6. /\ Len(calls') = n + 1 /\ calls'[n + 1] = b /\ calls'[n] = g
      /\ \A k \in 1 .. n : k # n => calls'[k] = calls[k] /\ calls[k].pc = "within"
  BY <1>1, <1>2 DEF b
<1>7. (RanksUp(Top) => RanksUp(g)) /\ (Late(Top) => Late(g))
  BY <1>0, <1>4, RanksStay
<1>8. /\ \A j \in 1 .. Len(log) : j \in 1 .. Len(log') /\ log'[j] = log[j]
      /\ \E j \in 1 .. Len(log') : log'[j].path = Target
      /\ SheetsBegun(log') => SheetsBegun(log) \/ Top.type = "worksheet"
  BY <1>0, LogStaysOK
<1>9. ASSUME NEW k \in 1 .. n
      PROVE  /\ LinkOK(package, calls', log', k)
             /\ KindAt(calls', k) = "office_doc" => RanksUp(calls'[k])
  <2>1. LinkOK(package, calls, log, k) /\ (KindAt(calls, k) = "office_doc" => RanksUp(calls[k]))
    BY <1>0, <1>1 DEF ChainOK
  <2>2. calls'[k].at = calls[k].at /\ calls'[k].extras = calls[k].extras
    BY <1>1, <1>4, <1>6
  <2>3. k # 1 => k - 1 \in 1 .. n /\ k - 1 # n
    BY <1>1
  <2>4. k # 1 => calls'[k - 1] = calls[k - 1]
    BY <1>6, <2>3
  <2>5. KindAt(calls', k) = KindAt(calls, k)
    BY <2>4 DEF KindAt
  <2>6. LinkOK(package, calls', log', k)
    <3>1. CASE k = 1
      BY <2>1, <2>2, <3>1 DEF LinkOK
    <3>2. CASE k # 1
      <4>1. \E j \in 1 .. Len(log') : log'[j].path = calls[k].at
        BY <1>8, <2>1, <3>2 DEF LinkOK
      <4> QED BY <2>1, <2>2, <2>4, <3>2, <4>1 DEF LinkOK
    <3> QED BY <3>1, <3>2
  <2>7. RanksUp(calls[k]) => RanksUp(calls'[k])
    BY <1>1, <1>6, <1>7
  <2> QED BY <2>1, <2>5, <2>6, <2>7
<1>10. LinkOK(package, calls', log', n + 1) /\ KindAt(calls', n + 1) = Top.type
  <2>1. n + 1 # 1 /\ (n + 1) - 1 = n
    BY <1>1
  <2>2. KindAt(calls', n + 1) = Top.type
    BY <1>4, <1>6, <2>1 DEF KindAt
  <2>3. calls'[n + 1].extras = ExtrasFor(calls'[n].type, package.parts[calls'[n + 1].at].extras)
    BY <1>3, <1>4, <1>6 DEF part
  <2> QED BY <1>0, <1>2, <1>3, <1>4, <1>6, <1>8, <2>1, <2>2, <2>3 DEF LinkOK
<1>11. Top.type = "office_doc" => RanksUp(b)
  BY <1>2, <1>3, <1>5, SortedRanks
<1>12. ChainOK(package, calls', log')
  <2> SUFFICES ASSUME NEW k \in 1 .. n + 1
               PROVE  /\ LinkOK(package, calls', log', k)
                      /\ KindAt(calls', k) = "office_doc" => RanksUp(calls'[k])
    BY <1>6 DEF ChainOK
  <2>1. k = n + 1 \/ k \in 1 .. n
    BY <1>1
  <2> QED BY <1>6, <1>9, <1>10, <1>11, <2>1
\* Of the workbook only what follows the sheets is left once one of them is read.
<1>13. SheetsAreLate(package, calls', log', handled)
  <2> SUFFICES ASSUME SheetsBegun(log')
               PROVE  /\ Len(calls') >= 2 /\ calls'[1].type = "office_doc" => Late(calls'[2])
                      /\ \A l \in Leads(package) : l.rel.type = "office_doc" =>
                            l.to \in handled \/ InWorkbook(calls', l.to)
    BY DEF SheetsAreLate
  <2>1. n \in 1 .. Len(calls) /\ Top.type \in RelatedTypes(KindAt(calls, n))
    BY <1>0, <1>1, TopRelation
  <2>2. KindAt(calls, n) \in {"package"} \cup WithRelations /\ (KindAt(calls, n) = "package" <=> n = 1)
    BY <1>0, <2>1, LoopHasKind
  <2>3. Top.type # "office_doc"
    BY <1>0, <1>8, ParsedBeforeSheets
  <2>4. n # 1
    <3>1. Top.type \in HandledTypes
      BY <1>0 DEF WithRelations, HandledTypes
    <3> QED BY <2>1, <2>2, <2>3, <3>1, RelatedFrom
  <2>5. 1 \in 1 .. n /\ 2 \in 1 .. n /\ 1 # n /\ n >= 2 /\ n + 1 >= 2
    BY <1>1, <2>4
  <2>6. calls'[1] = calls[1] /\ calls[1].type = "office_doc"
    BY <1>0, <1>1, <1>6, <2>5, WaitingFits
  <2>7. CASE Top.type = "worksheet"
    <3>1. KindAt(calls, n) = "office_doc"
      BY <2>1, <2>2, <2>7, RelatedFrom
    <3>2. n = 2 /\ RanksUp(calls[2])
      BY <1>0, <2>1, <3>1, WorkbookIsSecond
    <3>3. Late(g)
      <4>1. RanksUp(g)
        BY <1>1, <1>7, <3>2
      <4>2. SchemaRank(g.type) = 2
        BY <1>4, <2>7 DEF SchemaRank
      <4>3. \A i \in 1 .. Len(g.rels) : 2 <= Rank(g, i) /\ Rank(g, i) \in Nat
        BY <1>4, <4>1, <4>2 DEF RanksUp, Rank, SchemaRank
      <4> QED BY <4>2, <4>3 DEF Late
    <3>4. PICK k \in Leads(package) : k.to = calls[1].path /\ k.rel.type = "office_doc"
      <4>1. LoopOK(package, calls[1], dir, handled) /\ calls[1].pc = "within"
        BY <1>0, <1>1, <1>6, <2>5 DEF HInv, LoopsOK
      <4>2. PICK r \in RelationsOf(package, calls[1].at) : Current(calls[1], r, dir)
        BY <4>1 DEF LoopOK
      <4>3. LinkOK(package, calls, log, 2) /\ 2 # 1 /\ 2 - 1 = 1
        BY <1>0, <1>1, <2>5 DEF ChainOK
      <4>4. calls[1].name # Empty
        BY <4>3 DEF LinkOK
      <4>5. r.type = "office_doc" /\ r.name # Empty /\ calls[1].path = LeadsTo(calls[1].at, r)
            /\ calls[1].at \in Sources(package)
        BY <2>6, <4>1, <4>2, <4>4 DEF Current, LoopOK
      <4> QED BY <4>2, <4>5, IsLead
    <3>5. \A l \in Leads(package) : l.rel.type = "office_doc" => l.to = calls[1].path
      BY <3>4 DEF WellFormed, ThereIsOneWorkbook
    <3> QED BY <1>6, <2>5, <2>6, <3>2, <3>3, <3>5 DEF InWorkbook
  <2>8. CASE Top.type # "worksheet"
    <3>1. SheetsBegun(log)
      BY <1>8, <2>8
    <3>2. Late(calls[2]) /\ \A l \in Leads(package) : l.rel.type = "office_doc" =>
                                l.to \in handled \/ InWorkbook(calls, l.to)
      BY <1>0, <1>1, <2>5, <2>6, <3>1 DEF SheetsAreLate
    <3>3. Late(calls'[2])
      BY <1>1, <1>6, <1>7, <2>5, <3>2
    <3>4. \A p : InWorkbook(calls, p) => InWorkbook(calls', p)
      BY <1>6, <2>5, <2>6 DEF InWorkbook
    <3> QED BY <3>2, <3>3, <3>4
  <2> QED BY <2>7, <2>8
<1> QED BY <1>12, <1>13

LEMMA OrderReadWithRelations ==
    ASSUME WInv, WellFormed(package), ReadWithRelations, HInv'
    PROVE  WInv'
<1>0. /\ phase = "parts" /\ phase' = "parts" /\ Parsing /\ Logged /\ package' = package /\ handled' = handled
  BY DEF ReadWithRelations, Parsing, AtFile
<1>1. /\ StringsAndCachesComeFirst' /\ LogOK(package, log')
      /\ \A j \in 1 .. Len(log) : j \in 1 .. Len(log') /\ log'[j] = log[j]
  BY <1>0, LogStaysOK
<1>2. ChainOK(package, calls', log') /\ SheetsAreLate(package, calls', log', handled)
  BY ChainGrows
<1>3. InformedAreRead(package, log', handled)
  <2>1. InformedAreRead(package, log, handled)
    BY <1>0 DEF WInv
  <2> QED BY <1>1, <2>1 DEF InformedAreRead
<1>4. /\ ChainOK(package', calls', log') /\ SheetsAreLate(package', calls', log', handled')
      /\ InformedAreRead(package', log', handled') /\ LogOK(package', log')
  BY <1>0, <1>1, <1>2, <1>3
<1> QED BY <1>1, <1>4 DEF WInv

\* The loop of a part ends, and the loop below goes on.
LEMMA OrderPartIsHandled ==
    ASSUME WInv, WellFormed(package), PartIsHandled, HInv'
    PROVE  WInv'
<1>0. /\ phase = "parts" /\ phase' = "parts" /\ HInv /\ IInv /\ UNCHANGED <<package, dir, log>>
      /\ ChainOK(package, calls, log) /\ SheetsAreLate(package, calls, log, handled)
      /\ InformedAreRead(package, log, handled) /\ LogOK(package, log)
      /\ StringsAndCachesComeFirst /\ RelationsFitTheirPart(package)
  BY DEF PartIsHandled, WInv, HInv, WellFormed
<1>1. PICK n \in Nat :
        /\ n = Len(calls) - 1 /\ n > 0 /\ Len(calls') = n
        /\ calls'[n] = [calls[n] EXCEPT !.pc = "leave"]
        /\ calls[n] \in Frames /\ calls'[n] \in Frames
        /\ \A k \in 1 .. n : calls[k].pc = "within" /\ (k # n => calls'[k] = calls[k])
        /\ handled' = handled \cup {calls[n].path}
  BY <1>0, LoopEnds
<1>2. Len(calls) = n + 1
  BY <1>0, <1>1, TopFacts
<1> DEFINE g == calls'[n]
<1>3. /\ g.at = calls[n].at /\ g.extras = calls[n].extras /\ g.rels = calls[n].rels
      /\ g.type = calls[n].type /\ g.path = calls[n].path /\ g.name = calls[n].name
      /\ g.pc = "leave"
  BY <1>1 DEF Frames
<1> HIDE DEF g
<1>4. calls'[n] = g /\ n \in 1 .. n
  BY <1>1 DEF g
<1>5. (RanksUp(calls[n]) => RanksUp(g)) /\ (Late(calls[n]) => Late(g))
  BY <1>3, RanksStay
<1>6. ChainOK(package, calls', log)
  <2> SUFFICES ASSUME NEW k \in 1 .. n
               PROVE  /\ LinkOK(package, calls', log, k)
                      /\ KindAt(calls', k) = "office_doc" => RanksUp(calls'[k])
    BY <1>1 DEF ChainOK
  <2>1. LinkOK(package, calls, log, k) /\ (KindAt(calls, k) = "office_doc" => RanksUp(calls[k]))
    BY <1>0, <1>2 DEF ChainOK
  <2>2. calls'[k].at = calls[k].at /\ calls'[k].extras = calls[k].extras
    BY <1>1, <1>3, <1>4
  <2>3. k # 1 => k - 1 \in 1 .. n /\ k - 1 # n
    BY <1>1
  <2>4. k # 1 => calls'[k - 1] = calls[k - 1]
    BY <1>1, <2>3
  <2>5. KindAt(calls', k) = KindAt(calls, k)
    BY <2>4 DEF KindAt
  <2>6. LinkOK(package, calls', log, k)
    BY <2>1, <2>2, <2>4 DEF LinkOK
  <2>7. RanksUp(calls[k]) => RanksUp(calls'[k])
    BY <1>1, <1>4, <1>5
  <2> QED BY <2>1, <2>5, <2>6, <2>7
<1>7. \E j \in 1 .. Len(log) : log[j].path = calls[n].path
  <2>1. n + 1 \in 1 .. Len(calls) /\ n + 1 # 1 /\ (n + 1) - 1 = n
    BY <1>1, <1>2
  <2>2. LinkOK(package, calls, log, n + 1)
    BY <1>0, <2>1 DEF ChainOK
  <2> QED BY <2>1, <2>2 DEF LinkOK
<1>8. InformedAreRead(package, log, handled')
  <2> DEFINE path == calls[n].path
             all == handled'
  <2>1. all = handled \cup {path} /\ \E j \in 1 .. Len(log) : log[j].path = path
    BY <1>1, <1>7
  <2> HIDE DEF path, all
  <2>2. InformedAreRead(package, log, all)
    BY <1>0, <2>1 DEF InformedAreRead
  <2> QED BY <2>2 DEF all
<1>9. SheetsAreLate(package, calls', log, handled')
  <2> SUFFICES ASSUME SheetsBegun(log)
               PROVE  /\ Len(calls') >= 2 /\ calls'[1].type = "office_doc" => Late(calls'[2])
                      /\ \A l \in Leads(package) : l.rel.type = "office_doc" =>
                            l.to \in handled' \/ InWorkbook(calls', l.to)
    BY DEF SheetsAreLate
  <2>1. 1 \in 1 .. Len(calls) /\ 1 # Len(calls) /\ Len(calls) >= 2 /\ 1 \in 1 .. n
    BY <1>1, <1>2
  <2>2. calls[1].type = "office_doc"
    BY <1>0, <2>1, WaitingFits
  <2>3. /\ Late(calls[2])
        /\ \A l \in Leads(package) : l.rel.type = "office_doc" => l.to \in handled \/ InWorkbook(calls, l.to)
    BY <1>0, <2>1, <2>2 DEF SheetsAreLate
  <2>4. CASE n = 1
    <3>1. ~(Len(calls') >= 2)
      BY <1>1, <2>4
    <3>2. \A p : InWorkbook(calls, p) => p \in handled'
      BY <1>1, <2>4 DEF InWorkbook
    <3> QED BY <1>1, <2>3, <3>1, <3>2
  <2>5. CASE n # 1
    <3>1. 2 \in 1 .. n /\ n >= 2 /\ calls'[1] = calls[1]
      BY <1>1, <2>1, <2>5
    <3>2. Late(calls'[2])
      BY <1>1, <1>4, <1>5, <2>3, <3>1
    <3>3. \A p : InWorkbook(calls, p) => InWorkbook(calls', p)
      BY <1>1, <3>1 DEF InWorkbook
    <3> QED BY <1>1, <2>3, <3>2, <3>3
  <2> QED BY <2>4, <2>5
<1>10. /\ ChainOK(package', calls', log') /\ SheetsAreLate(package', calls', log', handled')
       /\ InformedAreRead(package', log', handled') /\ LogOK(package', log')
  BY <1>0, <1>6, <1>8, <1>9
<1>11. StringsAndCachesComeFirst'
  BY <1>0 DEF StringsAndCachesComeFirst
<1> QED BY <1>10, <1>11 DEF WInv

\* Steps after which no loop is left.
LEMMA OrderNoLoop ==
    ASSUME WInv, WellFormed(package), PackageIsRead \/ Finalize \/ UNCHANGED vars, HInv'
    PROVE  WInv'
<1>1. CASE UNCHANGED vars
  BY <1>1 DEF vars, WInv, StringsAndCachesComeFirst
<1>2. CASE PackageIsRead \/ Finalize
  <2>0. UNCHANGED <<package, log, handled>> /\ calls' = <<>> /\ phase' # "parts"
        /\ phase \notin {"thrown", "exhausted"}
    <3>1. Finalize => calls = <<>>
      BY DEF WInv, HInv, IInv, Finalize
    <3> QED BY <1>2, <3>1 DEF PackageIsRead, Finalize
  <2>1. LogOK(package, log) /\ InformedAreRead(package, log, handled)
        /\ SheetsAreLate(package, calls, log, handled) /\ StringsAndCachesComeFirst
    BY <2>0 DEF WInv
  <2>2. ~(Len(calls) >= 2)
    <3>1. Finalize => calls = <<>>
      BY DEF WInv, HInv, IInv, Finalize
    <3>2. PackageIsRead => Len(calls) = 1
      BY DEF PackageIsRead
    <3> QED BY <1>2, <3>1, <3>2, EmptySeq
  <2>3. ~(Len(calls') >= 2)
    BY <2>0, EmptySeq
  <2>4. SheetsAreLate(package, calls', log, handled)
    BY <2>1, <2>2, <2>3 DEF SheetsAreLate, InWorkbook
  <2>5. LogOK(package', log') /\ InformedAreRead(package', log', handled')
        /\ SheetsAreLate(package', calls', log', handled')
    BY <2>0, <2>1, <2>4
  <2>6. StringsAndCachesComeFirst'
    BY <2>0, <2>1 DEF StringsAndCachesComeFirst
  <2> QED BY <2>0, <2>5, <2>6 DEF WInv
<1> QED BY <1>1, <1>2

\* An exception ends the import: what was parsed has come in order.
LEMMA OrderThrow ==
    ASSUME WInv, WellFormed(package), Throw, HInv'
    PROVE  WInv'
<1>1. Parsing /\ phase' = "thrown" /\ (log' = log \/ Logged)
  BY DEF Throw
<1>2. StringsAndCachesComeFirst'
  <2>1. CASE log' = log
    BY <2>1 DEF WInv, StringsAndCachesComeFirst
  <2>2. CASE Logged
    BY <1>1, <2>2, LogStaysOK
  <2> QED BY <1>1, <2>1, <2>2
<1> QED BY <1>1, <1>2 DEF WInv

LEMMA OrderExhausted ==
    ASSUME WInv, StackIsExhausted, HInv'
    PROVE  WInv'
<1>1. phase' = "exhausted" /\ log' = log
  BY DEF StackIsExhausted
<1> QED BY <1>1 DEF WInv, StringsAndCachesComeFirst

\* The file is opened: the loop of the package is the only one.
LEMMA OrderReadFile ==
    ASSUME WInv, ReadFile, HInv'
    PROVE  WInv'
<1>1. /\ phase = "idle" /\ phase' = "parts" /\ UNCHANGED <<package, handled, log>>
      /\ log = <<>>
  BY DEF ReadFile, WInv, HInv
<1>2. Len(log) = 0 /\ Len(log') = 0
  BY <1>1, EmptySeq
<1> DEFINE b == Frame(<<>>, package.root, <<>>, dir')
<1>3. calls' = <<b>> /\ b.at = <<>>
  BY DEF ReadFile, Frame
<1> HIDE DEF b
<1>4. Len(calls') = 1 /\ calls'[1] = b
  BY <1>3
<1>5. ChainOK(package', calls', log')
  BY <1>3, <1>4 DEF ChainOK, LinkOK, KindAt
<1>6. LogOK(package', log') /\ SheetsAreLate(package', calls', log', handled')
  BY <1>2 DEF LogOK, SheetsAreLate, SheetsBegun
<1>7. InformedAreRead(package', log', handled')
  <2>1. InformedAreRead(package, log, handled)
    BY <1>1 DEF WInv
  <2> QED BY <1>1, <2>1
<1>8. StringsAndCachesComeFirst'
  BY <1>1 DEF WInv, StringsAndCachesComeFirst
<1> QED BY <1>5, <1>6, <1>7, <1>8 DEF WInv

LEMMA OrderInit == Init => WInv
<1> SUFFICES ASSUME Init PROVE WInv
  OBVIOUS
<1>1. HInv /\ log = <<>> /\ handled = {} /\ phase = "idle"
  BY HandledInit DEF Init
<1>2. Len(log) = 0 /\ DOMAIN log = {}
  BY <1>1, EmptySeq
<1>3. StringsAndCachesComeFirst
  BY <1>2 DEF StringsAndCachesComeFirst
<1>4. LogOK(package, log) /\ SheetsAreLate(package, calls, log, handled)
  BY <1>2 DEF LogOK, SheetsAreLate, SheetsBegun
<1>5. InformedAreRead(package, log, handled)
  BY <1>1 DEF InformedAreRead
<1> QED BY <1>1, <1>3, <1>4, <1>5 DEF WInv

LEMMA OrderNext ==
    ASSUME WInv, WellFormed(package), [Next]_vars
    PROVE  WInv'
<1>1. HInv'
  BY HandledNext DEF WInv, WellFormed
<1> QED BY <1>1, OrderReadFile, OrderNextRelation, OrderWalks, OrderPartPassedOver, OrderReadLeaf,
           OrderReadWithRelations, OrderExhausted, OrderThrow, OrderPartIsHandled, OrderNoLoop DEF Next

\* What the invariant says when the import has ended: the entry of a part that
\* another gives data to has it.
LEMMA DataHasReached == WInv /\ WellFormed(package) => DataReachesItsPart
<1> SUFFICES ASSUME WInv, WellFormed(package), phase = "done", NEW i \in DOMAIN log,
                    log[i].type \in {"office_doc", "worksheet", "pivot_cache_def"},
                    NEW rel \in Range(package.parts[log[i].path].rels),
                    DataFor(rel.rid, package.parts[log[i].path].extras) = "info",
                    Parses(rel.type, "info", Resolve(log[i].path, rel))
             PROVE  \E j \in DOMAIN log : log[j].path = Resolve(log[i].path, rel) /\ log[j].data = "info"
  BY DEF DataReachesItsPart
<1> DEFINE at == log[i].path
           to == Resolve(at, rel)
<1>1. /\ HInv /\ LogOK(package, log) /\ InformedAreRead(package, log, handled)
      /\ DataIsGivenToAll(package)
  BY DEF WInv, WellFormed
<1>2. DOMAIN log = 1 .. Len(log) /\ i \in 1 .. Len(log) /\ log[i].type \in WithRelations
  BY <1>1, LenProperties DEF HInv, WithRelations
<1>3. at \in DOMAIN package.parts /\ at # <<>>
  BY <1>1, <1>2 DEF HInv, EntryOK
<1>4. rel \in RelationsOf(package, at) /\ at \in Sources(package)
  BY <1>3 DEF RelationsOf, Sources
<1>5. rel.type \in NeedsData /\ rel.name # Empty /\ IsRelative(rel)
  BY <1>1, <1>3, <1>4 DEF DataIsGivenToAll
<1>6. Wanted(rel)
  BY <1>5 DEF Wanted, NeedsData, HandledTypes
<1>7. LeadsTo(at, rel) \in handled /\ LeadsTo(at, rel) = to
  BY <1>1, <1>2, <1>4, <1>5, <1>6, AllAreHandled
\* The relation is a lead that has data.
<1>8. PICK l \in Leads(package) : l.from = at /\ l.rel = rel /\ l.to = to
  BY <1>4, <1>5, <1>7, IsLead
<1>9. IsInformed(package, l)
  <2>1. PICK k \in Leads(package) : k.to = at /\ k.rel.type = log[i].type
    BY <1>1, <1>2 DEF LogOK
  <2>2. log[i].type \in Kinds(package, at) /\ GivesData(log[i].type)
    BY <1>3, <2>1 DEF Kinds, GivesData
  <2> QED BY <1>3, <1>8, <2>2 DEF IsInformed
<1>10. l.rel.type \notin package.unsupported /\ l.to \in DOMAIN package.parts
  BY <1>8 DEF Parses
<1> HIDE DEF at, to
<1>11. PICK j \in 1 .. Len(log) : log[j].path = to
  BY <1>1, <1>7, <1>8, <1>9, <1>10 DEF InformedAreRead
<1>12. log[j].data = "info"
  BY <1>1, <1>8, <1>9, <1>11 DEF LogOK
<1> QED BY <1>2, <1>11, <1>12 DEF at, to

\* Of a package that is what the standard asks of it, whatever order its
\* relations come in: every part that is related to is handled, a part that
\* data is for is parsed with that data even where a relation without any leads
\* to it too, and shared strings and pivot caches are parsed before a sheet is.
THEOREM PartsComeWithTheirDataInOrder ==
    Spec => [](WellFormed(package) => PartsAreReadWithTheirData)
<1> DEFINE Good == WellFormed(package)
           Inv == Good => WInv
<1>1. Init => Inv
  BY OrderInit
<1>2. Inv /\ [Next]_vars => Inv'
  <2> SUFFICES ASSUME Inv, [Next]_vars, Good' PROVE WInv'
    OBVIOUS
  <2>1. Good
    BY PackageStays
  <2> QED BY <2>1, OrderNext
<1>3. Inv => (Good => PartsAreReadWithTheirData)
  <2> SUFFICES ASSUME WInv, WellFormed(package) PROVE PartsAreReadWithTheirData
    OBVIOUS
  <2>1. HInv /\ StringsAndCachesComeFirst
    BY DEF WInv
  <2> QED BY <2>1, InvHandles, DataHasReached DEF PartsAreReadWithTheirData
<1> QED BY <1>1, <1>2, <1>3, PTL DEF Spec
----------------------------------------------------------------------------
(* A part is read once unless it leads back to itself.  The loops that run   *)
(* inside of each other are links: each is about the part that the frame     *)
(* below it is in, which was parsed and so had the data that its handler     *)
(* needs.                                                                    *)

Link(pkg, cs, k) ==
    /\ cs[k].at = cs[k - 1].path /\ cs[k].at \in DOMAIN pkg.parts /\ cs[k].at # <<>>
    /\ cs[k - 1].type \in WithRelations /\ cs[k - 1].name # Empty
    /\ cs[k - 1].type \in NeedsData => cs[k - 1].data = "info"
    /\ \A rid : DataFor(rid, cs[k].extras) = "info" =>
                 DataFor(rid, pkg.parts[cs[k].at].extras) = "info"

Chained(pkg, cs) == \A k \in 2 .. Len(cs) : Link(pkg, cs, k)

ChainInv == HInv /\ (phase = "parts" => Chained(package, calls))

LEMMA ChainedMoves ==
    ASSUME ChainInv, phase = "parts", NEW g, calls' = SetTop(g), IInv',
           g.at = Top.at, g.extras = Top.extras
    PROVE  Chained(package, calls')
<1>0. IInv /\ HInv /\ Chained(package, calls)
  BY DEF ChainInv, HInv
<1>1. PICK n \in Nat : n = Len(calls) /\ n > 0 /\ Top = calls[n] /\ n \in 1 .. n
  BY <1>0, TopFacts
<1>2. g \in Frames
  <2>1. calls \in Seq(Frames) /\ calls' \in Seq(Frames)
    BY <1>0 DEF IInv, CallsOK
  <2>2. DOMAIN calls = 1 .. n
    BY <1>1, <2>1, LenProperties
  <2>3. calls' = [calls EXCEPT ![n] = g]
    BY <1>1 DEF SetTop
  <2>4. calls'[n] = g /\ DOMAIN calls' = 1 .. n
    BY <1>1, <2>2, <2>3
  <2> QED BY <1>1, <2>1, <2>4, LenProperties, ElementOfSeq
<1>3. Len(calls') = n /\ calls'[n] = g /\ \A k \in 1 .. n : k # n => calls'[k] = calls[k]
  BY <1>0, <1>1, <1>2, TopReplaced
<1> SUFFICES ASSUME NEW k \in 2 .. n PROVE Link(package, calls', k)
  BY <1>1, <1>3 DEF Chained
<1>4. k \in 1 .. n /\ k - 1 \in 1 .. n /\ k - 1 # n
  BY <1>1
<1>5. calls'[k - 1] = calls[k - 1]
  BY <1>3, <1>4
<1>6. calls'[k].at = calls[k].at /\ calls'[k].extras = calls[k].extras
  BY <1>1, <1>3, <1>4
<1>7. Link(package, calls, k)
  BY <1>0, <1>1 DEF Chained
<1> QED BY <1>5, <1>6, <1>7 DEF Link

LEMMA ChainedGrows ==
    ASSUME ChainInv, ReadWithRelations, AbsoluteTargetsAreLeaves(package)
    PROVE  Chained(package, calls')
<1>0. /\ HInv /\ IInv /\ phase = "parts" /\ AtFile /\ Parsing /\ Top.type \in WithRelations
      /\ Chained(package, calls) /\ Top.name # Empty
      /\ (Top.type \in NeedsData => Top.data = "info")
  BY DEF ReadWithRelations, Parsing, Parses, AtFile, ChainInv, HInv
<1>1. PICK n \in Nat : n = Len(calls) /\ n > 0 /\ Top = calls[n]
  BY <1>0, TopFacts
<1> DEFINE part == package.parts[Target]
           g == [Top EXCEPT !.pc = "within", !.path = Target]
           h(rels) == Frame(Target, rels, ExtrasFor(Top.type, part.extras), dir)
<1>2. PICK rels \in OrdersFor(Top.type, part.rels) :
        /\ Len(calls') = Len(calls) + 1
        /\ calls'[Len(calls) + 1] = h(rels) /\ calls'[Len(calls)] = g
        /\ \A k \in 1 .. Len(calls) : k # Len(calls) => calls'[k] = calls[k]
        /\ Target \in DOMAIN package.parts /\ Target # <<>>
  BY <1>0, LoopStarts
<1> DEFINE b == h(rels)
<1>3. b.at = Target /\ b.extras = ExtrasFor(Top.type, part.extras)
  BY DEF Frame
<1>4. /\ g.at = Top.at /\ g.extras = Top.extras /\ g.type = Top.type /\ g.name = Top.name
      /\ g.path = Target /\ g.data = Top.data
  BY <1>0, TopFacts DEF Frames
<1>5. \A rid : DataFor(rid, b.extras) = "info" => DataFor(rid, part.extras) = "info"
  <2>1. DOMAIN <<>> = {}
    BY EmptySeq, LenProperties
  <2> QED BY <1>3, <2>1 DEF ExtrasFor, DataFor
<1> HIDE DEF g, h, b, part
<1>6. /\ Len(calls') = n + 1 /\ calls'[n + 1] = b /\ calls'[n] = g
      /\ \A k \in 1 .. n : k # n => calls'[k] = calls[k]
  BY <1>1, <1>2 DEF b
<1> SUFFICES ASSUME NEW k \in 2 .. n + 1
             PROVE  /\ calls'[k].at = calls'[k - 1].path /\ calls'[k].at \in DOMAIN package.parts
                    /\ calls'[k].at # <<>>
                    /\ calls'[k - 1].type \in WithRelations /\ calls'[k - 1].name # Empty
                    /\ calls'[k - 1].type \in NeedsData => calls'[k - 1].data = "info"
                    /\ \A rid : DataFor(rid, calls'[k].extras) = "info" =>
                                 DataFor(rid, package.parts[calls'[k].at].extras) = "info"
  BY <1>6 DEF Chained, Link
<1>7. CASE k = n + 1
  <2>1. calls'[k] = b /\ calls'[k - 1] = g
    BY <1>6, <1>7
  <2> QED BY <1>0, <1>2, <1>3, <1>4, <1>5, <2>1 DEF part
<1>8. CASE k # n + 1
  <2>1. k \in 2 .. n /\ k - 1 \in 1 .. n /\ k - 1 # n /\ k \in 1 .. n
    BY <1>8
  <2>2. calls'[k - 1] = calls[k - 1] /\ calls'[k].at = calls[k].at /\ calls'[k].extras = calls[k].extras
    BY <1>1, <1>4, <1>6, <2>1
  <2> QED BY <1>0, <1>1, <2>1, <2>2 DEF Chained, Link
<1> QED BY <1>7, <1>8

LEMMA ChainedShrinks ==
    ASSUME ChainInv, PartIsHandled
    PROVE  Chained(package, calls')
<1>0. IInv /\ Chained(package, calls)
  BY DEF PartIsHandled, ChainInv, HInv
<1>1. PICK n \in Nat :
        /\ n = Len(calls) - 1 /\ n > 0 /\ Len(calls') = n
        /\ calls[n] \in Frames /\ calls'[n] = [calls[n] EXCEPT !.pc = "leave"]
        /\ \A k \in 1 .. n : k # n => calls'[k] = calls[k]
  BY <1>0, LoopEnds
<1>2. calls'[n].at = calls[n].at /\ calls'[n].extras = calls[n].extras
  BY <1>1 DEF Frames
<1>3. Len(calls) = n + 1
  BY <1>0, <1>1, LenProperties DEF IInv, CallsOK
<1> SUFFICES ASSUME NEW k \in 2 .. n PROVE Link(package, calls', k)
  BY <1>1 DEF Chained
<1>4. k \in 1 .. n /\ k - 1 \in 1 .. n /\ k - 1 # n /\ k \in 2 .. n + 1
  BY <1>1
<1>5. calls'[k - 1] = calls[k - 1]
  BY <1>1, <1>4
<1>6. calls'[k].at = calls[k].at /\ calls'[k].extras = calls[k].extras
  BY <1>1, <1>2, <1>4
<1>7. Link(package, calls, k)
  BY <1>0, <1>3, <1>4 DEF Chained
<1> QED BY <1>5, <1>6, <1>7 DEF Link

LEMMA ChainNext ==
    ASSUME ChainInv, AbsoluteTargetsAreLeaves(package), [Next]_vars
    PROVE  ChainInv'
<1>0. HInv' /\ package' = package /\ IInv'
  BY HandledNext, PackageStays DEF ChainInv, HInv
<1> SUFFICES ASSUME phase' = "parts" PROVE Chained(package, calls')
  BY <1>0 DEF ChainInv
<1>1. CASE ReadFile
  <2>1. calls' = <<Frame(<<>>, package.root, <<>>, dir')>>
    BY <1>1 DEF ReadFile
  <2>2. Len(calls') = 1
    BY <2>1
  <2> QED BY <2>2 DEF Chained, Link
<1>2. CASE NextRelation
  <2>1. phase = "parts" /\ Top \in Frames
    BY <1>2, TopFacts DEF NextRelation, ChainInv, HInv
  <2> DEFINE rel == Head(Top.rels)
             x == DataFor(rel.rid, Top.extras)
             g == [Top EXCEPT !.rels = Advanced(Top.rels), !.pc = "enter", !.dirs = rel.dirs,
                              !.name = rel.name, !.type = rel.type, !.data = x,
                              !.path = <<>>, !.changed = <<>>, !.trail = <<>>]
  <2>2. calls' = SetTop(g)
    BY <1>2 DEF NextRelation
  <2> HIDE DEF rel, x
  <2>3. g.at = Top.at /\ g.extras = Top.extras
    BY <2>1 DEF Frames
  <2> HIDE DEF g
  <2> QED BY <1>0, <2>1, <2>2, <2>3, ChainedMoves
<1>3. CASE ChangeDirectory \/ UndoChange \/ NotAFile \/ ReadPartReturns \/ SkipPart \/ PartNotHandled
  <2>1. phase = "parts"
    BY <1>3 DEF ChangeDirectory, UndoChange, NotAFile, ReadPartReturns, SkipPart, PartNotHandled, AtFile
  <2>2. PICK g : calls' = SetTop(g) /\ g.at = Top.at /\ g.extras = Top.extras
    BY <1>3, <2>1, WalksMoveTop DEF ChainInv
  <2> QED BY <1>0, <2>1, <2>2, ChainedMoves
<1>4. CASE PartPassedOver \/ ReadLeaf
  <2>1. phase = "parts" /\ Top \in Frames
    BY <1>4, TopFacts DEF PartPassedOver, ReadLeaf, Parsing, AtFile, ChainInv, HInv
  <2> DEFINE g == [Top EXCEPT !.pc = "leave", !.path = Target]
  <2>2. calls' = SetTop(g)
    BY <1>4 DEF PartPassedOver, ReadLeaf
  <2>3. g.at = Top.at /\ g.extras = Top.extras
    BY <2>1 DEF Frames
  <2> HIDE DEF g
  <2> QED BY <1>0, <2>1, <2>2, <2>3, ChainedMoves
<1>5. CASE ReadWithRelations
  BY <1>5, ChainedGrows
<1>6. CASE PartIsHandled
  BY <1>6, ChainedShrinks
<1>7. CASE StackIsExhausted \/ Throw \/ PackageIsRead \/ Finalize
  BY <1>7 DEF StackIsExhausted, Throw, PackageIsRead, Finalize
<1>8. CASE UNCHANGED vars
  BY <1>8 DEF vars, ChainInv
<1> QED BY <1>1, <1>2, <1>3, <1>4, <1>5, <1>6, <1>7, <1>8 DEF Next

\* The relation that a loop has under way is followed when it is into a part
\* that is parsed.
LEMMA UnderWayIsFollowed ==
    ASSUME ChainInv, phase = "parts", NEW k \in 2 .. Len(calls), NEW r \in RelationsOf(package, calls[k].at),
           r.name # Empty, r.type \in HandledTypes,
           r.type \in NeedsData => DataFor(r.rid, calls[k].extras) = "info"
    PROVE  \E l \in Leads(package) :
             IsFollowed(package, l) /\ l.from = calls[k].at /\ l.to = LeadsTo(calls[k].at, r)
<1>1. calls[k].at \in DOMAIN package.parts /\ calls[k].at # <<>> /\ calls[k].at \in Sources(package)
  BY DEF ChainInv, Chained, Link, Sources
<1>2. PICK l \in Leads(package) : l.from = calls[k].at /\ l.rel = r /\ l.to = LeadsTo(calls[k].at, r)
  BY <1>1, IsLead
<1>3. r.type \in NeedsData => DataFor(r.rid, package.parts[calls[k].at].extras) = "info"
  BY DEF ChainInv, Chained, Link
<1> QED BY <1>1, <1>2, <1>3 DEF IsFollowed

\* A part that is parsed inside of its own reading is in a ring: the parts that
\* the frames from it on are in.
LEMMA ReadInsideItself ==
    ASSUME ChainInv, Parsing, UnderWay(calls, Target)
    PROVE  LeadsBack(package)
<1>0. /\ AtFile /\ phase = "parts" /\ HInv /\ IInv /\ Chained(package, calls)
      /\ Top.type \in HandledTypes /\ Top.name # Empty /\ Top.pc = "enter"
      /\ (Top.type \in NeedsData => Top.data = "info")
  BY DEF Parsing, Parses, AtFile, ChainInv, HInv
<1>1. PICK n \in Nat : n = Len(calls) /\ n > 0 /\ Top = calls[n]
  BY <1>0, TopFacts
<1>2. PICK m \in 1 .. n : calls[m].pc = "within" /\ calls[m].path = Target
  BY <1>1 DEF UnderWay
<1>3. m # n
  BY <1>0, <1>1, <1>2
<1> DEFINE ring == {calls[j].path : j \in m .. n - 1}
           followed == {l \in Leads(package) : IsFollowed(package, l)}
<1>4. ring \subseteq DOMAIN package.parts
  <2> SUFFICES ASSUME NEW j \in m .. n - 1 PROVE calls[j].path \in DOMAIN package.parts
    OBVIOUS
  <2>1. j + 1 \in 2 .. Len(calls) /\ (j + 1) - 1 = j
    BY <1>1
  <2> QED BY <1>0, <2>1 DEF Chained, Link
<1>5. Target \in ring
  <2>1. m \in m .. n - 1
    BY <1>1, <1>3
  <2> QED BY <1>2, <2>1
<1>6. ASSUME NEW p \in ring
      PROVE  \E l \in followed : l.from = p /\ l.to \in ring
  <2>1. PICK j \in m .. n - 1 : p = calls[j].path
    OBVIOUS
  <2>2. PICK k \in 2 .. n : k = j + 1
    BY <1>1
  <2>3. calls[k].at = p
    <3>1. k \in 2 .. Len(calls) /\ k - 1 = j
      BY <1>1, <2>2
    <3> QED BY <1>0, <2>1, <3>1 DEF Chained, Link
  <2>4. LoopOK(package, calls[k], dir, handled)
    BY <1>0, <1>1, <2>2 DEF HInv, LoopsOK
  <2>5. CASE k = n
    <3>1. PICK r \in RelationsOf(package, Top.at) : Current(Top, r, dir)
      BY <1>0, <1>1, <2>4, <2>5 DEF LoopOK
    <3>2. LeadsTo(calls[k].at, r) = Target
      BY <1>0, <1>1, <2>5, <3>1, CurrentTarget
    <3>3. /\ r.name # Empty /\ r.type \in HandledTypes
          /\ (r.type \in NeedsData => DataFor(r.rid, calls[k].extras) = "info")
      BY <1>0, <1>1, <2>5, <3>1 DEF Current
    <3>4. PICK l \in Leads(package) :
            IsFollowed(package, l) /\ l.from = calls[k].at /\ l.to = LeadsTo(calls[k].at, r)
      BY <1>0, <1>1, <2>5, <3>1, <3>3, UnderWayIsFollowed
    <3> QED BY <1>5, <2>3, <3>2, <3>4
  <2>6. CASE k # n
    <3>1. k \in m .. n - 1 /\ k + 1 \in 2 .. Len(calls) /\ (k + 1) - 1 = k
      BY <1>1, <2>2, <2>6
    <3>2. /\ calls[k].type \in WithRelations /\ calls[k].name # Empty
          /\ (calls[k].type \in NeedsData => calls[k].data = "info")
      BY <1>0, <3>1 DEF Chained, Link
    <3>3. calls[k].pc = "within"
      BY <1>0, <1>1, <2>6, <3>1 DEF IInv, CallsOK, FrameOK
    <3>4. PICK r \in RelationsOf(package, calls[k].at) : Current(calls[k], r, dir)
      BY <2>4, <3>3 DEF LoopOK
    <3>5. /\ r.name # Empty /\ r.type \in HandledTypes /\ LeadsTo(calls[k].at, r) = calls[k].path
          /\ (r.type \in NeedsData => DataFor(r.rid, calls[k].extras) = "info")
      BY <3>2, <3>3, <3>4 DEF Current, WithRelations, HandledTypes
    <3>6. PICK l \in Leads(package) :
            IsFollowed(package, l) /\ l.from = calls[k].at /\ l.to = LeadsTo(calls[k].at, r)
      BY <1>0, <1>1, <2>2, <3>4, <3>5, UnderWayIsFollowed
    <3>7. calls[k].path \in ring
      BY <3>1
    <3> QED BY <2>3, <3>5, <3>6, <3>7
  <2> QED BY <2>5, <2>6
<1> HIDE DEF ring
<1> QED BY <1>4, <1>5, <1>6 DEF LeadsBack

\* m_handled_parts is enough for every package that has no part that leads
\* back to itself: a part is recorded when its handler returns, and the only
\* other parts that were parsed are those whose handlers have not returned,
\* each of which leads to the next.
THEOREM PartsAreReadOnce ==
    Spec => [](AbsoluteTargetsAreLeaves(package) => EachPartIsReadOnce)
<1> DEFINE Good == AbsoluteTargetsAreLeaves(package)
           Inv == Good => ChainInv /\ (LeadsBack(package) \/ OnceInv)
<1>1. Init => Inv
  BY HandledInit, OnceInit DEF Init, ChainInv
<1>2. Inv /\ [Next]_vars => Inv'
  <2> SUFFICES ASSUME Inv, [Next]_vars, Good'
               PROVE  ChainInv' /\ (LeadsBack(package)' \/ OnceInv')
    OBVIOUS
  <2>1. Good /\ package' = package
    BY PackageStays
  <2>2. ChainInv'
    BY <2>1, ChainNext
  <2>3. CASE LeadsBack(package)
    BY <2>1, <2>2, <2>3
  <2>4. CASE ~LeadsBack(package)
    <3>1. NoPartLeadsBack
      BY <2>1, <2>4, ReadInsideItself DEF NoPartLeadsBack
    <3>2. OnceInv'
      BY <2>1, <2>4, <3>1, OnceNext
    <3> QED BY <2>2, <3>2
  <2> QED BY <2>2, <2>3, <2>4
<1>3. Inv => (Good => EachPartIsReadOnce)
  BY DEF OnceInv, EachPartIsReadOnce
<1> QED BY <1>1, <1>2, <1>3, PTL DEF Spec

=============================================================================
