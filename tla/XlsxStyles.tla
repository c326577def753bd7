----------------------------- MODULE XlsxStyles -----------------------------
(***************************************************************************)
(* The import of the style part of an XLSX package (xlsx_styles_context)   *)
(* over the document's import_styles.  Cell formats refer to fonts, fills, *)
(* borders and styles by their position in the part, and to number formats *)
(* by the identifier these have there.                                     *)
(***************************************************************************)
EXTENDS ImportSheet, SequencesExt

CONSTANTS SectionOrders,    \* orders of the sections of a part, each at most once
          StyleValues,      \* values of the attributes of fonts, fills and borders
          NumberIds,        \* identifiers of number formats
          BorderSides,      \* elements of a border
          Diagonals,        \* attributes diagonalUp and diagonalDown of a border
          StyleRefs,        \* xf elements: their font, fill, border, numFmt and xf references
          MaxStyleElements  \* bound on the records of the part

VARIABLES styles,           \* the import_styles
          cxt,              \* members of the context
          file              \* what the part says, in the order it is read

vars == <<styles, cxt, file>>

NotSet == -1
FormatSections == [cellStyleXfs |-> "cell_style", cellXfs |-> "cell", dxfs |-> "differential"]
ListedParts == {"font", "fill", "border"}
SectionOf == [font |-> "fonts", fill |-> "fills", border |-> "borders"]

Init == /\ styles = NewStyles
        /\ cxt = [section |-> "none", part |-> "none", inXf |-> FALSE, up |-> FALSE, down |-> FALSE,
                  ids |-> [p \in ListedParts |-> << >>], numfmts |-> << >>, styleXfs |-> << >>]
        /\ \E order \in SectionOrders :
           file = [order |-> order, count |-> 0, parts |-> [p \in ListedParts |-> << >>], numfmts |-> << >>,
                      xfs |-> [c \in Categories |-> << >>], styles |-> << >>]

MoreToCome == file.count < MaxStyleElements
(* An attribute or a side of the element being read is set once at most.   *)
NowPart(part) == file.parts[part][Len(file.parts[part])]
NowXfs == file.xfs[styles.category]

StartSection(n) ==
    LET s == file.order[n] IN
    /\ cxt.section = "none" /\ MoreToCome
    /\ cxt' = [cxt EXCEPT !.section = s]
    /\ styles' = IF s \in DOMAIN FormatSections THEN StartFormat(styles, FormatSections[s])
                 ELSE IF s = "cellStyles" THEN StartStyleOf(styles) ELSE styles
    /\ file' = [file EXCEPT !.order = SubSeq(@, n + 1, Len(@))]
EndSection == /\ cxt.section # "none" /\ cxt.part = "none" /\ ~cxt.inXf
              /\ cxt' = [cxt EXCEPT !.section = "none"]
              /\ UNCHANGED <<styles, file>>

(* A fill of a dxf is not there: the validator has its rule for "dx".      *)
Allowed(part) == \/ cxt.section = SectionOf[part]
                 \/ cxt.section = "dxfs" /\ cxt.inXf /\ part \in {"font", "border"}
StartListed(part, up, down) ==
    /\ Allowed(part) /\ cxt.part = "none" /\ MoreToCome
    /\ styles' = StartPart(styles, part)
    /\ cxt' = [cxt EXCEPT !.part = part, !.up = up, !.down = down]
    /\ file' = [file EXCEPT !.count = @ + 1, !.parts[part] = Append(@, Plain)]

(* The direction of a diagonal is that of its border's attributes; without *)
(* one the diagonal and its colour are for no side.                        *)
DirectionOf(side) ==
    IF side # "diagonal" THEN side
    ELSE CASE cxt.up /\ cxt.down -> "diagonal" [] cxt.up -> "diagonal_bl_tr"
           [] cxt.down -> "diagonal_tl_br" [] OTHER -> "unknown"
SetOf(part, attr, v) ==
    /\ cxt.part = part /\ attr \notin DOMAIN NowPart(part)
    /\ styles' = IF attr = "unknown" THEN styles ELSE SetPart(styles, part, attr, v)
    /\ file' = IF attr = "unknown" THEN file
               ELSE [file EXCEPT !.parts[part][Len(file.parts[part])] = (attr :> v) @@ @]
    /\ UNCHANGED cxt
FontAttribute(a, v) == SetOf("font", a, v)
FillAttribute(a, v) == SetOf("fill", a, v)
BorderSide(side, v) == SetOf("border", DirectionOf(side), v)

EndListed == /\ cxt.part \in ListedParts
             /\ styles' = CommitPart(styles, cxt.part)
             /\ cxt' = [cxt EXCEPT !.part = "none",
                            !.ids[cxt.part] = Append(@, IdOfCommit(styles, cxt.part))]
             /\ UNCHANGED file

(* numFmt: the last one with an identifier has it.                         *)
WithNumber(numfmts, id, n) == [x \in DOMAIN numfmts \cup {id} |-> IF x = id THEN n ELSE numfmts[x]]
NumberFormat(id, v) ==
    /\ MoreToCome
    /\ cxt.section = "numFmts" \/ (cxt.section = "dxfs" /\ cxt.inXf /\ cxt.part = "none")
    /\ styles' = AddPart(styles, "numfmt", "code" :> v)
    /\ cxt' = IF id = NotSet THEN cxt
              ELSE [cxt EXCEPT !.numfmts = WithNumber(@, id, IdOfCommit(styles, "numfmt"))]
    /\ file' = [file EXCEPT !.count = @ + 1, !.numfmts = Append(@, <<id, v>>)]

(* References out of bound are warned about and leave what was set.        *)
Listed(ids, n, set) == IF n # NotSet /\ n < Len(ids) THEN ids[n + 1] ELSE set
StartXf(ref) ==
    /\ cxt.section \in {"cellStyleXfs", "cellXfs"} /\ ~cxt.inXf /\ MoreToCome
    /\ styles' = SetFormatPart(
                    [styles EXCEPT !.xf.font = Listed(cxt.ids["font"], ref.font, @),
                                   !.xf.fill = Listed(cxt.ids["fill"], ref.fill, @),
                                   !.xf.numfmt = IF ref.numfmt \in DOMAIN cxt.numfmts
                                                 THEN cxt.numfmts[ref.numfmt] ELSE @,
                                   !.xf.style = Listed(cxt.styleXfs, ref.xf, @),
                                   !.xf.apply_alignment = ref.align],
                    "border", Listed(cxt.ids["border"], ref.border, styles.xf.border))
    /\ cxt' = [cxt EXCEPT !.inXf = TRUE]
    /\ file' = [file EXCEPT !.count = @ + 1,
                    !.xfs[styles.category] = Append(@, [ref |-> ref, align |-> Plain, locked |-> NotSet,
                        before |-> [p \in ListedParts |-> Len(file.parts[p])], numfmts |-> Len(file.numfmts),
                        styleXfs |-> Len(file.xfs["cell_style"])])]
NoRefs == [font |-> NotSet, fill |-> NotSet, border |-> NotSet, numfmt |-> NotSet, xf |-> NotSet, align |-> FALSE]
StartDxf == /\ cxt.section = "dxfs" /\ ~cxt.inXf /\ MoreToCome
            /\ cxt' = [cxt EXCEPT !.inXf = TRUE]
            /\ file' = [file EXCEPT !.count = @ + 1,
                            !.xfs["differential"] = Append(@, [ref |-> NoRefs, align |-> Plain, locked |-> NotSet])]
            /\ UNCHANGED styles

OfXf(field, v) == file' = [file EXCEPT !.count = @ + 1, !.xfs[styles.category][Len(NowXfs)][field] = v]
(* All four are set; without the attribute the vertical one is "bottom".   *)
Alignment(hor, ver) ==
    LET align == [hor |-> hor, ver |-> IF ver = NotSet THEN "bottom" ELSE ver] IN
    /\ cxt.inXf /\ cxt.part = "none" /\ MoreToCome
    /\ styles' = [styles EXCEPT !.xf.align = align]
    /\ OfXf("align", align)
    /\ UNCHANGED cxt
(* The protection of an xf is a record of its own, set when it ends.       *)
Protection(locked) ==
    /\ cxt.inXf /\ cxt.part = "none" /\ MoreToCome
    /\ styles' = PutPart(styles, "protection", "locked" :> locked)
    /\ OfXf("locked", locked)
    /\ UNCHANGED cxt

EndXf == /\ cxt.inXf /\ cxt.part = "none"
         /\ styles' = CommitFormat(styles)
         /\ cxt' = [cxt EXCEPT !.inXf = FALSE,
                        !.styleXfs = IF cxt.section = "cellStyleXfs" THEN Append(@, IdOfFormat(styles)) ELSE @]
         /\ UNCHANGED file

(* The start and the end of a cellStyle.                                   *)
CellStyle(name, xf) ==
    /\ cxt.section = "cellStyles" /\ MoreToCome
    /\ styles' = CommitStyle([styles EXCEPT !.style.name = name, !.style.xf = Listed(cxt.styleXfs, xf, @)])
    /\ file' = [file EXCEPT !.count = @ + 1,
                    !.styles = Append(@, [name |-> name, xf |-> xf, styleXfs |-> Len(file.xfs["cell_style"])])]
    /\ UNCHANGED cxt

Next == \/ \E n \in DOMAIN file.order : StartSection(n)
        \/ \E p \in {"font", "fill"} : StartListed(p, FALSE, FALSE)
        \/ \E d \in Diagonals : StartListed("border", d.up, d.down)
        \/ \E v \in StyleValues : FontAttribute("size", v) \/ FontAttribute("bold", v) \/ FillAttribute("pattern", v)
        \/ \E v \in StyleValues, s \in BorderSides : BorderSide(s, v)
        \/ \E id \in NumberIds, v \in StyleValues : NumberFormat(id, v)
        \/ \E ref \in StyleRefs : StartXf(ref)
        \/ \E v \in StyleValues : Alignment(v, NotSet) \/ Protection(v)
        \/ \E v \in StyleValues, n \in {NotSet, 0, 1} : CellStyle(<<v>>, n)
        \/ EndSection \/ EndListed \/ StartDxf \/ EndXf
-----------------------------------------------------------------------------
Ended(cat) == DOMAIN styles.xfs[cat]

(* What an xf says of its n-th font, fill or border is what it gets, when  *)
(* that one was read before it; otherwise what the document has first.     *)
FirstOf(part) == RecordOf(styles, part, 0)
PartOf(part, xf) == LET n == xf.ref[part] IN
                    IF n # NotSet /\ n < xf.before[part] THEN file.parts[part][n + 1] ELSE FirstOf(part)
NumbersBefore(xf) == {i \in 1..xf.numfmts : file.numfmts[i][1] = xf.ref.numfmt}
NumberOf(xf) == LET last == CHOOSE i \in NumbersBefore(xf) : \A j \in NumbersBefore(xf) : j <= i IN
                IF xf.ref.numfmt # NotSet /\ NumbersBefore(xf) # {} THEN "code" :> file.numfmts[last][2]
                ELSE FirstOf("numfmt")
StyleOf(e, n) == IF n \in 0..e.styleXfs - 1 THEN n ELSE 0
XlsxFormatsHaveTheirParts ==
    \A cat \in {"cell", "cell_style"} : \A k \in Ended(cat) :
        LET xf == file.xfs[cat][k]
            f == styles.xfs[cat][k]
        IN  /\ RecordOf(styles, "font", f.font) = PartOf("font", xf)
            /\ RecordOf(styles, "fill", f.fill) = PartOf("fill", xf)
            /\ RecordOf(styles, "border", f.border) = PartOf("border", xf)
            /\ RecordOf(styles, "numfmt", f.numfmt) = NumberOf(xf)
            /\ f.style = StyleOf(xf, xf.ref.xf)
            /\ f.apply_border => f.border > 0

(* The alignment and the protection of a format are those of its own       *)
(* element, none where that has none.                                      *)
XlsxFormatsAreAligned ==
    \A cat \in Categories : \A k \in Ended(cat) :
        /\ styles.xfs[cat][k].align = file.xfs[cat][k].align
        /\ file.xfs[cat][k].locked # NotSet =>
              RecordOf(styles, "protection", styles.xfs[cat][k].protection) = "locked" :> file.xfs[cat][k].locked

(* A format of the differential kind keeps none of the parts it has.       *)
XlsxDifferentialsHaveNoParts ==
    \A k \in Ended("differential") :
        LET f == styles.xfs["differential"][k] IN
        /\ f.font = 0 /\ f.fill = 0 /\ f.border = 0 /\ f.numfmt = 0

(* A named style has the name of its element and the format that element   *)
(* refers to; where several have a format, the last one is found by it.    *)
XlsxStylesAreNamed ==
    \A k \in DOMAIN styles.named :
        LET s == file.styles[k] IN
        /\ styles.named[k].name = s.name
        /\ styles.named[k].xf = StyleOf(s, s.xf)
        /\ StyleByFormat(styles, styles.named[k].xf) >= k
=============================================================================
