---------------------------- MODULE XlsXmlStyles ----------------------------
(***************************************************************************)
(* The styles of an Excel 2003 XML file (xls_xml_context) over the         *)
(* document's import_styles.  The styles wait until the Styles element     *)
(* ends; the one with the id "Default" is committed before the others.     *)
(* Cells refer to a style by its id, and so does a style to its parent.    *)
(***************************************************************************)
EXTENDS ImportSheet, SequencesExt

CONSTANTS XmlStyles,      \* attributes of a Style: records [id, name, parent]
          StyleElements,  \* elements of a Style: records [e, v], v a function of attributes
          DefaultId,      \* the id "Default"
          MaxXmlStyles    \* bound on the elements of a file

VARIABLES styles,         \* the import_styles
          cxt,            \* members of the context
          file            \* the styles read so far, each with its elements

vars == <<styles, cxt, file>>

NewXmlStyle == [id |-> NoText, name |-> NoText, parent |-> NoText,
                font |-> [bold |-> FALSE, color |-> 0], fill |-> [solid |-> FALSE, color |-> 0],
                align |-> Plain, protection |-> [locked |-> TRUE], numfmt |-> NoText, borders |-> << >>]
NoDefault == [NewXmlStyle EXCEPT !.id = <<0>>]

Init == /\ styles = NewStyles
        /\ cxt = [phase |-> "styles", cur |-> NewXmlStyle, default |-> NoDefault, styles |-> << >>,
                  cells |-> << >>, named |-> << >>]
        /\ file = << >>

MoreToCome == FoldLeft(LAMBDA n, s : n + 1 + Len(s.elements), 0, file) < MaxXmlStyles

StartStyle(a) ==
    /\ cxt.phase = "styles" /\ MoreToCome
    /\ cxt' = [cxt EXCEPT !.phase = "style",
                   !.cur = [NewXmlStyle EXCEPT !.id = a.id, !.name = a.name, !.parent = a.parent]]
    /\ file' = Append(file, [attrs |-> a, elements |-> << >>])
    /\ UNCHANGED styles

(* start_element(): what each element sets in the current style.  A border *)
(* without a known side and style is left out; the weight of its line      *)
(* changes the style.                                                      *)
Weighted(style, weight) ==
    CASE style = "solid" -> CASE weight = 0 -> "hair" [] weight = 1 -> "thin" [] weight = 2 -> "medium"
                              [] weight = 3 -> "thick" [] OTHER -> "solid"
      [] style \in {"dashed", "dash dot", "dash dot dot"} /\ weight > 1 -> "medium " \o style
      [] OTHER -> style
Into(s, x) ==
    CASE x.e \in {"font", "fill", "align", "protection"} -> [s EXCEPT ![x.e] = x.v @@ @]
      [] x.e = "numfmt" -> [s EXCEPT !.numfmt = x.v]
      [] x.e = "borders" -> [s EXCEPT !.borders = << >>]
      [] x.e = "border" /\ "unknown" \notin {x.v.dir, x.v.style} ->
            [s EXCEPT !.borders = Append(@, [dir |-> x.v.dir, style |-> Weighted(x.v.style, x.v.weight)])]
      [] OTHER -> s
Element(x) ==
    /\ cxt.phase = "style" /\ MoreToCome
    /\ cxt' = [cxt EXCEPT !.cur = Into(@, x)]
    /\ file' = [file EXCEPT ![Len(file)].elements = Append(@, x)]
    /\ UNCHANGED styles

EndStyle == /\ cxt.phase = "style"
            /\ cxt' = IF cxt.cur.id = DefaultId THEN [cxt EXCEPT !.phase = "styles", !.default = cxt.cur]
                      ELSE [cxt EXCEPT !.phase = "styles", !.styles = Append(@, cxt.cur)]
            /\ UNCHANGED <<styles, file>>
-----------------------------------------------------------------------------
FillOf(s) == [color |-> s.fill.color, pattern |-> IF s.fill.solid THEN "solid" ELSE "none"]
BordersOf(s) == FoldLeft(LAMBDA b, side : (side.dir :> side.style) @@ b, Plain, s.borders)

(* commit_default_style(): the first record of each kind, and of each of   *)
(* the two kinds of formats, is that of the default style.                 *)
Aligned(st, s) == [st EXCEPT !.xf.align = s.align, !.xf.apply_alignment = s.align # Plain]
DefaultParts(st, s) ==
    LET has == s # NoDefault
        font == AddPart(st, "font", IF has THEN s.font ELSE Plain)
        fill == AddPart(font, "fill", IF has THEN FillOf(s) ELSE Plain)
        border == AddPart(fill, "border", BordersOf(s))
        protection == AddPart(border, "protection", IF has THEN s.protection ELSE Plain)
    IN  AddPart(protection, "numfmt", IF has THEN "code" :> s.numfmt ELSE Plain)
Normal == <<1>>
CommitDefaultStyle(st, s) ==
    LET cell == CommitFormat(Aligned(StartFormat(DefaultParts(st, s), "cell"), s))
        named == StartFormat(cell, "cell_style")
        style == StartStyleOf(CommitFormat(IF s.name = Normal THEN Aligned(named, s) ELSE named))
    IN  CommitStyle([style EXCEPT !.style.name = IF s.name = Normal THEN Normal ELSE @])

(* commit_styles(): the parent must be a named style that was committed    *)
(* before; parts that say nothing are not committed.                       *)
WithParent(st, named, s) == IF s.parent \in DOMAIN named THEN [st EXCEPT !.xf.style = named[s.parent]] ELSE st
WithFill(st, s) == IF s.fill.solid THEN PutPart(st, "fill", FillOf(s)) ELSE StartPart(st, "fill")
WithBorder(st, s) == IF s.borders = << >> THEN st ELSE PutPart(st, "border", BordersOf(s))
WithNumber(st, s) == IF s.numfmt = NoText THEN st ELSE PutPart(st, "numfmt", "code" :> s.numfmt)
WithStyle(st, s) ==
    WithNumber(Aligned(WithBorder(
        PutPart(WithFill(PutPart(st, "font", s.font), s), "protection", s.protection), s), s), s)

(* A named style gets a record, and a cell format that refers to it.  The  *)
(* first style with an id keeps it.                                        *)
AddLastStyle(m, s, st) ==
    [m EXCEPT !.styles = CommitFormat(st), !.cells = (s.id :> IdOfFormat(st)) @@ @]
AddCellStyle(m, s, st) ==
    [m EXCEPT !.styles = CommitFormat(st), !.cells = @ @@ (s.id :> IdOfFormat(st))]
NamedRecord(st, s, id) ==
    CommitStyle([StartStyleOf(CommitFormat(st)) EXCEPT !.style.name = s.name, !.style.xf = id])
AddNamedStyle(m, s, st) ==
    LET cell == [StartFormat(NamedRecord(st, s, IdOfFormat(st)), "cell") EXCEPT !.xf.style = IdOfFormat(st)]
    IN  AddCellStyle([m EXCEPT !.named = @ @@ (s.id :> IdOfFormat(st))], s, cell)
AddStyle(m, s) ==
    IF s.name = NoText THEN AddCellStyle(m, s, WithStyle(WithParent(StartFormat(m.styles, "cell"), m.named, s), s))
    ELSE AddNamedStyle(m, s, WithStyle(WithParent(StartFormat(m.styles, "cell_style"), m.named, s), s))

EndStyles ==
    /\ cxt.phase = "styles"
    /\ LET m == FoldLeft(AddStyle, [styles |-> CommitDefaultStyle(styles, cxt.default),
                                    cells |-> << >>, named |-> << >>], cxt.styles)
       IN  /\ styles' = m.styles
           /\ cxt' = [cxt EXCEPT !.phase = "tables", !.cells = m.cells, !.named = m.named]
    /\ UNCHANGED file

Next == \/ \E a \in XmlStyles : StartStyle(a)
        \/ \E x \in StyleElements : Element(x)
        \/ EndStyle \/ EndStyles
-----------------------------------------------------------------------------
(* What the file says of a style: the last attribute of a name, and the    *)
(* borders after the last Borders element.                                 *)
Others == {k \in DOMAIN file : file[k].attrs.id # DefaultId}
FirstOfId(id) == CHOOSE k \in Others : file[k].attrs.id = id /\ \A j \in Others : j < k => file[j].attrs.id # id
Said(k, e) == SelectSeq(file[k].elements, LAMBDA x : x.e = e)
SaidOf(k, e, default) == FoldLeft(LAMBDA f, x : x.v @@ f, default, Said(k, e))
Sides(k) ==
    LET elements == file[k].elements
        after == {i \in DOMAIN elements : \A j \in i..Len(elements) : elements[j].e # "borders"}
        of(d) == {i \in after : elements[i].e = "border" /\ elements[i].v.dir = d /\ elements[i].v.style # "unknown"}
        directions == {elements[i].v.dir : i \in {j \in after : elements[j].e = "border"}} \ {"unknown"}
    IN  [d \in {x \in directions : of(x) # {}} |->
            LET last == elements[CHOOSE i \in of(d) : \A j \in of(d) : j <= i].v IN Weighted(last.style, last.weight)]

Cells(id) == styles.xfs["cell"][cxt.cells[id] + 1]
NamedXf(id) == styles.xfs["cell_style"][cxt.named[id] + 1]
IsNamed(k) == file[k].attrs.name # NoText
NamedIds(k) == {file[j].attrs.id : j \in {i \in Others : IsNamed(i) /\ i < k}}

(* A cell format or the format of a named style has the font, the solid    *)
(* fill, the borders, the number format and the alignment of the style     *)
(* element it is for, and nothing of another.                              *)
HasParts(xf, k) ==
    LET fill == SaidOf(k, "fill", NewXmlStyle.fill)
        codes == Said(k, "numfmt")
    IN  /\ RecordOf(styles, "font", xf.font) = SaidOf(k, "font", NewXmlStyle.font)
        /\ RecordOf(styles, "protection", xf.protection) = SaidOf(k, "protection", NewXmlStyle.protection)
        /\ IF fill.solid THEN RecordOf(styles, "fill", xf.fill).color = fill.color ELSE xf.fill = 0
        /\ IF Sides(k) = Plain THEN xf.border = 0 ELSE RecordOf(styles, "border", xf.border) = Sides(k)
        /\ IF codes = << >> \/ codes[Len(codes)].v = NoText THEN xf.numfmt = 0
           ELSE RecordOf(styles, "numfmt", xf.numfmt) = "code" :> codes[Len(codes)].v
        /\ xf.align = SaidOf(k, "align", Plain)
XlsXmlStylesAreFound ==
    cxt.phase = "tables" =>
        \A k \in Others :
            LET id == file[k].attrs.id IN
            /\ IsNamed(k) /\ id \notin NamedIds(k) => HasParts(NamedXf(id), k)
            /\ k = FirstOfId(id) => IF IsNamed(k) THEN Cells(id).style = cxt.named[id]
                                   ELSE HasParts(Cells(id), k)

(* The parent of a style is the first named style with the id, when that   *)
(* came before it.                                                         *)
XlsXmlParentsAreNamed ==
    cxt.phase = "tables" =>
        \A k \in Others :
            LET a == file[k].attrs
                xf == IF IsNamed(k) THEN NamedXf(a.id) ELSE Cells(a.id)
            IN  k = FirstOfId(a.id) =>
                    xf.style = IF a.parent \in NamedIds(k) THEN cxt.named[a.parent] ELSE 0

(* The first records are the default ones, of the last style with that id, *)
(* whatever comes before it in the file.                                   *)
XlsXmlDefaultIsFirst ==
    cxt.phase = "tables" =>
        LET defaults == DOMAIN file \ Others
            last == CHOOSE k \in defaults : \A j \in defaults : j <= k
        IN  IF defaults = {} THEN \A p \in Parts : RecordOf(styles, p, 0) = Plain
            ELSE /\ RecordOf(styles, "font", 0) = SaidOf(last, "font", NewXmlStyle.font)
                 /\ RecordOf(styles, "border", 0) = Sides(last)
                 /\ styles.xfs["cell"][1].align = SaidOf(last, "align", Plain)
=============================================================================
