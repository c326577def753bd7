------------------------------ MODULE OdfStyles ------------------------------
(***************************************************************************)
(* The styles of an ODS file over the document's import_styles: the        *)
(* default and the named styles of styles.xml, then the automatic ones of  *)
(* content.xml (styles_context and its style_context), and the number      *)
(* styles of both with their seven contexts.  What a style says of a part  *)
(* is committed when it is read; its format when the style ends.           *)
(***************************************************************************)
EXTENDS ImportSheet, SequencesExt

CONSTANTS OdfStyleAttrs,    \* attributes of style:style: records [family, name, parent, data]
          OdfFamilies,      \* families of style:default-style
          OdfNumberStyles,  \* number:*-style elements: [kind, name, parts], the parts in order
          OdfProperties,    \* properties of a style: records [e, v], v a function of attributes
          MaxOdfStyles      \* bound on the elements of both files

VARIABLES styles,           \* the import_styles
          cxt,              \* members of the contexts and of ods_session_data
          file              \* the styles read so far, each with its properties

vars == <<styles, cxt, file>>

Idle == [family |-> "none"]
PlainCell == [font |-> 0, fill |-> 0, border |-> 0, protection |-> 0, numfmt |-> 0,
              hor |-> Plain, align |-> Plain]

Init == /\ styles = NewStyles
        /\ cxt = [phase |-> "styles", automatic |-> FALSE, commit |-> TRUE, cur |-> Idle, default |-> << >>,
                  styles |-> << >>, session |-> << >>, formats |-> << >>, numbers |-> << >>]
        /\ file = << >>

MoreToCome == FoldLeft(LAMBDA n, x : n + 1 + Len(x.props), 0, file) < MaxOdfStyles
Says(entry) == file' = Append(file, [entry EXCEPT !.auto = cxt.automatic])
Reading == cxt.phase \in {"styles", "automatic"} /\ cxt.cur = Idle

(* commit_default_styles(), once, before the first style of styles.xml     *)
(* that is not a default one.                                              *)
FormatOf(cell) == [PlainFormat EXCEPT !.font = cell.font, !.fill = cell.fill, !.border = cell.border,
                       !.protection = cell.protection, !.numfmt = cell.numfmt,
                       !.align = cell.hor @@ cell.align, !.apply_border = cell.border > 0]
WithFormat(st, cat, format) == CommitFormat([StartFormat(st, cat) EXCEPT !.xf = format])
DefaultParts(st) ==
    AddPart(AddPart(AddPart(AddPart(AddPart(st, "font", Plain), "fill", Plain), "border", Plain),
                    "protection", Plain), "numfmt", Plain)
CommitDefaultStyles(st) ==
    LET cell == IF "cell" \in DOMAIN cxt.default THEN cxt.default["cell"] ELSE PlainCell
        formats == WithFormat(WithFormat(DefaultParts(st), "cell", FormatOf(cell)), "cell_style", PlainFormat)
    IN  CommitStyle(StartStyleOf(formats))
CommitsDefaults == cxt.commit /\ ~cxt.automatic

StartDefaultStyle(family) ==
    /\ Reading /\ MoreToCome
    /\ cxt' = [cxt EXCEPT !.cur = [family |-> family, name |-> NoText, parent |-> NoText,
                                   default |-> TRUE, cell |-> PlainCell]]
    /\ Says([e |-> "default", attrs |-> [family |-> family], props |-> << >>, auto |-> FALSE])
    /\ UNCHANGED styles

(* create_child_context(), then start_style(): a number style is looked up *)
(* by the name it has now.                                                 *)
NumberOf(name) == IF name \in DOMAIN cxt.numbers THEN cxt.numbers[name] ELSE 0
StartStyle(a) ==
    /\ Reading /\ MoreToCome
    /\ styles' = IF CommitsDefaults THEN CommitDefaultStyles(styles) ELSE styles
    /\ cxt' = [cxt EXCEPT !.commit = @ /\ ~CommitsDefaults,
                   !.cur = [family |-> a.family, name |-> a.name, parent |-> a.parent, default |-> FALSE,
                            cell |-> [PlainCell EXCEPT !.numfmt = NumberOf(a.data)]]]
    /\ Says([e |-> "style", attrs |-> a, props |-> << >>, auto |-> FALSE])

OfNow(x) == file' = [file EXCEPT ![Len(file)].props = Append(@, x)]
(* A font is committed also for a family that has no use for it.           *)
TextProperties(x) ==
    /\ cxt.cur # Idle /\ MoreToCome /\ x.e = "text"
    /\ styles' = AddPart(styles, "font", x.v)
    /\ cxt' = IF cxt.cur.family \in {"cell", "text"}
              THEN [cxt EXCEPT !.cur.cell.font = IdOfCommit(WithPart(styles, "font", x.v), "font")] ELSE cxt
    /\ OfNow(x)
ParagraphProperties(x) ==
    /\ cxt.cur # Idle /\ MoreToCome /\ x.e = "paragraph"
    /\ cxt' = IF cxt.cur.family \in {"cell", "paragraph"} THEN [cxt EXCEPT !.cur.cell.hor = x.v] ELSE cxt
    /\ OfNow(x)
    /\ UNCHANGED styles

(* All that a cell's properties can set is set, to 0 where they say        *)
(* nothing; for another family they end the import.                        *)
AddIf(st, part, v) == IF part \in DOMAIN v THEN AddPart(st, part, v[part]) ELSE st
IdIf(part, v) == IF part \in DOMAIN v THEN Len(styles.store[part]) ELSE 0
CellProperties(x) ==
    /\ cxt.cur # Idle /\ MoreToCome /\ x.e = "cell"
    /\ IF cxt.cur.family = "cell"
       THEN /\ styles' = AddIf(AddIf(AddIf(styles, "fill", x.v), "border", x.v), "protection", x.v)
            /\ cxt' = [cxt EXCEPT !.cur.cell.fill = IdIf("fill", x.v), !.cur.cell.border = IdIf("border", x.v),
                                  !.cur.cell.protection = IdIf("protection", x.v),
                                  !.cur.cell.align = IF "align" \in DOMAIN x.v THEN x.v["align"] ELSE Plain]
       ELSE cxt' = [cxt EXCEPT !.phase = "failed"] /\ UNCHANGED styles
    /\ OfNow(x)

(* end_child_context(): the first default style of a family stays.         *)
EndDefaultStyle ==
    /\ cxt.phase # "failed" /\ cxt.cur # Idle /\ cxt.cur.default
    /\ cxt' = [cxt EXCEPT !.cur = Idle, !.default = @ @@ (cxt.cur.family :> cxt.cur.cell)]
    /\ UNCHANGED <<styles, file>>

(* query_parent_style_xfid(): the styles of the session come first.        *)
Key(family, name) == <<family, name>>
ParentInTheFile(s) ==
    LET key == Key(s.family, s.parent) IN IF key \in DOMAIN cxt.styles THEN cxt.styles[key] ELSE 0
ParentOf(s) ==
    LET key == Key(s.family, s.parent) IN
    IF s.parent = NoText \/ s.family # "cell" THEN 0
    ELSE IF key \in DOMAIN cxt.session THEN cxt.session[key]
    ELSE IF key \in DOMAIN cxt.styles THEN cxt.styles[key] ELSE 0
FormatOfNow == [FormatOf(cxt.cur.cell) EXCEPT !.style = ParentOf(cxt.cur)]
(* A named style gets a format and a record, an automatic one a format;    *)
(* the first of a family and name keeps it.                                *)
NamedStyle(st, s) ==
    CommitStyle([StartStyleOf(WithFormat(st, "cell_style", FormatOfNow)) EXCEPT
                    !.style.name = s.name, !.style.xf = Len(st.xfs["cell_style"]), !.style.parent = s.parent])
EndStyle ==
    /\ cxt.phase # "failed" /\ cxt.cur # Idle /\ ~cxt.cur.default
    /\ LET s == cxt.cur
           cat == IF cxt.automatic THEN "cell" ELSE "cell_style"
       IN  /\ styles' = IF s.family # "cell" THEN styles
                        ELSE IF cxt.automatic THEN WithFormat(styles, cat, FormatOfNow) ELSE NamedStyle(styles, s)
           /\ cxt' = [cxt EXCEPT !.cur = Idle,
                          !.styles = @ @@ (Key(s.family, s.name) :>
                                             (IF s.family = "cell" THEN Len(styles.xfs[cat]) ELSE 0))]
    /\ UNCHANGED file

(* The contexts of number styles build a code of what their elements say,  *)
(* each in the order it comes in; elements of other kinds are ignored with *)
(* all that is in them.                                                    *)
Repeat(c, n) == [k \in 1..n |-> c]
If(b, code) == IF b THEN code ELSE << >>

(* parse_element_number(): with a thousands separator at least four places *)
(* are written.                                                            *)
Grouped(n) == LET place(k) == IF k % 3 = 0 /\ k # 0 THEN <<"0", ",">> ELSE <<"0">>
              IN  FlattenSeq([k \in 1..n |-> place(n - k)])
IntegerCode(x) ==
    IF ~x.grouping THEN If(x.min = 0, <<"#">>) \o Repeat("0", x.min)
    ELSE IF x.min < 4 THEN <<"#", ",">> \o Repeat("#", 3 - x.min) \o Repeat("0", x.min)
    ELSE Grouped(x.min)
NumberCode(x) == IntegerCode(x) \o If(x.decimals > 0, <<".">> \o Repeat("0", x.decimals))
ScientificCode(x) ==
    IntegerCode(x) \o <<".">> \o Repeat("0", x.decimals) \o <<"E", "+">> \o Repeat("0", x.exponent)
(* std::string{"?", n} takes n characters from a literal of one: the next  *)
(* is its terminator, and those after it are whatever follows in memory.   *)
Taken(c, n) == [k \in 1..n |-> IF k = 1 THEN c ELSE IF k = 2 THEN "NUL" ELSE "beyond"]
FractionCode(x) ==
    If(x.int > 0, Taken("#", x.int) \o <<" ">>) \o Taken("?", x.num) \o <<"/">>
        \o (IF x.value # << >> THEN x.value ELSE Taken("?", x.den))

ShortOrLong(c, x) == c \o If(x.long, c)
TextCode(x) == FlattenSeq(x.pieces)
DateElement(x) ==
    CASE x.e = "day" -> ShortOrLong(<<"D">>, x)
      [] x.e = "year" -> ShortOrLong(<<"Y", "Y">>, x)
      [] x.e = "month" -> If(x.textual, <<"M">>) \o ShortOrLong(<<"M">>, x) \o If(x.textual /\ x.long, <<"M">>)
      [] x.e = "text" -> TextCode(x)
      [] OTHER -> << >>
TimeElement(x) ==
    CASE x.e = "hours" -> ShortOrLong(<<"H">>, x)
      [] x.e = "minutes" -> ShortOrLong(<<"M">>, x)
      [] x.e = "seconds" -> ShortOrLong(<<"S">>, x) \o Taken("S", x.decimals)
      [] x.e = "am-pm" -> <<"AM/PM">>
      [] x.e = "text" -> TextCode(x)
      [] OTHER -> << >>
PercentageElement(x) ==
    CASE x.e = "number" -> NumberCode(x) [] x.e = "text" -> TextCode(x) [] OTHER -> << >>
BooleanElement(x) == If(x.e = "boolean", <<"BOOLEAN">>)
TextElement(x) ==
    CASE x.e = "text-content" -> <<"@">> [] x.e = "text" -> TextCode(x) [] OTHER -> << >>

(* parse_element_map(): a rule comes before the code there is, with the    *)
(* code that the style it names has now; without a value it ends the       *)
(* import.                                                                 *)
CodeNow(name) == IF name \in DOMAIN cxt.numbers
                 THEN styles.store["numfmt"][cxt.numbers[name] + 1]["code"] ELSE NoText
Mapped(x, code) ==
    IF x.comp = NoText \/ CodeNow(x.style) = NoText THEN code
    ELSE <<"[">> \o x.comp \o x.value \o <<"]">> \o CodeNow(x.style) \o <<";">> \o code
ColorCode(x) == If(x.color # "other", <<"[", x.color, "]">>)
NumberElement(x) ==
    CASE x.e = "number" -> NumberCode(x)
      [] x.e = "scientific" -> ScientificCode(x)
      [] x.e = "fraction" -> FractionCode(x)
      [] x.e = "color" -> ColorCode(x)
      [] x.e = "text" -> TextCode(x)
      [] OTHER -> << >>
CurrencyElement(x) ==
    CASE x.e = "number" -> NumberCode(x)
      [] x.e = "symbol" -> <<"[$">> \o TextCode(x) \o <<"]">>
      [] x.e = "color" -> ColorCode(x)
      [] x.e = "text" -> TextCode(x)
      [] OTHER -> << >>
ElementCode(kind, x) ==
    CASE kind = "number" -> NumberElement(x) [] kind = "currency" -> CurrencyElement(x)
      [] kind = "percentage" -> PercentageElement(x) [] kind = "date" -> DateElement(x)
      [] kind = "time" -> TimeElement(x) [] kind = "boolean" -> BooleanElement(x)
      [] kind = "text" -> TextElement(x)
HasRules(kind) == kind \in {"number", "currency"}
CodeOf(a) ==
    LET step(code, x) == IF x.e # "map" THEN code \o ElementCode(a.kind, x)
                         ELSE IF HasRules(a.kind) THEN Mapped(x, code) ELSE code
    IN  FoldLeft(step, << >>, a.parts)
FailsIn(a) == HasRules(a.kind) /\ \E k \in DOMAIN a.parts : a.parts[k].e = "map" /\ a.parts[k].value = NoText

(* push_number_style(): the last one with a name has it.                   *)
NumberStyle(a) ==
    /\ Reading /\ MoreToCome
    /\ IF FailsIn(a) THEN cxt' = [cxt EXCEPT !.phase = "failed"] /\ UNCHANGED styles
       ELSE IF a.name = NoText \/ CodeOf(a) = NoText THEN UNCHANGED <<styles, cxt>>
       ELSE /\ styles' = AddPart(styles, "numfmt", "code" :> CodeOf(a))
            /\ cxt' = [cxt EXCEPT !.numbers = (a.name :> Len(styles.store["numfmt"])) @@ @]
    /\ Says([e |-> "number", attrs |-> a, code |-> CodeOf(a), props |-> << >>, auto |-> FALSE])

(* merge(): the styles that are read later replace those before them.      *)
EndStyles ==
    /\ Reading /\ cxt.phase = "styles"
    /\ cxt' = [cxt EXCEPT !.phase = "content", !.session = cxt.styles @@ @, !.styles = << >>]
    /\ UNCHANGED <<styles, file>>
StartAutomaticStyles ==
    /\ cxt.phase = "content"
    /\ cxt' = [cxt EXCEPT !.phase = "automatic", !.automatic = TRUE, !.commit = TRUE, !.default = << >>]
    /\ UNCHANGED <<styles, file>>
EndAutomaticStyles ==
    /\ Reading /\ cxt.phase = "automatic"
    /\ cxt' = [cxt EXCEPT !.phase = "body",
                   !.formats = [n \in {k[2] : k \in {j \in DOMAIN cxt.styles : j[1] = "cell"}} |->
                                    cxt.styles[Key("cell", n)]]]
    /\ UNCHANGED <<styles, file>>

Next == \/ \E f \in OdfFamilies : StartDefaultStyle(f)
        \/ \E a \in OdfStyleAttrs : StartStyle(a)
        \/ \E x \in OdfProperties : cxt.phase # "failed"
               /\ (TextProperties(x) \/ ParagraphProperties(x) \/ CellProperties(x))
        \/ \E a \in OdfNumberStyles : NumberStyle(a)
        \/ EndDefaultStyle \/ EndStyle \/ EndStyles \/ StartAutomaticStyles \/ EndAutomaticStyles
-----------------------------------------------------------------------------
Elements(e, auto) == {k \in DOMAIN file : file[k].e = e /\ file[k].auto = auto}
CellStyles(auto) == {k \in Elements("style", auto) : file[k].attrs.family = "cell"}
HasEnded(k) == k < Len(file) \/ cxt.cur = Idle
FirstNamed(k, auto) == \A j \in CellStyles(auto) : j < k => file[j].attrs.name # file[k].attrs.name
FormatOfStyle(k) == IF file[k].auto THEN styles.xfs["cell"][cxt.styles[Key("cell", file[k].attrs.name)] + 1]
                    ELSE LET key == Key("cell", file[k].attrs.name) IN
                         styles.xfs["cell_style"]
                             [(IF cxt.phase = "styles" THEN cxt.styles[key] ELSE cxt.session[key]) + 1]
Given(k, e) == SelectSeq(file[k].props, LAMBDA x : x.e = e)
LastOf(s) == s[Len(s)].v

(* The format found by the name of a style has the font, the fill, the     *)
(* borders and the protection its properties give last; where they say     *)
(* nothing it has the first record there is.                               *)
HasPart(f, part, k) ==
    LET given == Given(k, "cell") IN
    IF given # << >> /\ part \in DOMAIN LastOf(given)
    THEN RecordOf(styles, part, f[part]) = LastOf(given)[part] ELSE f[part] = 0
OdfStylesAreFound ==
    cxt.phase \in {"styles", "automatic"} =>
        \A k \in CellStyles(cxt.automatic) :
            (HasEnded(k) /\ FirstNamed(k, cxt.automatic)) =>
                LET f == FormatOfStyle(k)
                    fonts == Given(k, "text")
                IN  /\ \A part \in {"fill", "border", "protection"} : HasPart(f, part, k)
                    /\ IF fonts = << >> THEN f.font = 0 ELSE RecordOf(styles, "font", f.font) = LastOf(fonts)

(* A number format of a style is that of the last number style before it   *)
(* with the name, in either file.                                          *)
NumberStyles(k, name) ==
    {j \in 1..k-1 : file[j].e = "number" /\ file[j].attrs.name = name /\ file[j].code # NoText}
OdfNumbersAreNamed ==
    cxt.phase \in {"styles", "automatic"} =>
        \A k \in CellStyles(cxt.automatic) :
            LET a == file[k].attrs
                numbers == NumberStyles(k, a.data)
                f == FormatOfStyle(k)
            IN  (HasEnded(k) /\ FirstNamed(k, cxt.automatic)) =>
                   IF a.data = NoText \/ numbers = {} THEN f.numfmt = 0
                   ELSE RecordOf(styles, "numfmt", f.numfmt)
                            = "code" :> file[CHOOSE j \in numbers : \A i \in numbers : i <= j].code

(* A style with a parent of styles.xml has the format of the first style   *)
(* with that name there, which came before it.                             *)
OdfParentsAreNamed ==
    cxt.phase \in {"styles", "automatic"} =>
        \A k \in CellStyles(cxt.automatic) :
            LET a == file[k].attrs
                parents == {j \in CellStyles(FALSE) : j < k /\ file[j].attrs.name = a.parent}
                first == CHOOSE j \in parents : \A i \in parents : j <= i
            IN  (HasEnded(k) /\ FirstNamed(k, cxt.automatic) /\ a.parent # NoText /\ parents # {}) =>
                    FormatOfStyle(k).style = Cardinality({j \in CellStyles(FALSE) : j <= first})

(* The first record of a kind is the plain one, unless something was       *)
(* committed before the first style that is not a default one: the fonts   *)
(* and the cell properties of default styles and number styles do that.    *)
Early(k) == \A j \in Elements("style", FALSE) : k < j
OdfDefaultsAreFirst ==
    (Elements("style", FALSE) # {}) =>
        /\ RecordOf(styles, "font", 0) # Plain =>
              \E k \in Elements("default", FALSE) : Early(k) /\ Given(k, "text") # << >>
        /\ RecordOf(styles, "numfmt", 0) # Plain => \E k \in Elements("number", FALSE) : Early(k)

(* The code of a number style is read as its elements say: all texts are   *)
(* in it, a number has the places it asks for and a separator after each   *)
(* group of three from the right, and the rules are sections before the    *)
(* plain one, each with the code of the last style before that has the     *)
(* name: the rule that comes last in the file is the first in the code.    *)
IsIn(s, t) == \E i \in 0..Len(t) - Len(s) : \A j \in DOMAIN s : t[i + j] = s[j]
Count(c, code) == Cardinality({k \in DOMAIN code : code[k] = c})
LastNamed(k, name) == LET js == NumberStyles(k, name) IN CHOOSE j \in js : \A i \in js : i <= j
Applied(k) == SelectSeq(file[k].attrs.parts, LAMBDA x :
                  /\ x.e = "map" /\ HasRules(file[k].attrs.kind)
                  /\ x.comp # NoText /\ NumberStyles(k, x.style) # {})
Section(k, x) == <<"[">> \o x.comp \o x.value \o <<"]">> \o file[LastNamed(k, x.style)].code \o <<";">>
RuleCode(k) == FlattenSeq(Reverse([i \in DOMAIN Applied(k) |-> Section(k, Applied(k)[i])]))
PlainCode(k) == SubSeq(file[k].code, Len(RuleCode(k)) + 1, Len(file[k].code))
PlacesAreRight(code, x) ==
    LET point == SelectInSeq(code, LAMBDA c : c = ".")
        whole == IF point = 0 THEN code ELSE SubSeq(code, 1, point - 1)
    IN  /\ Count("0", whole) = x.min
        /\ Count("0", code) = x.min + x.decimals
        /\ (point # 0) = (x.decimals > 0)
        /\ (Count(",", whole) > 0) = x.grouping
        /\ \A i \in DOMAIN whole : whole[i] = "," =>
              Cardinality({j \in i+1..Len(whole) : whole[j] # ","}) % 3 = 0
OdfCodesAreOfTheirStyles ==
    \A k \in DOMAIN file : (file[k].e = "number" /\ ~FailsIn(file[k].attrs)) =>
        LET kind == file[k].attrs.kind
            parts == SelectSeq(file[k].attrs.parts, LAMBDA x : x.e # "map")
        IN  /\ SubSeq(file[k].code, 1, Len(RuleCode(k))) = RuleCode(k)
            /\ kind # "boolean" => \A i \in DOMAIN parts : parts[i].e = "text" => IsIn(TextCode(parts[i]), PlainCode(k))
            /\ (Len(parts) = 1 /\ parts[1].e = "number" /\ kind \in {"number", "currency", "percentage"})
                  => PlacesAreRight(PlainCode(k), parts[1])
=============================================================================
