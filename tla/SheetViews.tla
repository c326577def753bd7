------------------------------ MODULE SheetViews ------------------------------
(***************************************************************************)
(* Which sheet is active, what is selected in its panes and how it is      *)
(* split, as XLSX and Excel 2003 XML files say it.  An XLSX element says   *)
(* all in its attributes; the elements of the other format are gathered    *)
(* leaf by leaf, in records the next sheet uses again.                     *)
(***************************************************************************)
EXTENDS Integers, SequencesExt, FiniteSetsExt, TLC

CONSTANTS ViewFormats,    \* "xlsx", "xls-xml"
          ViewElements,   \* the elements of an XLSX sheet view
          OptionLeaves,   \* leaves of a WorksheetOptions element: name and text, "" if none
          PaneLeaves,     \* of a Pane element
          LeafSets,       \* those that are tried together
          AnyCells,       \* what an address that is not set may hold
          MaxViewSheets,  \* bounds, the second for each format
          MaxViewParts

VARIABLES builder, doc, cxt, file

vars == <<builder, doc, cxt, file>>

NoCell      == <<-1, -1>>
NoSelection == [first |-> NoCell, last |-> NoCell]
SheetPanes  == {"topLeft", "topRight", "bottomLeft", "bottomRight"}

\* A view of the document: the split and the frozen panes are kept apart.
NewView == [selection |-> [p \in SheetPanes |-> NoSelection], active |-> "topLeft",
            split |-> << >>, frozen |-> << >>]
NewSelection == [pane |-> "unspecified", col |-> 0, row |-> 0, range |-> NoSelection]
NewSplitPane == [state |-> "split", active |-> "topLeft", horizontal |-> 0, vertical |-> 0, top |-> 0, left |-> 0]

Init == /\ \E f \in ViewFormats, s \in LeafSets :
              cxt = [format |-> f, leaves |-> IF f = "xlsx" THEN {} ELSE s, sheet |-> 1, open |-> << >>,
                     cursor |-> NewSelection, split |-> NewSplitPane]
        /\ doc = [active |-> 1, views |-> [i \in 1..MaxViewSheets |-> NewView]]
        /\ file = << >>

(* The calls on a sheet's view.                                            *)
SetSheetActive(d, i)         == [d EXCEPT !.active = i]
SetSelectedRange(d, i, p, r) == [d EXCEPT !.views[i].selection[p] = r]
SetPane(d, i, how, s, p)     == [d EXCEPT !.views[i].active = p,
                                          !.views[i].split = IF how = "split" THEN s ELSE @,
                                          !.views[i].frozen = IF how = "frozen" THEN s ELSE @]

Took(part) == file' = Append(file, [sheet |-> cxt.sheet, part |-> part])

-----------------------------------------------------------------------------
\* XLSX: a name that is not known is unspecified, and that has a default.
ToSheetPane(v) == IF v \in SheetPanes THEN v ELSE "topLeft"
ToPaneState(v) == IF v \in {"frozen", "frozenSplit", "split"} THEN v ELSE "split"

SheetView(e) == doc' = IF e.selected THEN SetSheetActive(doc, cxt.sheet) ELSE doc
Selection(e) == doc' = SetSelectedRange(doc, cxt.sheet, ToSheetPane(e.pane), e.range)
Pane(e) == \E c \in AnyCells :
    LET cell == IF e.cell = << >> THEN c ELSE e.cell      \* not initialized
        how  == ToPaneState(e.state)
    IN doc' = IF how = "frozenSplit" THEN doc      \* a warning
              ELSE SetPane(doc, cxt.sheet, how, [x |-> e.x, y |-> e.y, cell |-> cell], ToSheetPane(e.pane))
XlsxElement(e) == /\ cxt.format = "xlsx"
                  /\ \/ e.name = "sheetView" /\ SheetView(e)
                     \/ e.name = "selection" /\ Selection(e)
                     \/ e.name = "pane" /\ Pane(e)
                  /\ Took(e) /\ UNCHANGED cxt

-----------------------------------------------------------------------------
\* Excel 2003 XML: 3 | 1 over 2 | 0.
NumberedPane(n) == IF n \in 0..3 THEN <<"bottomRight", "topRight", "bottomLeft", "topLeft">>[n + 1] ELSE "unspecified"

\* start_element: most are reset as they start,
StartLeaf(c, l) ==
    CASE l.name = "FreezePanes"         -> [c EXCEPT !.split.state = "frozenSplit"]
      [] l.name = "FrozenNoSplit"       -> [c EXCEPT !.split.state = "frozen"]
      [] l.name = "ActivePane"          -> [c EXCEPT !.split.active = "unspecified"]
      [] l.name = "SplitHorizontal"     -> [c EXCEPT !.split.horizontal = 0]
      [] l.name = "SplitVertical"       -> [c EXCEPT !.split.vertical = 0]
      [] l.name = "TopRowBottomPane"    -> [c EXCEPT !.split.top = 0]
      [] l.name = "LeftColumnRightPane" -> [c EXCEPT !.split.left = 0]
      [] OTHER                          -> c
\* characters: and then set.
Characters(c, l) ==
    CASE l.name = "ActivePane"          -> [c EXCEPT !.split.active = NumberedPane(l.text)]
      [] l.name = "SplitHorizontal"     -> [c EXCEPT !.split.horizontal = l.text]
      [] l.name = "SplitVertical"       -> [c EXCEPT !.split.vertical = l.text]
      [] l.name = "TopRowBottomPane"    -> [c EXCEPT !.split.top = l.text]
      [] l.name = "LeftColumnRightPane" -> [c EXCEPT !.split.left = l.text]
      [] l.name = "Number"              -> [c EXCEPT !.cursor.pane = NumberedPane(l.text)]
      [] l.name = "ActiveCol"           -> [c EXCEPT !.cursor.col = l.text]
      [] l.name = "ActiveRow"           -> [c EXCEPT !.cursor.row = l.text]
      [] l.name = "RangeSelection"      -> [c EXCEPT !.cursor.range = l.range]
      [] OTHER                          -> c
Leaf(l) == /\ cxt.open # << >>
           /\ l \in cxt.leaves /\ l \in IF Last(cxt.open) = "Pane" THEN PaneLeaves ELSE OptionLeaves
           /\ cxt' = IF l.text = -1 THEN StartLeaf(cxt, l) ELSE Characters(StartLeaf(cxt, l), l)
           /\ doc' = IF l.name = "Selected" THEN SetSheetActive(doc, cxt.sheet) ELSE doc
           /\ Took(l)

StartOptions == /\ cxt.format = "xls-xml" /\ cxt.open = << >>
                /\ cxt' = [cxt EXCEPT !.open = <<"WorksheetOptions">>, !.split = NewSplitPane]
                /\ Took([name |-> "WorksheetOptions"]) /\ UNCHANGED doc
StartPane    == /\ cxt.open = <<"WorksheetOptions">> /\ cxt.leaves \cap PaneLeaves # {}
                /\ cxt' = [cxt EXCEPT !.open = Append(@, "Pane"), !.cursor = NewSelection]
                /\ Took([name |-> "Pane"]) /\ UNCHANGED doc

ValidCursor(s) == s.col >= 0 /\ s.row >= 0
ValidRange(s)  == s.range # NoSelection
EndPane == LET s    == cxt.cursor
               cell == <<s.row, s.col>>
           IN /\ cxt.open # << >> /\ Last(cxt.open) = "Pane"
              /\ doc' = CASE s.pane = "unspecified" -> doc
                          [] s.pane # "unspecified" /\ ValidRange(s) -> SetSelectedRange(doc, cxt.sheet, s.pane, s.range)
                          [] s.pane # "unspecified" /\ ~ValidRange(s) /\ ValidCursor(s) ->
                                 SetSelectedRange(doc, cxt.sheet, s.pane, [first |-> cell, last |-> cell])
                          [] OTHER -> doc
              /\ cxt' = [cxt EXCEPT !.open = Front(@)]
              /\ Took([name |-> "/Pane"])

\* The position of a horizontal bar is a vertical split, and the other way.
Splits(s) == (s.horizontal # 0 \/ s.vertical # 0) /\ (s.top # 0 \/ s.left # 0)
CommitSplitPane(d, s) ==
    IF ~Splits(s) \/ s.state = "frozenSplit" THEN d
    ELSE SetPane(d, cxt.sheet, s.state, [x |-> s.vertical, y |-> s.horizontal, cell |-> <<s.top, s.left>>], s.active)
EndOptions == /\ cxt.open = <<"WorksheetOptions">>
              /\ doc' = CommitSplitPane(doc, cxt.split)
              /\ cxt' = [cxt EXCEPT !.open = << >>, !.split = IF Splits(@) THEN NewSplitPane ELSE @]
              /\ Took([name |-> "/WorksheetOptions"])

NextSheet == /\ cxt.open = << >> /\ cxt.sheet < MaxViewSheets
             /\ cxt' = [cxt EXCEPT !.sheet = @ + 1]
             /\ UNCHANGED <<doc, file>>

Next == /\ \/ /\ Len(file) < MaxViewParts[cxt.format]
              /\ \/ \E e \in ViewElements : XlsxElement(e)
                 \/ \E l \in OptionLeaves \cup PaneLeaves : Leaf(l)
                 \/ StartOptions
                 \/ StartPane
           \/ EndPane
           \/ EndOptions
           \/ NextSheet
        /\ UNCHANGED builder

-----------------------------------------------------------------------------
(* A view shows what the elements of its own sheet say, whatever the       *)
(* sheets and panes before it left behind: the last selection of a pane,   *)
(* the last split and the last frozen panes; and the active sheet is the   *)
(* last one that says so.                                                  *)
Named(k, n)    == file[k].part.name = n
Of(i, n)       == {k \in DOMAIN file : file[k].sheet = i /\ Named(k, n)}
\* Among the places of S the value of the last, or else d.
LastOf(S, V(_), d) == IF S = {} THEN d ELSE V(Max(S))
Start(k, n)    == Max({j \in 1..k : Named(j, n)})      \* of the element that ends at k
LeavesSince(k, n)   == {j \in Start(k, n)..k : \E l \in OptionLeaves \cup PaneLeaves : file[j].part = l}
Value(k, n, leaf, d) == LastOf({j \in LeavesSince(k, n) : Named(j, leaf)}, LAMBDA j : file[j].part.text, d)
Told(k, leaf, d)     == LastOf({j \in LeavesSince(k, "Pane") : Named(j, leaf) /\ file[j].part.text # -1},
                               LAMBDA j : file[j].part.text, d)
Zero(n)        == IF n = -1 THEN 0 ELSE n

PaneOf(k)      == NumberedPane(Told(k, "Number", -1))
SelectionOf(k) ==
    LET cell == <<Told(k, "ActiveRow", 0), Told(k, "ActiveCol", 0)>>
    IN LastOf({j \in LeavesSince(k, "Pane") : Named(j, "RangeSelection") /\ file[j].part.text # -1},
              LAMBDA j : file[j].part.range, [first |-> cell, last |-> cell])

Sizes(k) == [x |-> Zero(Value(k, "WorksheetOptions", "SplitVertical", 0)),
             y |-> Zero(Value(k, "WorksheetOptions", "SplitHorizontal", 0)),
             cell |-> <<Zero(Value(k, "WorksheetOptions", "TopRowBottomPane", 0)),
                        Zero(Value(k, "WorksheetOptions", "LeftColumnRightPane", 0))>>]
StateOf(k) == LastOf({j \in LeavesSince(k, "WorksheetOptions") : Named(j, "FreezePanes") \/ Named(j, "FrozenNoSplit")},
                     LAMBDA j : IF Named(j, "FreezePanes") THEN "frozenSplit" ELSE "frozen", "split")
Shown(i, how) == {k \in Of(i, "/WorksheetOptions") :
    StateOf(k) = how /\ (Sizes(k).x # 0 \/ Sizes(k).y # 0) /\ Sizes(k).cell # <<0, 0>>}

XlsXmlView(i) ==
    LET v == doc.views[i]
        both == Shown(i, "split") \cup Shown(i, "frozen")
    IN /\ \A p \in SheetPanes : v.selection[p] = LastOf({k \in Of(i, "/Pane") : PaneOf(k) = p}, SelectionOf, NoSelection)
       /\ v.split = LastOf(Shown(i, "split"), Sizes, << >>)
       /\ v.frozen = LastOf(Shown(i, "frozen"), Sizes, << >>)
       /\ v.active = LastOf(both, LAMBDA k : NumberedPane(Value(k, "WorksheetOptions", "ActivePane", 3)), "topLeft")

XlsxPanes(i, how) == {k \in Of(i, "pane") : file[k].part.state \in IF how = "split" THEN {"split", ""} ELSE {how}}
ShowsPane(v, S) == LastOf(S, LAMBDA k : LET e == file[k].part
                                       IN v # << >> /\ v.x = e.x /\ v.y = e.y /\ (e.cell = << >> \/ v.cell = e.cell), v = << >>)
XlsxView(i) ==
    LET v == doc.views[i]
    IN /\ \A p \in SheetPanes :
             v.selection[p] = LastOf({k \in Of(i, "selection") : file[k].part.pane = p \/ (file[k].part.pane = "" /\ p = "topLeft")},
                                     LAMBDA k : file[k].part.range, NoSelection)
       /\ ShowsPane(v.split, XlsxPanes(i, "split")) /\ ShowsPane(v.frozen, XlsxPanes(i, "frozen"))

SaysActive(k) == Named(k, "Selected") \/ (Named(k, "sheetView") /\ file[k].part.selected)
ViewsAreOwn ==
    /\ \A i \in DOMAIN doc.views : IF cxt.format = "xlsx" THEN XlsxView(i) ELSE XlsXmlView(i)
    /\ doc.active = LastOf({k \in DOMAIN file : SaysActive(k)}, LAMBDA k : file[k].sheet, 1)
=============================================================================
