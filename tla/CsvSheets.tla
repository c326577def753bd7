------------------------------ MODULE CsvSheets ------------------------------
(***************************************************************************)
(* orcus_csv: csv_parser cuts the stream into rows and cells, and the      *)
(* handler puts them into sheets; when one is full the rest goes to        *)
(* another one, below a copy of the header rows.  Values are not trimmed,  *)
(* as the filter never asks for it.                                        *)
(***************************************************************************)
EXTENDS Integers, FiniteSets, SequencesExt

CONSTANTS Chars,                    \* the characters of a file
          Delim, Quote, Line, Blank,
          MaxChars,                 \* bound on the length of the file
          Configs                   \* [rows, cols, split, headers]: the size of a sheet, config::csv_config

VARIABLES doc,    \* the cells of each sheet: a function of row and column
          cxt,    \* the parser and its handler
          file    \* the content

vars == <<doc, cxt, file>>

Handler(conf) == [phase |-> "row", at |-> 1, row |-> 0, col |-> 0, headers |-> << >>, conf |-> conf]
NoCells == << >>

Init == /\ doc = <<NoCells>>
        /\ \E conf \in Configs : cxt = Handler(conf)
        /\ file \in UNION {[1..n -> Chars] : n \in 1..MaxChars}
-----------------------------------------------------------------------------
(* The parser and the document together, as they go over a text.           *)
HasChar(s, text) == s.cxt.at <= Len(text)
SetAuto(cells, row, col, v) == IF v = << >> THEN cells ELSE (<<row, col>> :> v) @@ cells
EndRow(s) == [s EXCEPT !.cxt.row = @ + 1, !.cxt.col = 0, !.cxt.phase = "row"]

BeginRow(s) ==
    LET c == s.cxt   H == c.headers
        copied == FoldLeft(LAMBDA cells, h : SetAuto(cells, h.row, h.col, h.text), NoCells, H)
    IN  CASE c.row < c.conf.rows -> [s EXCEPT !.cxt.phase = "cell"]
          [] c.row >= c.conf.rows /\ ~c.conf.split -> [s EXCEPT !.cxt.phase = "full"]
          [] OTHER -> [s EXCEPT !.doc = Append(@, copied), !.cxt.phase = "cell",
                                !.cxt.row = IF H = << >> THEN 0 ELSE c.conf.headers]

(* (The model of cells has no place for one beyond the sheet.)             *)
Cell(s, v) ==
    LET c == s.cxt
        header == [row |-> c.row, col |-> c.col, text |-> v]
        t == IF Len(s.doc) = 1 /\ c.row < c.conf.headers THEN [s EXCEPT !.cxt.headers = Append(@, header)] ELSE s
    IN  IF v # << >> /\ (c.row >= c.conf.rows \/ c.col >= c.conf.cols) THEN [t EXCEPT !.cxt.phase = "out of range"]
        ELSE [t EXCEPT !.doc[Len(s.doc)] = SetAuto(@, c.row, c.col, v), !.cxt.col = @ + 1, !.cxt.phase = "separator"]

FirstOf(text, from, cs) ==
    LET there == {k \in from..Len(text) : text[k] \in cs} IN
    IF there = {} THEN Len(text) + 1 ELSE Min(there)

PlainCell(s, text) ==
    LET end == FirstOf(text, s.cxt.at, {Line, Delim}) IN
    Cell([s EXCEPT !.cxt.at = end], SubSeq(text, s.cxt.at, end - 1))

(* The text up to the closing quote, two quotes being one.                 *)
RECURSIVE Unquote(_, _)
Unquote(text, from) ==
    LET q == FirstOf(text, from, {Quote}) IN
    IF q < Len(text) /\ text[q + 1] = Quote
    THEN LET rest == Unquote(text, q + 2) IN
         [rest EXCEPT !.text = SubSeq(text, from, q) \o @, !.pairs = TRUE]
    ELSE [text |-> SubSeq(text, from, q - 1), pairs |-> FALSE, end |-> q]

SkipBlanks(text, from) ==
    LET there == {k \in from..Len(text) : text[k] # Blank} IN
    IF there = {} THEN Len(text) + 1 ELSE Min(there)

QuotedCell(s, text) ==
    LET u == Unquote(text, s.cxt.at + 1) IN
    CASE s.cxt.at = Len(text) -> [s EXCEPT !.cxt.at = @ + 1, !.cxt.phase = "separator"]
      [] s.cxt.at < Len(text) /\ u.end > Len(text) /\ u.pairs -> [s EXCEPT !.cxt.phase = "parse_error"]
      [] OTHER -> Cell([s EXCEPT !.cxt.at = SkipBlanks(text, u.end + 1)], u.text)

ReadCell(s, text) == IF text[s.cxt.at] = Quote THEN QuotedCell(s, text) ELSE PlainCell(s, text)

AfterCell(s, text) ==
    LET t == [s EXCEPT !.cxt.at = @ + 1] IN
    CASE ~HasChar(s, text) -> EndRow(s)
      [] HasChar(s, text) /\ text[s.cxt.at] = Line -> EndRow(t)
      [] HasChar(s, text) /\ text[s.cxt.at] \notin {Line, Delim} -> [s EXCEPT !.cxt.phase = "parse_error"]
      [] OTHER -> IF HasChar(t, text) THEN [t EXCEPT !.cxt.phase = "cell"] ELSE EndRow(t)

Step(s, text) == CASE s.cxt.phase = "row" /\ HasChar(s, text) -> BeginRow(s)
                   [] s.cxt.phase = "row" /\ ~HasChar(s, text) -> [s EXCEPT !.cxt.phase = "done"]
                   [] s.cxt.phase = "cell" -> ReadCell(s, text)
                   [] s.cxt.phase = "separator" -> AfterCell(s, text)
                   [] OTHER -> s

Next == LET s == Step([doc |-> doc, cxt |-> cxt], file) IN
        /\ s.cxt # cxt
        /\ doc' = s.doc /\ cxt' = s.cxt /\ UNCHANGED file

Spec == Init /\ [][Next]_vars
-----------------------------------------------------------------------------
RECURSIVE Run(_, _)
Run(s, text) == IF s.cxt.phase \in {"row", "cell", "separator"} THEN Run(Step(s, text), text) ELSE s
Load(text, conf) == Run([doc |-> <<NoCells>>, cxt |-> Handler(conf)], text)
Large == [rows |-> 99, cols |-> 99, split |-> FALSE, headers |-> 0]

(* csv_dumper: all cells from the first one of the sheet to the last row   *)
(* and the last column that have one.                                      *)
DumpString(v) ==
    LET q == {Delim, Quote, Line} \cap Range(v) # {}
        twice == FlattenSeq([k \in DOMAIN v |-> IF v[k] = Quote THEN <<Quote, Quote>> ELSE <<v[k]>>])
    IN  IF q THEN <<Quote>> \o twice \o <<Quote>> ELSE v
DumpCell(cells, r, c) ==
    (IF c = 0 /\ r > 0 THEN <<Line>> ELSE << >>) \o (IF c > 0 THEN <<Delim>> ELSE << >>)
        \o (IF <<r, c>> \in DOMAIN cells THEN DumpString(cells[<<r, c>>]) ELSE << >>)
Dump(cells) ==
    IF cells = NoCells THEN << >>
    ELSE LET R == Max({p[1] : p \in DOMAIN cells})   C == Max({p[2] : p \in DOMAIN cells}) IN
         FlattenSeq([k \in 1..(R + 1) * (C + 1) |-> DumpCell(cells, (k - 1) \div (C + 1), (k - 1) % (C + 1))])

(* A sheet that was read is the same after it is dumped and read again: no *)
(* character of a cell is taken for the separator of another.              *)
CsvIsReadAgain ==
    cxt.phase = "done" => \A k \in DOMAIN doc : Load(Dump(doc[k]), Large).doc = <<doc[k]>>

(* A file that does not fit into a sheet is dealt out over more of them:   *)
(* each row comes to one place, in the order of the file, below the rows   *)
(* of the header, which are those of the first sheet.                      *)
CsvRowsAreDealtOut ==
    LET all == Load(file, Large).doc[1]
        R == cxt.conf.rows   H == cxt.conf.headers
        Place(r) == IF r < R THEN <<1, r>> ELSE <<2 + (r - R) \div (R - H), H + ((r - R) % (R - H))>>
        kept == {p \in DOMAIN all : p[1] < R \/ cxt.conf.split}
    IN  cxt.phase \in {"done", "full"} =>
            /\ \A p \in kept : LET at == Place(p[1]) IN
                  /\ at[1] \in DOMAIN doc /\ <<at[2], p[2]>> \in DOMAIN doc[at[1]]
                  /\ doc[at[1]][<<at[2], p[2]>>] = all[p]
            /\ \A k \in DOMAIN doc : \A p \in DOMAIN doc[k] :
                  \/ p[1] < H /\ k > 1 /\ p \in DOMAIN all /\ all[p] = doc[k][p]
                  \/ \E q \in kept : Place(q[1]) = <<k, p[1]>> /\ q[2] = p[2]
=============================================================================
