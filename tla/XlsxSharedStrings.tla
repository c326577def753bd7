------------------------- MODULE XlsxSharedStrings -------------------------
(***************************************************************************)
(* The import of the shared string part of an XLSX package:                *)
(* xlsx_shared_strings_context over the document's import_shared_strings.  *)
(* A string is an si element with one t, or with runs r of their own       *)
(* format.  The cells refer to strings by number.                          *)
(***************************************************************************)
EXTENDS ImportSheet, FiniteSetsExt, SequencesExt

CONSTANTS Formats,      \* properties of a run: bold, a colour, ...
          Texts,        \* pieces of text of a t element, before they get their number
          MaxStrings,   \* bound on the elements of the part
          CR            \* a carriage return

VARIABLES strings,      \* the import_shared_strings
          cxt,          \* members of the context
          file          \* the strings read so far: what the part says

vars == <<strings, cxt, file>>

Init == /\ strings = NewStrings
        /\ cxt = [phase |-> "sst", str |-> NoText, segments |-> FALSE]
        /\ file = << >>

Run(t, own, props) == [text |-> t, own |-> own, props |-> props]
SizeOfString(s) == 1 + Len(s.ts) + FoldLeft(LAMBDA n, r : n + 1 + Cardinality(r.props) + Len(r.own), 0, s.runs)
MoreToCome == FoldLeft(LAMBDA n, s : n + SizeOfString(s), 0, file) < MaxStrings
OfNow(field, v) == file' = [file EXCEPT ![Len(file)][field] = v]
NowString == file[Len(file)]

(* Two pieces of text are told apart by where they are in the file.        *)
Numbered(t, n) == [k \in DOMAIN t |-> IF t[k] = CR THEN CR ELSE 100 * Len(file) + 10 * n + k]
NextNumber == FoldLeft(LAMBDA n, r : n + 1 + Len(r.own), Len(NowString.ts), NowString.runs)

(* The end of characters(): the carriage returns go, but only when some    *)
(* text is in the buffer by then.                                          *)
Without(t) == FoldLeft(LAMBDA s, c : IF c = CR THEN s ELSE Append(s, c), << >>, t)
RemoveCRs(t) == IF \E i, j \in DOMAIN t : i < j /\ t[i] # CR /\ t[j] = CR THEN Without(t) ELSE t

StartString == /\ cxt.phase = "sst" /\ MoreToCome
               /\ cxt' = [cxt EXCEPT !.phase = "si", !.segments = FALSE]
               /\ file' = Append(file, [ts |-> << >>, runs |-> << >>, before |-> cxt.str, ended |-> FALSE])
               /\ UNCHANGED strings

StartRun == /\ cxt.phase = "si" /\ MoreToCome
            /\ cxt' = [cxt EXCEPT !.phase = "r", !.segments = TRUE]
            /\ OfNow("runs", Append(NowString.runs, Run(cxt.str, << >>, {})))
            /\ UNCHANGED strings

NowRun == NowString.runs[Len(NowString.runs)]

(* The elements of rPr: each goes to the document at once.                 *)
RunProperty(f) ==
    /\ cxt.phase = "r" /\ MoreToCome /\ NowRun.own = << >> /\ f \notin NowRun.props
    /\ strings' = SetSegment(strings, {f})
    /\ OfNow("runs", [NowString.runs EXCEPT ![Len(NowString.runs)].props = @ \cup {f}])
    /\ UNCHANGED cxt

(* characters() of a t element: each piece of text replaces the one before *)
(* it.                                                                     *)
Characters(t) ==
    LET text == RemoveCRs(Numbered(t, NextNumber)) IN
    /\ cxt' = [cxt EXCEPT !.str = text]
    /\ IF cxt.phase = "si" THEN OfNow("ts", Append(NowString.ts, text))
       ELSE OfNow("runs", [NowString.runs EXCEPT ![Len(NowString.runs)].text = text,
                                                 ![Len(NowString.runs)].own = Append(@, text)])
    /\ UNCHANGED strings

(* The start of a t element and its first text; an empty one has no call.  *)
StartText(t) == /\ MoreToCome
                /\ cxt.phase = "r" \/ (cxt.phase = "si" /\ NowString.runs = << >>)
                /\ Characters(t)
FurtherText(t) == /\ MoreToCome /\ cxt.str # NoText /\ t # NoText
                  /\ \/ cxt.phase = "si" /\ NowString.ts # << >> /\ NowString.runs = << >>
                     \/ cxt.phase = "r" /\ NowRun.own # << >>
                  /\ Characters(t)

EndRun == /\ cxt.phase = "r"
          /\ strings' = AppendSegment(strings, cxt.str)
          /\ cxt' = [cxt EXCEPT !.phase = "si"]
          /\ UNCHANGED file

EndString == /\ cxt.phase = "si"
             /\ strings' = IF cxt.segments THEN CommitSegments(strings)
                           ELSE AppendString(strings, cxt.str)
             /\ cxt' = [cxt EXCEPT !.phase = "sst"]
             /\ OfNow("ended", TRUE)

Next == \/ StartString \/ StartRun \/ EndRun \/ EndString
        \/ \E f \in Formats : RunProperty(f)
        \/ \E t \in Texts : StartText(t) \/ FurtherText(t)

Ended == cxt.phase = "sst" /\ ~MoreToCome
-----------------------------------------------------------------------------
(* Each string but the last one has ended.                                 *)
Ends == IF file # << >> /\ ~NowString.ended THEN Front(file) ELSE file

(* What the text of an si is: that of its runs, or of its t.  An si or a   *)
(* run without a t has no text of its own and takes that of the last t     *)
(* before it in the part, as the context does not reset what it keeps.     *)
TextOfString(s) == IF s.runs # << >> THEN FlattenSeq([k \in DOMAIN s.runs |-> s.runs[k].text])
                   ELSE IF s.ts = << >> THEN s.before ELSE s.ts[Len(s.ts)]

(* The number of a string is that of its si element in the part: each is   *)
(* stored once, when it ends, with its own text where it has one, also     *)
(* when another one with the same text is there or its runs are empty.     *)
StringsAreNumbered ==
    /\ Len(strings.table) = Len(Ends)
    /\ \A k \in DOMAIN Ends : strings.table[k].text = TextOfString(Ends[k])

(* The places where the runs of a string start.                            *)
StartOf(s, k) == FoldLeft(LAMBDA n, r : n + Len(r.text), 0, SubSeq(s.runs, 1, k - 1))

(* A format of a stored string covers the whole text of one run of its own *)
(* si and has every property of that run.  It has those of the runs        *)
(* without text right before it as well, also of such runs that end an     *)
(* earlier string: the document keeps them for the next text.  It has no   *)
(* other property.                                                         *)
LeftBefore(k, r) ==
    LET all == FlattenSeq([j \in 1..k |-> IF j < k THEN Ends[j].runs ELSE SubSeq(Ends[k].runs, 1, r - 1)])
        textless == {n \in DOMAIN all : \A m \in n..Len(all) : all[m].text = NoText}
    IN  UNION {all[n].props : n \in textless}
FormatsAreOfTheirRun ==
    \A k \in DOMAIN Ends :
        LET s == Ends[k]
            Formatted == {r \in DOMAIN s.runs :
                            s.runs[r].text # NoText /\ s.runs[r].props \cup LeftBefore(k, r) # {}}
        IN  {<<f.pos, f.size, f.fmt>> : f \in {strings.table[k].runs[n] : n \in DOMAIN strings.table[k].runs}}
            = {<<StartOf(s, r), Len(s.runs[r].text), s.runs[r].props \cup LeftBefore(k, r)>> : r \in Formatted}
=============================================================================
