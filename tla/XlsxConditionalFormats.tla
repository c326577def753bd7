----------------------- MODULE XlsxConditionalFormats -----------------------
(***************************************************************************)
(* The conditional formats of an XLSX sheet: xlsx_conditional_format_      *)
(* context over import_conditional_format.  A format has entries and an    *)
(* entry conditions; each is built by setters and then committed to what   *)
(* is around it.  The context keeps the limits and the colors of a scale   *)
(* until its rule ends.                                                    *)
(***************************************************************************)
EXTENDS Integers, SequencesExt

CONSTANTS CondRanges,       \* values of sqref
          RuleAttrs,        \* of cfRule: [type, dxf, op, text, date, above, equal, bottom]
          LimitTypes,       \* of cfvo, NoName for one that is not known
          BarAttrs,         \* of dataBar and iconSet: [show, min, max, icon, reverse]
          MaxCondElements   \* bound on the elements and texts of a file

VARIABLES conditions,       \* the import_conditional_format
          cxt,              \* members of the context
          file              \* elements read so far: [e, a, in]

vars == <<conditions, cxt, file>>

Unset == << >>              \* a text or color that no setter has set,
NoName == "none"            \* a type, an operator or a date,
NoBar == [show |-> TRUE, min |-> -1, max |-> -1, icon |-> NoName, reverse |-> FALSE]
NoColor == << >>
-----------------------------------------------------------------------------
(* The interface, as its documentation describes it: setters are about the *)
(* current condition, entry or format, and a commit starts the next one.   *)
NewCondition == [formula |-> Unset, type |-> NoName, color |-> Unset]
NewEntry == [xf |-> 0, type |-> NoName, op |-> NoName, date |-> NoName, bar |-> NoBar,
             bar_color |-> Unset, conds |-> << >>]
NewConditions == [range |-> NoName, entries |-> << >>, entry |-> NewEntry, cond |-> NewCondition,
                  committed |-> << >>]
CommitCondition(c) == [c EXCEPT !.entry.conds = Append(@, c.cond), !.cond = NewCondition]
CommitEntry(c) == [c EXCEPT !.entries = Append(@, c.entry), !.entry = NewEntry, !.cond = NewCondition]
CommitFormat(c) == [NewConditions EXCEPT !.committed =
                        Append(c.committed, [range |-> c.range, entries |-> c.entries])]
-----------------------------------------------------------------------------
NewContext == [phase |-> "file", open |-> << >>, text |-> Unset, limits |-> << >>, colors |-> << >>]
Init == conditions = NewConditions /\ cxt = NewContext /\ file = << >>

Innermost == IF cxt.open = << >> THEN 0 ELSE Last(cxt.open)
Open == IF Innermost = 0 THEN "none" ELSE file[Innermost].e
Pieces == FoldLeft(LAMBDA n, x : n + 1 + (IF x.e = "formula" THEN Len(x.a) ELSE 0), 0, file)
MoreToCome == cxt.phase = "file" /\ Pieces < MaxCondElements
Says(e, a) == file' = Append(file, [e |-> e, a |-> a, in |-> Innermost])
Opens(c) == [c EXCEPT !.open = Append(@, Len(file) + 1)]
Closes(c) == [c EXCEPT !.open = Front(@), !.text = Unset]
Ends(e) == cxt.phase = "file" /\ Open = e /\ UNCHANGED file
Scales == {"dataBar", "iconSet", "colorScale"}

(* create_child_context(): reset() leaves nothing of the format before.    *)
StartFormat(range) ==
    /\ MoreToCome /\ Open = "none"
    /\ cxt' = Opens(NewContext)
    /\ conditions' = [conditions EXCEPT !.range = range]
    /\ Says("conditionalFormatting", range)

(* set_type(): a rule of a type that is not known sets nothing.  The text  *)
(* of a rule is set as a formula that only <formula> can commit.           *)
Averages(a) == IF a.above THEN IF a.equal THEN "above_equal_average" ELSE "above_average"
               ELSE IF a.equal THEN "below_equal_average" ELSE "below_average"
OperatorOf(a) ==
    CASE a.type = "cellIs" -> IF a.op = NoName THEN "expression" ELSE a.op
      [] a.type = "top10" -> IF a.bottom THEN "bottom_n" ELSE "top_n"
      [] a.type = "aboveAverage" -> Averages(a)
      [] a.type \in {"expression", "uniqueValues", "duplicateValues", "containsText", "notContainsText",
                     "beginsWith", "endsWith", "containsBlanks", "containsErrors", "notContainsErrors"} -> a.type
      [] OTHER -> NoName
TypeOf(a) == CASE OperatorOf(a) # NoName -> "condition"
               [] a.type \in Scales -> a.type
               [] a.type = "timePeriod" -> "date"
               [] OTHER -> NoName
TextTypes == {"top10", "containsText", "notContainsText", "beginsWith", "endsWith"}
SetsFormula(a) == a.type \in TextTypes \/ (a.type = "aboveAverage" /\ a.text # Unset)
SetType(c, a) ==
    [c EXCEPT !.entry.type = TypeOf(a), !.entry.op = OperatorOf(a),
              !.entry.date = IF a.type = "timePeriod" THEN a.date ELSE @,
              !.cond.formula = IF SetsFormula(a) THEN a.text ELSE @]
StartRule(a) ==
    /\ MoreToCome /\ Open = "conditionalFormatting"
    /\ cxt' = Opens(cxt)
    /\ conditions' = SetType([conditions EXCEPT !.entry.xf = a.dxf], a)
    /\ Says("cfRule", a)

(* The settings of a bar or of icons come when it starts.                  *)
StartScale(e, a) ==
    /\ MoreToCome /\ Open = "cfRule"
    /\ cxt' = Opens(cxt)
    /\ conditions' = IF e = "colorScale" THEN conditions ELSE [conditions EXCEPT !.entry.bar = a]
    /\ Says(e, a)
Fresh == <<Pieces>>         \* a text or a color that the file has nowhere else
Limit(type, val) ==
    /\ MoreToCome /\ Open \in Scales /\ Last(file).e # "color"
    /\ cxt' = [cxt EXCEPT !.limits = Append(@, [type |-> type, val |-> val]), !.text = Unset]
    /\ Says("cfvo", [type |-> type, val |-> val]) /\ UNCHANGED conditions
(* A color that is not given as an rgb value is passed over.               *)
ScaleColor(c) ==
    /\ MoreToCome /\ Open \in Scales
    /\ cxt' = [cxt EXCEPT !.colors = IF c = NoColor THEN @ ELSE Append(@, c), !.text = Unset]
    /\ Says("color", c) /\ UNCHANGED conditions

(* import_cfvo() and the ends of scales: a scale without the numbers of    *)
(* limits and colors it needs ends the import.                             *)
ImportLimit(c, a) == [c EXCEPT !.cond.formula = IF a.val = Unset THEN @ ELSE a.val,
                               !.cond.type = IF a.type = NoName THEN @ ELSE a.type]
CommitLimits(c) == FoldLeft(LAMBDA d, a : CommitCondition(ImportLimit(d, a)), c, cxt.limits)
CommitColors(c) ==
    LET step(d, k) == CommitCondition([ImportLimit(d, cxt.limits[k]) EXCEPT !.cond.color = cxt.colors[k]])
    IN  FoldLeft(step, c, [k \in DOMAIN cxt.limits |-> k])
IsWhole(e) == CASE e = "dataBar" -> Len(cxt.colors) = 1 /\ Len(cxt.limits) = 2
                [] e = "iconSet" -> Len(cxt.limits) >= 2
                [] e = "colorScale" -> Len(cxt.limits) >= 2 /\ Len(cxt.limits) = Len(cxt.colors)
EndScale(e) ==
    /\ Ends(e)
    /\ IF ~IsWhole(e) THEN cxt' = [cxt EXCEPT !.phase = "failed"] /\ UNCHANGED conditions
       ELSE /\ cxt' = Closes(cxt)
            /\ conditions' = CASE e = "dataBar" -> CommitLimits([conditions EXCEPT !.entry.bar_color = cxt.colors[1]])
                               [] e = "iconSet" -> CommitLimits(conditions)
                               [] e = "colorScale" -> CommitColors(conditions)

(* A formula is the last of the texts in its element.                      *)
StartFormula ==
    /\ MoreToCome /\ Open = "cfRule"
    /\ cxt' = Opens(cxt)
    /\ Says("formula", << >>) /\ UNCHANGED conditions
Characters(t) ==
    /\ MoreToCome /\ Open = "formula"
    /\ cxt' = [cxt EXCEPT !.text = t]
    /\ file' = [file EXCEPT ![Innermost].a = Append(@, t)]
    /\ UNCHANGED conditions
EndFormula ==
    /\ Ends("formula")
    /\ conditions' = CommitCondition([conditions EXCEPT !.cond.formula = cxt.text])
    /\ cxt' = Closes(cxt)

EndRule ==
    /\ Ends("cfRule")
    /\ conditions' = CommitEntry(conditions)
    /\ cxt' = [Closes(cxt) EXCEPT !.limits = << >>, !.colors = << >>]
EndFormat ==
    /\ Ends("conditionalFormatting")
    /\ conditions' = CommitFormat(conditions)
    /\ cxt' = Closes(cxt)

Next == \/ \E r \in CondRanges : StartFormat(r)
        \/ \E a \in RuleAttrs : StartRule(a)
        \/ \E e \in Scales, a \in BarAttrs : StartScale(e, a)
        \/ \E t \in LimitTypes, v \in {Unset, Fresh} : Limit(t, v)
        \/ \E c \in {NoColor, Fresh} : ScaleColor(c)
        \/ \E e \in Scales : EndScale(e)
        \/ StartFormula \/ Characters(Fresh) \/ EndFormula \/ EndRule \/ EndFormat
-----------------------------------------------------------------------------
Children(i, es) == SelectSeq([k \in DOMAIN file |-> k], LAMBDA k : file[k].in = i /\ file[k].e \in es)
Attributes(ks) == [k \in DOMAIN ks |-> file[ks[k]].a]
FormatElements == Children(0, {"conditionalFormatting"})
OnlyScale(rule) == Len(Children(rule, Scales)) <= 1

(* What a rule says: one condition for each formula and, for its scale,    *)
(* one for each limit, a color scale with the color in the same place.     *)
ConditionsOfScale(scale) ==
    LET limits == Attributes(Children(scale, {"cfvo"}))
        colors == SelectSeq(Attributes(Children(scale, {"color"})), LAMBDA c : c # NoColor)
    IN  [k \in DOMAIN limits |->
            [formula |-> limits[k].val, type |-> limits[k].type,
             color |-> IF file[scale].e = "colorScale" THEN colors[k] ELSE Unset]]
ConditionOfFormula(k) ==
    [NewCondition EXCEPT !.formula = IF file[k].a = << >> THEN Unset ELSE Last(file[k].a)]
ConditionsOf(rule) ==
    FlattenSeq([k \in DOMAIN Children(rule, Scales \cup {"formula"}) |->
        LET c == Children(rule, Scales \cup {"formula"})[k]
        IN  IF file[c].e = "formula" THEN <<ConditionOfFormula(c)>> ELSE ConditionsOfScale(c)])
EntryIsOf(entry, rule) ==
    LET a == file[rule].a
        scale == Children(rule, Scales)
    IN  /\ entry.xf = a.dxf
        /\ (entry.type = NoName) = (a.type = "unknown")
        /\ entry.date # NoName => a.type = "timePeriod"
        /\ OnlyScale(rule) =>
              /\ entry.bar = IF scale = << >> \/ file[scale[1]].e = "colorScale" THEN NoBar ELSE file[scale[1]].a
              /\ entry.bar_color # Unset => entry.bar_color \in Range(Attributes(Children(scale[1], {"color"})))
        /\ (OnlyScale(rule) /\ (scale # << >> => ~SetsFormula(a))) => entry.conds = ConditionsOf(rule)

(* A conditional format that was read has its range and one entry for each *)
(* of its rules, with the conditions, limits and colors of that rule and   *)
(* of no other.                                                            *)
ConditionsAreOfTheirRules ==
    \A i \in DOMAIN conditions.committed :
        LET format == conditions.committed[i]
            rules == Children(FormatElements[i], {"cfRule"})
        IN  /\ format.range = file[FormatElements[i]].a
            /\ Len(format.entries) = Len(rules)
            /\ \A k \in DOMAIN rules : EntryIsOf(format.entries[k], rules[k])
=============================================================================
