----------------------------- MODULE OpcReader -----------------------------
(***************************************************************************)
(* opc_reader with the part handler of orcus_xlsx                          *)
(* (src/liborcus/opc_reader.cpp, orcus_xlsx.cpp).  A package is read by    *)
(* following relations: read_part walks to the directory of a target, gives *)
(* the part to the handler unless it has been handled, and walks back; the  *)
(* handler parses the part and may call check_relation_part, which reads    *)
(* the parts it relates to in the same way.  The recursion is explicit      *)
(* here: one frame for each loop over relations, with the read_part that    *)
(* the loop has under way.                                                  *)
(***************************************************************************)
EXTENDS Sequences, Naturals, Functions

CONSTANTS
    Packages,   \* the packages to import, each into some document
    Texts,      \* entries of the directory stack and file names
    Empty,      \* "", the entry of the package root
    Up,         \* ".."
    Slash,      \* "/", the empty segment an absolute target starts with
    RelsDir,    \* "_rels/"
    StackLimit  \* how many loops within each other the thread's stack has room for

\* The relation types handle_part knows, those whose handler needs the data
\* of the relation, and those whose handler goes on to the part's relations.
HandledTypes ==
    {"office_doc", "worksheet", "shared_strings", "styles", "drawing", "table",
     "pivot_cache_def", "pivot_cache_rec", "pivot_table", "rev_headers", "rev_log"}
NeedsData == {"worksheet", "table", "pivot_cache_def", "pivot_cache_rec"}
WithRelations ==
    {"office_doc", "worksheet", "pivot_cache_def", "pivot_table", "rev_headers"}
Types == HandledTypes \cup {"other"}

\* A directory is a segment of a path with its slash, so never empty.  A path
\* is the directories from the root and the file name.  A relation ID is its
\* text before the digits and their value.
Dirs == Texts \ {Empty}
Path == Seq(Texts)
RelationId == [prefix : {"r", "rId"}, number : Nat]
Relation == [rid : RelationId, type : Types, dirs : Seq(Dirs), name : Texts]
\* opc_rel_extra: none, a sheet without an ID, or what the handler asks for.
Data == {"null", "zero", "info"}
\* The content of a part: the data it gives to some of its relations, its
\* relations as read_relations returns them, and what of it cannot be parsed.
Part == [rels : Seq(Relation), fails : {"no", "part", "rels"}]

ASSUME TextAssumption ==
    /\ Empty \in Texts /\ {Up, Slash, RelsDir} \subseteq Dirs

ASSUME PackageAssumption ==
    \A pkg \in Packages :
        /\ pkg.root \in Seq(Relation)
        /\ DOMAIN pkg.parts \subseteq Path
        /\ \A p \in DOMAIN pkg.parts :
             /\ pkg.parts[p].rels \in Seq(Relation)
             /\ pkg.parts[p].fails \in {"no", "part", "rels"}
             /\ LET x == pkg.parts[p].extras IN
                  /\ x = [r \in DOMAIN x |-> x[r]] /\ DOMAIN x \subseteq RelationId
                  /\ \A r \in DOMAIN x : x[r] \in Data

ASSUME StackAssumption == StackLimit \in Nat \ {0}

VARIABLES
    package,   \* what is being imported: [root, parts, unsupported]
    phase,     \* "idle", "parts", "formulas", "done", "thrown" or "exhausted"
    dir,       \* m_dir_stack
    handled,   \* m_handled_parts
    calls,     \* the frames of the loops over relations, outermost first
    log        \* history: the parts that were parsed, in order

vars == <<package, phase, dir, handled, calls, log>>

Init ==
    /\ package \in Packages
    /\ phase = "idle" /\ dir = <<>> /\ handled = {} /\ calls = <<>> /\ log = <<>>

----------------------------------------------------------------------------
(* Paths and the order of relations.                                       *)

\* Mutant: a part is known by its file name alone.
NameOnly(d, name) == <<name>>

\* resolve_file_path of get_current_dir and a file name: the root is empty
\* text, and an empty segment after it makes the path invalid.
FullPath(d, name) ==
    IF \E i \in 3..Len(d) : d[i] = Slash THEN <<name>> ELSE Append(Tail(d), name)

\* Mutant: pivot caches have no rank.
RankNoCaches(type) ==
    IF type = "shared_strings" THEN 0 ELSE IF type = "worksheet" THEN 2 ELSE 3
\* Mutant: shared strings have no rank.
RankNoStrings(type) ==
    IF type = "pivot_cache_def" THEN 1 ELSE IF type = "worksheet" THEN 2 ELSE 3

\* get_schema_rank
SchemaRank(type) ==
    CASE type = "shared_strings" -> 0
      [] type = "pivot_cache_def" -> 1
      [] type = "worksheet" -> 2
      [] OTHER -> 3

\* to_long of a relation ID without its first character: 0 when that is not
\* where the digits start.
NumberAfterR(rid) == IF rid.prefix = "r" THEN rid.number ELSE 0

\* sort_func of read_workbook; IDs are longer than one character.
SortsBefore(r1, r2) ==
    IF SchemaRank(r1.type) # SchemaRank(r2.type)
    THEN SchemaRank(r1.type) < SchemaRank(r2.type)
    ELSE NumberAfterR(r1.rid) < NumberAfterR(r2.rid)

\* What std::sort may leave: any order that inverts no pair.
Sorted(rels) ==
    {[i \in DOMAIN rels |-> rels[f[i]]] :
        f \in {g \in Bijection(DOMAIN rels, DOMAIN rels) :
                 \A i, j \in DOMAIN rels :
                    i < j => ~SortsBefore(rels[g[j]], rels[g[i]])}}

----------------------------------------------------------------------------
(* Frames.                                                                 *)

Top == calls[Len(calls)]
SetTop(f) == [calls EXCEPT ![Len(calls)] = f]

\* A loop over the relations of the part at a path.  base is history: the
\* directory it started in.  The fields from dirs on are of its read_part:
\* the directories to enter and the record of those it has changed; trail is
\* history: the directories before each change.
Frame(at, rels, extras, base) ==
    [at |-> at, rels |-> rels, extras |-> extras, base |-> base, pc |-> "next",
     dirs |-> <<>>, name |-> Empty, type |-> "other", data |-> "null", path |-> <<>>,
     changed |-> <<>>, trail |-> <<>>]

\* read_file and read_content: the root directory and its relations.
ReadFile ==
    /\ phase = "idle"
    /\ phase' = "parts"
    /\ dir' = Append(dir, Empty)
    /\ calls' = <<Frame(<<>>, package.root, <<>>, dir')>>
    /\ UNCHANGED <<package, handled, log>>

Advanced(rels) == Tail(rels)

\* The data of a relation, which only its ID selects.
DataFor(rid, extras) == IF rid \in DOMAIN extras THEN extras[rid] ELSE "null"

\* Mutant: the pointer to the data keeps what it was for the relation before.
NextRelationStaleData ==
    /\ phase = "parts" /\ Top.pc = "next" /\ Top.rels # <<>>
    /\ LET rel == Head(Top.rels) IN
       calls' = SetTop([Top EXCEPT
           !.rels = Advanced(Top.rels), !.pc = "enter", !.dirs = rel.dirs,
           !.name = rel.name, !.type = rel.type,
           !.data = IF rel.rid \in DOMAIN Top.extras THEN Top.extras[rel.rid] ELSE Top.data,
           !.path = <<>>, !.changed = <<>>, !.trail = <<>>])
    /\ UNCHANGED <<package, phase, dir, handled, log>>

\* The next relation of the loop: read_part is called with its target.
NextRelation ==
    /\ phase = "parts" /\ Top.pc = "next" /\ Top.rels # <<>>
    /\ LET rel == Head(Top.rels) IN
       calls' = SetTop([Top EXCEPT
           !.rels = Advanced(Top.rels), !.pc = "enter", !.dirs = rel.dirs,
           !.name = rel.name, !.type = rel.type,
           !.data = DataFor(rel.rid, Top.extras), !.path = <<>>,
           !.changed = <<>>, !.trail = <<>>])
    /\ UNCHANGED <<package, phase, dir, handled, log>>

----------------------------------------------------------------------------
(* read_part: to the directory of the target and back.                     *)

\* Mutant: the root can be left.
AlwaysClimbs(d) == d # <<>>

\* ".." does not leave the root of the package.
Climbs(d) == Len(d) > 1

\* Mutant: a directory that was left is not recorded.
LeftUnrecorded(changed, d) == changed
LeftRecorded(changed, d) == Append(changed, d)

\* One directory of the target: entered, which Empty records, left, or kept.
ChangeDirectory ==
    /\ phase = "parts" /\ Top.pc = "enter" /\ Top.dirs # <<>>
    /\ LET next == [Top EXCEPT !.dirs = Tail(Top.dirs)]
           seg == Head(Top.dirs) IN
       \/ /\ seg # Up
          /\ dir' = Append(dir, seg)
          /\ calls' = SetTop([next EXCEPT !.changed = Append(@, Empty),
                                          !.trail = Append(@, dir)])
       \/ /\ seg = Up /\ Climbs(dir)
          /\ dir' = SubSeq(dir, 1, Len(dir) - 1)
          /\ calls' = SetTop([next EXCEPT !.changed = LeftRecorded(@, dir[Len(dir)]),
                                          !.trail = Append(@, dir)])
       \/ /\ seg = Up /\ ~Climbs(dir)
          /\ dir' = dir
          /\ calls' = SetTop(next)
    /\ UNCHANGED <<package, phase, handled, log>>

\* Back by the last change of the record.
UndoChange ==
    /\ phase = "parts" /\ Top.pc = "leave" /\ Top.changed # <<>>
    /\ LET n == Len(Top.changed)
           left == Top.changed[n] IN
       /\ dir' = IF left = Empty THEN SubSeq(dir, 1, Len(dir) - 1) ELSE Append(dir, left)
       /\ calls' = SetTop([Top EXCEPT !.changed = SubSeq(@, 1, n - 1),
                                      !.trail = SubSeq(@, 1, Len(@) - 1)])
    /\ UNCHANGED <<package, phase, handled, log>>

\* The target is a directory, or read_part has walked back.
NotAFile ==
    /\ phase = "parts" /\ Top.pc = "enter" /\ Top.dirs = <<>> /\ Top.name = Empty
    /\ calls' = SetTop([Top EXCEPT !.pc = "leave"])
    /\ UNCHANGED <<package, phase, dir, handled, log>>

ReadPartReturns ==
    /\ phase = "parts" /\ Top.pc = "leave" /\ Top.changed = <<>>
    /\ calls' = SetTop([Top EXCEPT !.pc = "next"])
    /\ UNCHANGED <<package, phase, dir, handled, log>>

----------------------------------------------------------------------------
(* The part itself: in its directory, with a file name.                    *)

AtFile == phase = "parts" /\ Top.pc = "enter" /\ Top.dirs = <<>> /\ Top.name # Empty
Target == FullPath(dir, Top.name)

SkipPart ==
    /\ AtFile /\ Target \in handled
    /\ calls' = SetTop([Top EXCEPT !.pc = "leave", !.path = Target])
    /\ UNCHANGED <<package, phase, dir, handled, log>>

\* handle_part returns false, and the part is not recorded.
PartNotHandled ==
    /\ AtFile /\ Target \notin handled /\ Top.type \notin HandledTypes
    /\ calls' = SetTop([Top EXCEPT !.pc = "leave", !.path = Target])
    /\ UNCHANGED <<package, phase, dir, handled, log>>

\* The handler of a type gets as far as parsing: it has its data, the document
\* takes such a part, and the package has it.
Parses(type, data, path) ==
    /\ type \in NeedsData => data = "info"
    /\ type \notin package.unsupported
    /\ path \in DOMAIN package.parts

\* The handler returns early: the part counts as handled.
PartPassedOver ==
    /\ AtFile /\ Target \notin handled /\ Top.type \in HandledTypes
    /\ ~Parses(Top.type, Top.data, Target)
    /\ handled' = handled \cup {Target}
    /\ calls' = SetTop([Top EXCEPT !.pc = "leave", !.path = Target])
    /\ UNCHANGED <<package, phase, dir, log>>

Logged == log' = Append(log, [path |-> Target, type |-> Top.type, data |-> Top.data])

Parsing ==
    /\ AtFile /\ Target \notin handled /\ Top.type \in HandledTypes
    /\ Parses(Top.type, Top.data, Target)

\* Handlers that do not go on to relations.
ReadLeaf ==
    /\ Parsing /\ Top.type \notin WithRelations
    /\ package.parts[Target].fails # "part"
    /\ Logged
    /\ handled' = handled \cup {Target}
    /\ calls' = SetTop([Top EXCEPT !.pc = "leave", !.path = Target])
    /\ UNCHANGED <<package, phase, dir>>

\* Mutant: the relations of the workbook are not sorted.
Unsorted(rels) == {rels}
WorkbookOrders(rels) == Sorted(rels)

\* check_relation_part, with a sorter for the workbook.
OrdersFor(type, rels) == IF type = "office_doc" THEN WorkbookOrders(rels) ELSE {rels}
\* Only these three have data for their relations.
ExtrasFor(type, extras) ==
    IF type \in {"office_doc", "worksheet", "pivot_cache_def"} THEN extras ELSE <<>>

ReadWithRelations ==
    /\ Parsing /\ Top.type \in WithRelations
    /\ package.parts[Target].fails = "no"
    /\ Len(calls) < StackLimit
    /\ Logged
    /\ \E rels \in OrdersFor(Top.type, package.parts[Target].rels) :
         calls' = Append(SetTop([Top EXCEPT !.pc = "within", !.path = Target]),
                         Frame(Target, rels,
                               ExtrasFor(Top.type, package.parts[Target].extras), dir))
    /\ UNCHANGED <<package, phase, dir, handled>>

\* Nothing but the stack limits how deep the calls go: a part is recorded when
\* its loop has ended, so one that leads back to itself is read again inside of
\* its own reading, and the process dies of it.
StackIsExhausted ==
    /\ Parsing /\ Top.type \in WithRelations
    /\ package.parts[Target].fails = "no"
    /\ Len(calls) = StackLimit
    /\ phase' = "exhausted" /\ calls' = <<>>
    /\ UNCHANGED <<package, dir, handled, log>>

\* An exception leaves every call and skips the walks back; one from a
\* relation file leaves its directory on the stack as well.
Throw ==
    /\ Parsing
    /\ \/ /\ package.parts[Target].fails = "part"
          /\ UNCHANGED <<dir, log>>
       \/ /\ package.parts[Target].fails = "rels" /\ Top.type \in WithRelations
          /\ dir' = Append(dir, RelsDir) /\ Logged
    /\ phase' = "thrown" /\ calls' = <<>>
    /\ UNCHANGED <<package, handled>>

\* Mutant: a part whose relations were read is not recorded.
NotRecorded(parts, path) == parts
Recorded(parts, path) == parts \cup {path}

\* The loop of a part ends: its handler returns true to the frame below.
PartIsHandled ==
    /\ phase = "parts" /\ Len(calls) > 1 /\ Top.pc = "next" /\ Top.rels = <<>>
    /\ LET below == calls[Len(calls) - 1] IN
       /\ handled' = Recorded(handled, below.path)
       /\ calls' = [SubSeq(calls, 1, Len(calls) - 1)
                        EXCEPT ![Len(calls) - 1] = [below EXCEPT !.pc = "leave"]]
    /\ UNCHANGED <<package, phase, dir, log>>

\* The loop of the package ends, and read_file returns.
PackageIsRead ==
    /\ phase = "parts" /\ Len(calls) = 1 /\ Top.pc = "next" /\ Top.rels = <<>>
    /\ phase' = "formulas" /\ calls' = <<>>
    /\ UNCHANGED <<package, dir, handled, log>>

\* read_stream: set_formulas_to_doc, then finalize of the factory.
Finalize ==
    /\ phase = "formulas" /\ phase' = "done"
    /\ UNCHANGED <<package, dir, handled, calls, log>>

Next ==
    \/ ReadFile \/ NextRelation
    \/ ChangeDirectory \/ UndoChange \/ NotAFile \/ ReadPartReturns
    \/ SkipPart \/ PartNotHandled \/ PartPassedOver
    \/ ReadLeaf \/ ReadWithRelations \/ StackIsExhausted \/ Throw
    \/ PartIsHandled \/ PackageIsRead \/ Finalize

\* One thread runs the import until read_stream returns or throws.
Spec == Init /\ [][Next]_vars /\ WF_vars(Next)

----------------------------------------------------------------------------
(* Properties.                                                             *)

FrameTypeOK(f) ==
    /\ f.at \in Path /\ f.path \in Path
    /\ f.rels \in Seq(Relation)
    /\ f.base \in Path
    /\ f.pc \in {"next", "enter", "within", "leave"}
    /\ f.dirs \in Seq(Dirs)
    /\ f.name \in Texts /\ f.type \in Types /\ f.data \in Data
    /\ f.changed \in Seq(Texts)
    /\ \A r \in DOMAIN f.extras : f.extras[r] \in Data

\* While parts are read the directory stack holds the root, which the assert
\* of read_part asks for, and every frame but the last is inside of its
\* handler.
TypeOK ==
    /\ package \in Packages
    /\ phase \in {"idle", "parts", "formulas", "done", "thrown", "exhausted"}
    /\ dir \in Path
    /\ phase = "parts" => dir # <<>> /\ dir[1] = Empty /\ calls # <<>>
    /\ handled \subseteq Path
    /\ \A i \in DOMAIN calls : FrameTypeOK(calls[i])
    /\ \A i \in DOMAIN calls : calls[i].pc = "within" <=> i # Len(calls)

\* "The path is relative to the relation file" (opc_reader.hpp): whenever a
\* loop takes its next relation, however the targets before it climbed and
\* descended, the current directory is the one the loop started in, that of
\* the part the relations belong to.
RelationsAreRelativeToTheirPart ==
    phase = "parts" /\ Top.pc = "next" =>
        /\ dir = Top.base
        /\ Top.at # <<>> => Top.at = FullPath(dir, Top.at[Len(Top.at)])

\* No path is in the log twice.
NoPartIsParsedTwice ==
    \A i, j \in DOMAIN log : log[i].path = log[j].path => i = j
=============================================================================
