# A verification development for orcus

orcus is a C++ library that reads spreadsheet and structured documents (ODS,
XLSX, Excel 2003 XML, Gnumeric, CSV, Parquet, JSON, YAML, XML, CSS) and pushes
what it reads into a document model through a set of import interfaces. This
directory holds TLA+ specifications of the parts of it whose correctness
depends on order, interleaving or history, the TLC configurations that check
them on small instances, and TLAPS proofs of what matters most.

Source paths below are relative to the root of the repository.

1. Inventory: the components, their state, operations, interactions, hazards
2. Plan: the modules, in order
3. The modules and how they correspond to the code
4. The runs, their bounds, fairness
5. The proofs
6. What disagrees with the docs
7. What is only model-checked, what is not modelled, and why

## 1. Inventory

### 1.1 The layers

| layer | source | state it keeps | operations |
|---|---|---|---|
| parsers | `include/orcus/*_parser.hpp`, `src/parser` | a cursor, a nesting level, stacks of scopes, transient buffers | `parse()`, which calls a handler |
| threaded parsers | `include/orcus/threaded_*.hpp`, `src/parser/*_thread.cpp`, `include/orcus/detail` | two threads, one hand-over buffer | `parse()`, `next_tokens()`, `abort()` |
| names and strings | `src/parser/xml_namespace.cpp`, `src/parser/string_pool.cpp` | interned strings, identifiers, alias stacks | `push`, `pop`, `intern`, `merge`, `swap`, `clear` |
| stream handlers | `src/liborcus/xml_stream_handler.cpp`, `xml_context_base.cpp` | a stack of contexts, each with a stack of elements | `start_element`, `end_element`, `characters` |
| format filters | `src/liborcus/*_context.cpp`, `orcus_*.cpp`, `opc_reader.cpp` | what was read of the current row, cell, style, relation | one context per XML vocabulary |
| trees | `*_document_tree.cpp`, `*_map_tree.cpp`, `*_structure_tree.cpp`, `dom_tree.cpp` | a tree under construction and a stack of its open nodes | builders driven by a parser |
| document model | `src/spreadsheet` | sheets, cells, styles, shared strings, tables | the import interfaces' `set_*` and `commit` |

A filter creates a parser over a byte buffer and gives it a handler. The parser
calls the handler synchronously for each element, attribute, text or value; the
handler dispatches to the context on top of its stack, and contexts call the
import interfaces of the document model. Strings are passed as views into the
byte buffer unless they are transient, and are then interned. Only the threaded
parsers have a second thread.

### 1.2 The components

For each: its state, its operations, whom it talks to, and what makes it
correct. `PROJECT.json` lists the same components with all their files.

**Threaded parsers and their token buffer** (`detail/parser_token_buffer.hpp`,
`threaded_sax_token_parser.hpp`, `threaded_json_parser.hpp`, the `*_thread`
files). State: a hand-over vector and a state flag behind one mutex, two
condition variables, a threshold; on each side a vector that is swapped with
it. The parser thread calls `check_and_notify` for each token and
`notify_and_finish` at the end; the client calls `next_tokens` in a loop,
`abort` when its handler throws a `std::exception` (the sax one), and joins. Correct when no token is lost or
repeated, no wakeup is lost, neither thread waits for ever, batches stay within
the limit, and `parse()` returns or throws exactly when a parse on one thread
would have.

**String pool** (`string_pool.cpp`). State: object pools that own the strings
and a set of views. Operations: construct, move, destroy, `intern`, `merge`,
`swap`, `clear`. Every parser that meets an encoded string, and every filter
that keeps one, interns it; pools are merged from a parser into a session.
Correct when a view a pool returns has a live object in that pool, addresses
are stable for as long as the pool is, and a string has one address per pool.

**Namespace repository and context** (`xml_namespace.cpp`). State: the
repository's interned URIs with one index each; the context's stack of
identifiers for every alias. `push` and `pop` are called by the SAX parser for
the declarations of an element, `get` for every name. Correct when every push is
undone by the end of its element and by nothing else.

**SAX parsers** (`sax_parser.hpp`, `sax_ns_parser.hpp`, `sax_token_parser.hpp`).
Three parsers stacked by handlers that wrap handlers: nesting level and
temporary buffers in the first, scopes and declared aliases in the second,
attributes kept until their element starts in the third. Correct when the three
stay in step and an alias means what lexical scoping says.

**Stream handlers and the base of contexts** (`xml_stream_handler.cpp`,
`xml_context_base.cpp`, `xml_element_validator.cpp`). State: a stack of
contexts; in each context a stack of elements and a table of allowed children.
Contexts are members of other contexts and are used again. Correct when an
element ends in the context it started in, a context is idle and clean when it
is taken, and what is not allowed is ignored with everything inside of it.

**OPC packages and the XLSX session** (`opc_reader.cpp`, `orcus_xlsx.cpp`,
`orcus_import_xlsx.cpp`). State: a stack of directories, the set of parts already
read, per part the extra data of its relations; in the session, the strings and
formulas that wait until all sheets are known. `read_part` calls the session's
`handle_part`, which reads a stream and calls `check_relation_part`, which calls
`read_part`. Correct when a part is read once, the directory is the same before
and after, shared strings come before sheets and formulas after them.

**XLSX sheet and workbook contexts** (`xlsx_sheet_context.cpp` and others).
State: current row, column, cell type, format, formula; rows and cells without a
position follow the one before. Shared formulas are pushed with their first cell.
**Pivot, revision and drawing contexts** copy attributes to the import interface.

**ODS import** (`ods_content_xml_context.cpp`, `odf_para_context.cpp`, ...).
State: row and column with repeat counts, the paragraphs of the current cell, a
stack of spans, formulas kept for the end. The row and column must advance by
exactly what was repeated; `set_` calls must hit each repeated cell.

**Gnumeric import** (`gnumeric_sheet_context.cpp`, `gnumeric_cell_context.cpp`).
State: current cell data, shared expressions by identifier, style regions that are
applied when the sheet ends.

**Excel 2003 XML import** (`xls_xml_context.cpp`). State: a cursor over rows and
cells with explicit indices, merge spans and array ranges, formulas that are
committed when all sheets have their names.

**CSV, JSON, XML and Parquet filters** drive the map trees or the CSV and Parquet
readers. **Map trees** (`xml_map_tree.cpp`, `json_map_tree.cpp`) hold linked
paths; a walker follows the document through them, leaving and re-entering the
tree where a path is not linked; range positions grow row by row. **Structure
trees** hold the distinct paths of a document with repeat flags.

**JSON parser and tree** (`json_parser.hpp`, `json_document_tree.cpp`): a
recursive descent with a nesting limit; a stack of nodes under construction.
**YAML parser and tree** (`yaml_parser.hpp`, `yaml_document_tree.cpp`): a stack of
scopes by indentation, a line buffer. **DOM tree** (`dom_tree.cpp`): a stack of
open elements. **CSV and CSS parsers** keep no stack. **XML writer**
(`xml_writer.cpp`): a stack of open elements and the namespaces each declares.

**Spreadsheet document and import factories** (`src/spreadsheet`): each import
interface collects `set_` calls in a buffer that `commit` moves into the
document; formulas are compiled when the import is finalized. **Pivot tables** are
caches keyed by their source range.

**Foundations** (cursor arithmetic, numbers, dates, UTF-8, base64, ZIP, file
streams), **format detection**, **dumpers**, **generated tables**, **MSO
encryption**, **command line programs** and **Python bindings** are functions of
their input or input and output.

### 1.3 What is hard

* *Interleaving*: only the threaded parsers. The buffer is looked at, waited for
  and swapped under three separate locks; both notifications come after the
  unlock; either side may stop early.
* *Views of strings*: every string is a view. What owns it (the stream, a
  temporary buffer, a pool) is passed around by `merge`, `swap` and moves, and may
  go away first.
* *State kept in two places*: aliases on stacks and in the scope of their element;
  a nesting level in one layer and scopes in another; elements in the parser, in
  the scopes and in the stacks of contexts; an index in a pool, a list and a map.
  They agree only because of the order of the calls.
* *Objects used again*: child contexts, temporary buffers, wrappers' attribute
  lists. Each must be clean when the next element takes it.
* *Input that no test writes*: declarations after their use, elements where they
  are not allowed, encoded attribute values, markup after the root, a document
  that ends early, relations that lead back to their own part.
* *Exceptions*: they cross a thread boundary as tokens, leave stacks as they are,
  and skip the unwinding of a directory.

Nothing is persisted and there are no messages over a network, so there is no crash
recovery and no loss or duplication of messages; there are no timeouts.
`PROJECT.json` lists the hazards one by one, at their lines, with the properties
that would catch each.

## 2. Plan

The plan, as it was followed; what is left of it is in section 7.

1. `ThreadedParser`, refining `TokenStream`: the only concurrency. Proofs: all
   safety and the refinement.
2. `StringPool`: the ownership every other component relies on. Proofs: all of it.
3. `SaxNsParser`, refining `NamespaceScoping`: the repository and the context of
   namespaces with the three XML parsers. Proofs: all safety, the refinement.
4. `XmlStreamHandler`, refining `ContextDispatch`, driven by the nesting that 3
   establishes. Proofs: all safety, the refinement.
5. `OpcReader` with the part handler of the XLSX session, and `XlsxImport`, what an
   import promises as a whole. Proofs: all safety.
6. `ImportSheet`, the document's import interfaces, and the filters that call them:
   the cells (`CellImport`: `XlsxSheet`, `XlsxSharedStrings`, `XlsXmlSheet`,
   `GnumericSheet`, `OdsSheet`), the styles (`XlsxStyles`, `XlsXmlStyles`,
   `OdfStyles`) and the ranges (`AutoFilters`, `PivotTables`,
   `XlsxConditionalFormats`), composed by `SpreadsheetImport`. Proofs: what every call
   of every filter leaves of the document (`TypeOK`).
7. The parsers that build documents of their own, and those that fill sheets by a
   map: `JsonTree`, `YamlTree`, `CssTree`, `DomTree`, `CsvSheets`, `XmlMap`,
   `JsonMap`, `StructureTrees`; the document from its first call to its dumps,
   `ImportedDocument`; `SheetViews`; and what all of them rest on,
   `TextConversions`, `MarkupText`, `ZipArchive`, composed by `DocumentBuilders`.

Modules with proofs, and those they use, declare no recursive operators: loops over
sequences are folds, and the recursion of the part reader is its stack of calls.
The trees of 7 are recursive in the code and in the modules, and stay with TLC.

## 3. The modules and the code

Names of variables are those of the members where the model has the member
(`m_tokens`, `m_state`, `m_stores`, `m_set`, ...). The `map` of `PROJECT.json` gives
the lines of every definition. Definitions whose comment starts with "Mutant:" are
wrong on purpose: each is used in place of the definition that follows it to see that a
property notices. The small instance of a module is at its end, in `MCSpreadsheetImport`
for the import filters.

### 3.1 Threads, strings, XML, packages

**`ThreadedParser`** has one operator per critical section of `parser_token_buffer`, and
`sleeping`, the threads blocked in a condition variable. A wait is two steps (release
and block; wake and look again), a notification is a step of its own, and a sleeper may
wake for no reason. `ppc` is where the parser thread is in `check_and_notify` or
`notify_and_finish`, `cpc` where the client is in `parse()`. `AbortOnThrow` is the one
difference between the two flavours: the sax one calls `abort()` for what
`catch (const std::exception&)` catches. A handler throws such an exception or a
`"foreign"` one, which goes straight to the join in either flavour. A document ends well, with a syntax error (which becomes a token) or with
another exception, which nothing catches and which ends the process. `emitted` and
`handled` are history. **`TokenStream`** is what the caller expects: the handler sees
the tokens in order and `parse()` returns when it has seen all, or throws for the first
that failed.

**`StringPool`** has several pools. A view is the pair of the store that holds
its object and the text; a store is never used again once freed, so that a view
into it is recognisably dangling. Interning on a pool without a store is undefined
in the code and no step of the model.

**`SaxNsParser`** is the three parsers as one machine over an arbitrary stream of
markup, with the repository and the context of namespaces: an identifier is the address
of a URI's text, and the built-in one is an address of its own. `pc` is the place in the
stream; `nest` and `bufPos` belong to `sax_parser`, `scopes`, `nsKeys` and `seenAttrs` to
the namespace wrapper, `attrs` to the token wrapper. `Attribute` is a callback of all
three layers, `StartElement` and `EndElement` likewise. A value with encoded characters
is a transient one and takes a temporary buffer. **`NamespaceScoping`** promises lexical
scoping: an open element holds its whole environment, so that nothing has to be popped.

**`XmlStreamHandler`** takes the events of a nesting of elements. `contexts` is
`m_context_stack`, `stack` the `m_stack` of every context; `open`, the parser's open
elements with the context each was given to, is history. The rules, the children and
the always-allowed elements of the contexts are constants: the theorems hold for every
filter whose child contexts are members of the contexts that return them (`Level`).
What contexts do with an element is theirs; they may throw (`Abort`).
**`ContextDispatch`** promises that the context of an element is decided where it
starts, by its parent's, and hears of its end.

**`OpcReader`** makes the recursion of `check_relation_part`, `read_part` and
`handle_part` explicit: `calls` has a frame for each loop over relations, with the
`read_part` the loop has under way, so that `NextRelation`, `ChangeDirectory`,
`UndoChange` are steps of the top frame, `ReadWithRelations` is the call and
`PartIsHandled` the return. `dir` is `m_dir_stack`, `handled` is `m_handled_parts`,
`changed` of a frame is `dir_changed`. What is in a part is a constant: its relations in
the order in which the relation context returns them, the data its own context gives to
some of them, and whether it can be parsed. The handlers of `orcus_xlsx` differ in three
ways, which are three sets of types: those that need data, those that go on to
relations, those there are. `std::sort` may leave any order that its comparator does not
exclude. The thread's stack has room for `StackLimit` loops within each other, and
`StackIsExhausted` is what a deeper recursion does. `base`, `trail` and `log` are history. **`XlsxImport`** says what follows of a
whole import, with paths resolved by the rule of paths and not by the stack.

### 3.2 Imports into the spreadsheet document

**`ImportSheet`** has no variables: a sheet, the shared strings and the styles are
records, and an operator is one call of `import_sheet`, `import_formula`,
`import_array_formula`, `import_shared_strings` or `import_styles` with the buffers that
`commit` moves or leaves. A text is a sequence of numbers, one for each piece of text of
the file, so that a value tells which piece it comes from.

Each filter module has the members of its contexts in `cxt`, what the file said so far in
`file` (history that the properties speak of), and one action per handler:
`XlsxSheet` (the sheet context with its four kinds of formula and the formulas the session
sets when all parts are read), `XlsxSharedStrings`, `XlsXmlSheet` (with the data context and
the formulas kept for the end), `GnumericSheet` (cells, segments of formats, regions of
styles and merges), `OdsSheet` (repeated rows and cells, paragraphs and spans). **`CellImport`**
takes them together. `XlsxStyles`, `XlsXmlStyles` and `OdfStyles` do the same for the
styles, the last one with the seven contexts of number styles; `AutoFilters` for the filters
and tables of four formats, with the patterns a rule is given and the regular expression made
of it; `PivotTables` for caches, records and tables that are all built in the same objects;
`XlsxConditionalFormats` for entries, limits and colors. **`SpreadsheetImport`** is all of
them: `filter` says which one reads the file, and every one leaves the parts of the document
it does not read alone.

### 3.3 Parsers with a document of their own

**`DocumentBuilders`** has one builder per stream, chosen at first, and the variables
`doc` (what it builds), `cxt` (the parser with its handler) and `file` (the stream).

* `JsonTree`, `YamlTree`: the descent or the scopes of the parser, the stack of the handler,
  references to other files, writes to nodes, and the dumps as JSON, YAML and XML, each
  read again. `CssTree`: selectors with their chains, nodes with their pool, blocks, lookup
  and the dump. `DomTree`: load, edits through handles, dump, loading again.
* `CsvSheets`: the CSV parser and the filter that goes on to another sheet. `XmlMap`,
  `JsonMap`: the calls that define a map, the walkers over the tree, row groups, and writing
  an XML file back. `StructureTrees`: what repeats, and the map that is made of it.
* `ImportedDocument`: the calls of the factory on a document and what each of the dumpers
  shows of it. `SheetViews`: selections and panes of XLSX and of Excel 2003 XML.
* `TextConversions`: functions of a text, written as the code walks over it, against what the
  text means: quoted strings, numbers, dates, lengths, colors, paths (of names, XPath, JSON
  paths and paths of JSON maps), base64, UTF-8 names, ranges, error lines, the two lists of a
  package (content types and relations) and the lines of a YAML stream. `MarkupText`: the
  characters of style sheets and of XML, also of texts that are cut, and `xml_writer`. `ZipArchive`: the search for the end
  record, the directory, headers and contents; zlib is external.

## 4. The runs

| run | question | bounds | states |
|---|---|---|---|
| `threaded_sax` | is the hand-over right, and does `parse()` end, whatever the handler and the document do, but for a foreign exception? | 6 tokens of 2 kinds, thresholds from 1 to 6 | 269,271 |
| `threaded_json_handler_throws` | does a parser thread that waits go on? (violated) | 4 tokens, thresholds 1 to 2 | |
| `string_pool` | do views survive any order of operations on several pools? | 3 pools, 2 strings, 4 stores | 5,095 |
| `string_pool_after_merge` | is a merged-away pool an empty pool? (violated) | 2 pools, 2 strings, 3 stores | |
| `xml_parsers` | do the three parsers and the context stay in step, and does scoping hold? | 2 levels, 2 attributes in a tag, 2 URIs, 2 aliases and `xml` | 107,242 |
| `xml_prefix_order` | is the namespace of an attribute that of its prefix in its element? (violated) | the same | |
| `context_dispatch` | is every element given to the context its parents decide on? | 6 elements, 3 contexts and the empty one, 5 levels, a limit of 3 | 36,922 |
| `context_foreign_child` | is the child whose end is reported the one that was made? (violated) | the same | |
| `xlsx_import` | is every related part read once, from where it is, with its data and after what it needs, and does the import end but for a ring of parts? | 7 packages of up to 9 parts, 25 texts, a stack of 12 loops | 1,685 |
| `xlsx_sheet_order` | are the sheets read by the number of their relations? (violated) | the same | |
| `import_filters` | does every cell, style, filter, cache and condition get what its own elements say? | a sheet of 2 rows and 3 columns, files of 4 to 7 elements | 1,379,108 |
| `document_builders` | is what is written out read the same, and are nodes, records and structures those of the file? | streams of 4 to 10 parts | 698,131 |

Why the bounds are enough:

* `threaded_sax`: the threshold doubles from 1 to 2 to 4 and stops below half the
  limit; six tokens fill batches of each size and leave a last one that is empty or
  not; two kinds of token make a swap of two of them visible. The json flavour differs in
  `AbortOnThrow` only, which the violation run has; the theorems are about both.
* `string_pool`: three pools make a chain of merges and a pool that outlives its
  source; two strings make a merge in which one is known to both and one to one; four
  stores allow one to be freed by `clear` and replaced.
* `xml_parsers`: two levels and two attributes give a redeclaration inside of an
  element, a repeated attribute, a declaration before and after a use, two encoded
  values in one tag; the second URI is the text of the built-in namespace, declared
  by a document. More levels repeat what two do: an alias' stack only grows by one
  for each.
* `context_dispatch`: a context, its child and its child's child, elements that are
  allowed in one place and not in another, one always allowed, a context without rules;
  five levels exceed the limit of three both in one context and over several.
* `xlsx_import`: a package has few behaviours of its own, one for each order the
  sort may leave, so the packages are where the cases are: one with two sheets and a
  drawing they share, a cache that both the workbook and a pivot table relate to and
  parts with the same name in different directories; one with targets that climb above the root,
  are absolute, or name no file or no part, relations to the same part twice, a sheet
  without an ID and revisions; a document that refuses caches and tables; parts
  that cannot be parsed, with and without relations; parts that lead back to themselves, with the data their
  handlers need and without. `StackLimit` is more than the parts of any package, so that only a ring reaches it.
* `import_filters`: the elements of each file are few but come in any order the format allows.
  In a sheet of six cells an array formula reaches over a row and beyond the sheet, a cell without
  a position follows one that has none either, and two cells share a formula; `MaxSize` counts rows,
  cells, formulas and values, which have no text or two pieces of it. Two tables (ODS), merged and
  repeated cells, regions that overlap, a style whose parent comes later, a pattern with both
  wildcards, two caches with one source and two rules of one kind are there because each is the smallest
  case of a hazard.
* `document_builders`: a stream of so many parts has a container in a container, two siblings of one
  name with another between them, a reference and what it stands for; paths have three levels. Of the document,
  four or five calls for each purpose; of texts, pieces that are each a case of their parser (an
  escape, a line break, a separator), to a length that is enough for two of them to meet; `Register` is the
  number of characters a SIMD register has room for, `MaxLong` where an integer saturates, `MaxChainDepth` the
  limit of chained selectors in a dump, 256 in the code; archives have an end record anywhere in a tail of four pieces
  with a search window of 30 bytes for one of 22 + 65,535, and two entries; views are those of two sheets.
  Of the style sheets, `CutRules` are cut after every character, each with every one of `Behind` behind the cut: those
  the parser waits for somewhere, a letter, and one that is none of them.

`DocumentSize`, `MaxDepth` (both modules), `MaxAttrs` and all `Max...` of the last two runs but
`MaxLong`, `MaxChainDepth` and `MaxNest` (the limit of the JSON parser) are bounds of the models
and not of the code; `MaxNesting`, `MinTokenSize` and `MaxTokenSize` are limits the code has. The proofs
do not depend on any of them. Deadlock is checked except in `string_pool`, where a
program that has used all stores of the model may stop, in its violation run, in
`threaded_json_handler_throws`, where the deadlock is the finding, and where an import or a
stream ends: `xlsx_*`, `import_filters` and `document_builders`.

Some properties need what a file or a caller does: maps are asked for only when every JSON value has a
position (`ValuesHavePositions`), names of sheets and texts that are dumped are those the formats can write
(`NamesAreClear`, `TextsAreClear`, `NamesHaveNoDots`), merged ranges are apart (`MergedApart`). Each is an antecedent of the
property in its module with the reason next to it, and the run has states on both sides.

**Fairness.** Only `threaded_*` and `xlsx_import` use it. The import is one thread
that runs until it returns: weak fairness of its steps. `ImportEnds` is its liveness
property: the import returns, throws, or exhausts the stack, the last for a ring of parts only (`LeadsBack`). For the threads it is weak fairness of each thread's steps, that is,
the scheduler runs a thread that can run. It is not assumed of spurious wakeups, so a thread
must be woken by the other; nor that the document ends, which `DocumentSize` sees to.
`ParseEnds` is the liveness property: the one way not to end it allows is a client that joins a
waiting parser after an exception that is no `std::exception`. `WaitingParserGoesOn` is the one the
json flavour violates, for any exception.

## 5. The proofs

tlapm proves every theorem below for all values of the constants that satisfy the
named assumptions of the modules, which TLC evaluates in the runs. Where a property is stated by a run,
the run shows it on the instance of section 4 and the theorem for every instance.

| module | theorems |
|---|---|
| `ThreadedParserProofs` | `TypeOK`, `TokensReachTheClient`, `NoOneSleepsInVain`, `BoundedBatches`, `ParseEndsRightly`, `MoreIsRight`; refinement of `TokenStream` |
| `StringPoolProofs` | `TypeOK`, `ViewsAreBacked`, `OneOwner`, `StringsAreKnownOnce`; the action properties `ReferencesStayValid`, `AddressesAreStable` |
| `SaxNsParserProofs` | `TypeOK`, `StacksMatchScopes`, `LevelsInStep`, `EveryIdHasOneIndex`, `HeldValuesKeepTheirBuffers`, `NothingIsLeftOver`; refinement of `NamespaceScoping` |
| `XmlStreamHandlerProofs` | `TypeOK`, `PopsWhatWasPushed`, `IdleContextsAreFresh`; refinement of `ContextDispatch` |
| `XlsxImportProofs` | of `OpcReader`: `TypeOK`, `RelationsAreRelativeToTheirPart`, and `EachPartIsReadOnce` of a package that is read at the paths its relations name; of `XlsxImport`: `EveryRelatedPartIsHandled` (`NoRelationIsLost`), and `PartsAreReadWithTheirData` of a package that is well-formed |
| `Folding` | what a fold over a sequence keeps, for every operator |
| `ImportSheetProofs`, `SpreadsheetImportProofs` | `TypeOK` of the document, of every filter that fills its cells |

**ThreadedParser.** From `MinTokenSize <= MaxTokenSize`, which the constructor
enforces, and that the error token is not a token of the parser. That no token is lost
is not inductive alone: that the swap finds an empty buffer needs to know
that between looking and swapping only the client could change it and only by
emptying it; that a sleeper is about to be woken needs which program counters go with which state
(`SleepersWait`, `ClientControl`, `StateControl`); that an error
is the last token needs `ErrorIsLast`. That the two threads do not wait for one another follows from
`NoLostWakeup`: the two loop conditions contradict one another. The mapping closes the
stream when the parser thread has begun to finish, and a `Join` is where `parse()` ends.

**StringPool.** `IInv` adds that stores in use have been allocated, so that a new one
has no views. The order in which `merge` pops the stores does not matter to ownership:
`Reverse` is shown to keep the range and the distinctness.

**SaxNsParser.** `StacksMatchScopes` counts, for an alias, the open elements that
declare it, and one for the tag being read. It is inductive only with `TagsAreApart`:
an alias declared by a tag is among its attributes, so the check for repeated
attributes (which serves another purpose in the code) keeps a tag from pushing twice what its scope
pops once. The cardinality of the declaring elements grows and shrinks by
one at the end of the sequence. For the refinement, the environment of the i-th
open element is read off the alias stacks: the n-th entry, when n of the first i
elements declare the alias.

**XmlStreamHandler.** Elements end where they started because the open elements are
cut into layers: a function `b` gives for each context on the stack where its elements begin,
only the root's layer may be empty, and layers and stacks agree (`Layered`). A
start lengthens the top layer or adds one, an end shortens it or drops it. That a new
layer starts empty needs that idle contexts are clean (`Idle`), and that in turn
that no context is on the stack twice, which follows from children being members of
their parents (`Level`, `ContextsNest`) and from the empty context allowing everything.

**OpcReader.** From what a package is (`PackageAssumption`, data types only) and that
the texts with a meaning are texts. `dir = Top.base` holds at the next relation only
because every record can be undone: `Walked` says of each frame that undoing its
changes, last first, leads back along the trail to its base, and that the frame above
started where this one is. An empty entry of the record is ambiguous unless the root
entry, the only empty one, is never left (`Rooted`), for which the guard `Climbs` is
needed. `EachPartIsReadOnce` needs that every parsed part is recorded or has a frame
inside of its handler (`Accounted`), and that a part of the second kind that is reached again makes a
ring: the frames from its own on are linked (`Chained`), each being in the part that the relation the one
below it follows leads to, with the data its handler needs. Of these links `LeadsBack` of the package follows,
so the theorem excuses rings of the package and no state of the import.

**XlsxImport.** That no relation is lost is proved with `HInv`: each relation of a
part whose loop runs is still to come, or is the one under way, or its target is handled or has a frame
above; when a frame is popped only the third case is left. What a target names is decided by the fold
over its directories (`Resolve`), which the walk of the reader follows change by change.
The hypothesis `AbsoluteTargetsAreLeaves` is needed: an absolute target moves the base for the
relations its part would have. That parts are read with their data and after what they need is
proved with `WInv`: which kinds of loops nest in which, that a kind nested deeper has a greater rank
(a workbook's relations are sorted by rank), and that what is parsed was given the data its
relation asks for. Every part of `WellFormed` is used: a kind of part relates to the kinds the standard lets
it, a part is related to by relations of one type, there is one workbook, and a part that is given
data by one relation is given it by all but those of a pivot table (the pivot cache is
the one part reached both ways, and the workbook's relations, which have the data, come first). All packages
of `xlsx_import` are well-formed; a file for which the hypothesis fails is read, with other results.

**SpreadsheetImport.** `TInv` says of the five filters that fill cells what holds between
two calls: of each sheet (`SheetOK`) that a cell refers to a string of the table, that a formula has an expression,
that a merged range starts in the sheet, and that the formula under construction is one; of the
strings (`StringsOK`) that the runs of each are in order and in its text; of the contexts, what they will
pass on: an index they hold is in the table, the segments of a format begin in the text, the paragraphs of a cell
have runs that follow one another. `Grew`, that a call only adds strings, makes indices of earlier calls remain good.
`ImportSheetProofs` has a lemma for each call of the interface and one for each step of a
filter; each filter has its own instance of the calls, and the lemmas called `...Calls` say that they are
those of the document. Loops (formulas set at the end, repeated rows and cells, segments, runs of a committed
string) are folds, for which `Folding` proves `FoldKeeps`: what holds at the start and is
kept by each step holds at the end. The induction is over the set of lengths for which that is so (`NatSetInduction`), and the
step operator is a constant of the module that its instances give, so no theorem with an operator
parameter is needed. The assumptions are on types only: texts are sequences of numbers
(`TextsAssumption`), positions in a text and numbers of repetitions are not negative
(`SegmentsAssumption`, `RepeatedAssumption`): the first two are types of the code; `number-columns-repeated` is
positive in every ODF file, and the code, which takes what `to_long` returns, relies on that. The filters that fill styles and ranges leave cells alone, which is a case of the proof too.

**Only model-checked.** `ParseEnds` and `ImportEnds`: liveness under fairness is out of this prover's reach. `ValuesAreOwn`,
`FormulasAreOwn`, `FormatsAreOwn`, `StylesAreOwn` and `RangesAreOwn` of `SpreadsheetImport` compare the document
with the whole of `file`, by positions that repeated elements and cursors
compute: the invariant would have to say of every prefix of a file what the document of that prefix is.
The properties of `DocumentBuilders` are about trees, recursive in the code and in the
modules (`RECURSIVE`), and about what a dump is when it is read again: tlapm has no arithmetic in a
module that reaches one.

## 6. What disagrees with the docs

The runs marked violated above; `PROJECT.json`, `findings`, quotes the lines.

* `threaded_json_parser::parse` does not abort its parser thread when the handler
  throws: with more tokens to come both threads wait for ever.
  `threaded_sax_token_parser::parse` does for a `std::exception` only, and waits as well
  after any other; `ParseEnds` names that case.
* `string_pool::merge` leaves the other pool without a store, though "empty": the next
  `intern` of it reads past the end of a vector.
* An attribute's prefix is resolved before the declarations that follow it in the
  tag, though docs promise the resolved namespace.
* Relation IDs are said to be compared by number, but of `rId10` only the `r` is
  removed: all such IDs are equal to the comparator.
* `end_child_context` is called for the context of ignored elements too, which
  contexts assert against or cast.

The models also have what follows. No run has it as a violation, as no doc says otherwise (but for the
base of a name, below); each is stated by the property it names, or by an antecedent or the inputs of a run.

* XLSX: a differential format (`dxf`) never gets its parts, which are stored without it; the rank and the text of
  `top10` and `containsText` rules are never committed; a theme color in a data bar, and a table without `ref`, end the
  import; a filter rule without `colId` goes to column -1; a pane without `topLeftCell` reads an address that
  nothing has set.
* What is kept from one element to the next, and the property states as such: a Gnumeric cell without text has the
  last text before it, the indentation or another cell's (`gnumeric_cell_context.cpp:71`, `TextOf`); a shared string or
  run without `t` has the text of the last `t` (`TextOfString`); the properties of an XLSX run without text are those of the next
  text too, also of a later string (`FormatsAreOfTheirRun`); a formula of Excel 2003 XML without a number has the
  cached result of an earlier formula, both being built in one object (`ResultOf`); a number formula of an XLSX file without `v` has
  the result NaN; a pivot cache without cells has those of the one before, and one over a range that of the last table named
  before it, as `m_src_table_name` is never reset (`factory_pivot.cpp:128`, `PlaceAfter`).
* Filters: an escaped star next to another wildcard makes a wrong regular expression; a table with a totals
  row only is counted two rows off; the second of two columns is looked for from an
  absolute column; an `And` or `Or` of Excel 2003 XML without a range dereferences nothing. Conditions
  in a column of Excel 2003 XML that is not a custom one leave a node open that later columns get into, and fail an assertion
  (`xls_xml_auto_filter_context.cpp:308`); a `top` after the `val` of a `top10` filter takes its place as the number
  (`xlsx_autofilter_context.cpp:446`). Filters with one of these are not compared.
* ODS: number styles with literal digits read past the end of a two-character array (`std::string{"?", n}`); maps of
  number styles are prepended last first. "#N/A!" is the name of an error in the
  map of errors and "#N/A" is not. A hue above 255 has no defined color.
* Merged ranges that overlap depend on their order. `FreezePanes` after `FrozenNoSplit` makes a state that both formats
  ignore; an `ActivePane` without text leaves none.
* Archives: an end record at position 0 is not found; a signature that fails halfway is not looked
  for again from its second byte; of two entries with a name the first wins; a local header may
  have another name; only the stream in memory refuses empty data that lies past the end.
* JSON and YAML: `push_back` of a value leaves it without its parent, so that the YAML dump nests it wrongly; the YAML dumper has
  no text for empty containers and quotes no string that reads as another type; the XML dump of a scalar has no
  namespace; moving a node of a map's tree drops the children of an object; a YAML stream whose
  last character closes a quote is refused; YAML keys are dumped as JSON without escapes, and a missing value is
  dereferenced.
* Paths of JSON maps: `[+]` is position 0; `[1x]` is refused by a map and taken by a JSON path; only maps have
  `[]` and empty keys.
* Documents: a sheet whose name is refused stays in the document, though the formula context has none like it
  (`document.cpp:128`). The base of a name for which none is set is, the interface says, "the top-left corner cell on the first
  sheet" (`import_interface.hpp:310`); for the first name of each sheet it is the first cell of that sheet
  (`factory_sheet.cpp:24`), for those after it the one the interface says (`NamesAreOfTheirTexts`).
* Parse errors: a line break that is the first character of a text has no line, as an assertion refuses it
  (`stream.cpp:155`); a line that is cut in front is numbered one less than it would be uncut (`stream.cpp:374`, against
  344) (`ErrorsAreShown`).
* CSS: the parser reads the character at the end of its text in many places (`css_parser_base.cpp:188` is one of
  them), and when the memory has the one it waits for there, or the text ends in `.`, `#` or `:`, it goes on
  beyond the end. `CutSheetIsRead` cuts style sheets anywhere, with any such character behind
  them, and allows that and no other way beyond.
* CSS and XML: a comment after a quoted value is refused; a CDATA section or DOCTYPE that the stream ends in is ignored;
  `xml_writer` never fills its table of aliases; the offset of the last character of a line is one off
  after a comment.
* Packages: the elements of the two lists are matched by name, in whatever namespace; relations with equal IDs have
  no defined order. A part is recorded as handled after its own relations were followed (`opc_reader.cpp:145`), so a ring of parts
  exhausts the stack unless a handler on it lacks the data it needs; `EachPartIsReadOnce` and `ImportEnds` name the ring.

## 7. The rest

What the hazards of `PROJECT.json` leave out, and is true: what an exception other than a syntax error
does to a parser thread (the process ends), `get_alias` of the client thread reading a namespace
context that the parser thread pushes to, the string pools of ODS merged after their parts are
parsed, relation IDs of one character, and that an exception skips a reader's walk back. Each is in the models as
a step or as an end of the behaviours; no property of a run is about it.

Not modelled in the modelled components, and why:

* the text in tokens, names and buffers, how entities and DOCTYPEs are
  spelled, offsets in error messages: functions of the input. Those that decide what is imported
  are in `TextConversions` and `MarkupText`;
* the token pools of the threads and the storage of JSON values: they are owned by
  the parser thread object, which outlives both threads' loops;
* `m_all_ns`, `get_alias` and the dumps of namespaces: they serve diagnostics;
* an alias named `xmlns`, an empty name after `xmlns:`, and two identifiers for the
  text of the built-in namespace in the diagnostics: no property of scoping tells them
  apart from other aliases;
* what follows an exception: a parser, a handler or a namespace context that has thrown
  is not used again by any caller in the repository;
* the limit on nesting is compared before the push, so that each stack may hold one more
  than the limit, and each context has a limit of its own: `TypeOK` of `XmlStreamHandler`
  says what holds;
* a CDATA section outside of the root element and a declaration inside of it are reported;
  the models have both;
* in a package: where the relations are of a part whose directory is not a valid path; a second `read_file` of the same reader;
* `xml_simple_stream_handler`, which has one context and no stack;
* revisions, drawings, data tables, named expressions of the formats other than the document's own, DDE links: read
  and passed on one by one, or to nobody;
* cell storage and formula calculation (mdds, ixion), zlib and Parquet: external.

The components that are not modelled are listed in 1.2 and, with the reason, in
`PROJECT.json`: format detection and Python bindings keep no state of their own, token tables are
generated, and encryption and the command line programs are around the library.
