------------------------------ MODULE ZipArchive ------------------------------
(***************************************************************************)
(* The ZIP archive XLSX, ODS and Gnumeric packages come in.  load() looks  *)
(* for the end record of the central directory from the end of the stream  *)
(* backwards, reads it, then one entry of the directory after the other;   *)
(* a client then asks for the header or the contents of an entry.  Any     *)
(* problem is an exception.  What a directory or a local header says is    *)
(* chosen as it is read; zlib, which is not part of orcus, is given by     *)
(* what the stream at a place inflates to.                                 *)
(***************************************************************************)
EXTENDS Integers, SequencesExt, FiniteSetsExt

CONSTANTS Streams,       \* of a file ("fd") or of a buffer ("blob")
          ArchiveSizes,  \* sizes of a stream
          TailPieces,    \* what its last bytes are made of
          MaxTail,       \* bound on their number
          Window,        \* the bytes that are searched: 22 + 0xffff in the code
          Marker,        \* 0xffffffff: the value is in a ZIP64 record
          Ends,          \* what an end record may say
          Entries,       \* what an entry of the directory may say
          MaxEntries,    \* bound on the entries
          Locals,        \* the local header at each offset
          AskedNames     \* what a client asks for

VARIABLES builder, doc, cxt, file

vars == <<builder, doc, cxt, file>>

EndSize   == 22     \* of an end record,
EntrySize == 42     \* an entry without its signature and its name,
LocalSize == 30     \* a local header without its name
MaxRatio  == 1024

Init == /\ \E k \in Streams, n \in ArchiveSizes : file = [kind |-> k, size |-> n, tail |-> << >>, entries |-> << >>]
        /\ cxt = [stage |-> "stream", end |-> 0, at |-> 0, total |-> 0, params |-> << >>, names |-> << >>]
        /\ doc = << >>

(* seek(p), then read() of n bytes.  A buffer refuses a place past its end;*)
(* of a file it is the read that comes short.                              *)
BlobReads(p, n) == p <= file.size /\ (n = 0 \/ p + n <= file.size)
FdReads(p, n)   == n = 0 \/ p + n <= file.size
Reads(p, n)     == IF file.kind = "blob" THEN BlobReads(p, n) ELSE FdReads(p, n)

Refuse == cxt' = [cxt EXCEPT !.stage = "refused"] /\ UNCHANGED doc

-----------------------------------------------------------------------------
\* The last bytes of the stream.
TailBytes == FlattenSeq(file.tail)
Write(p)  == /\ cxt.stage = "stream" /\ Len(TailBytes) + Len(p) <= file.size
            /\ file' = [file EXCEPT !.tail = Append(@, p)]
            /\ UNCHANGED <<doc, cxt>>

Signature == <<80, 75, 5, 6>>      \* 0x06054b50, little endian

(* Backwards over the window.  A byte that does not match starts over, and *)
(* is not tried as the first of another signature.                         *)
Searched(st, b) ==
    IF st.found THEN st
    ELSE LET n == IF b = Signature[4 - st.matched] THEN st.matched + 1 ELSE 0
         IN [matched |-> n, dist |-> st.dist + 1, found |-> n = 4]
SeekCentralDir ==
    LET n  == Len(TailBytes)
        st == FoldLeft(Searched, [matched |-> 0, dist |-> 0, found |-> FALSE],
                       Reverse(SubSeq(TailBytes, IF n > Window THEN n - Window + 1 ELSE 1, n)))
    IN IF st.found THEN file.size - st.dist ELSE 0

\* load(): a record at the very beginning counts as none.
Load == /\ cxt.stage = "stream"
        /\ IF SeekCentralDir = 0 THEN Refuse
           ELSE cxt' = [cxt EXCEPT !.stage = "found", !.end = SeekCentralDir] /\ UNCHANGED doc
        /\ UNCHANGED file

\* The disk that is named after the signature; the rest is chosen.
TailAt(p) == TailBytes[p - (file.size - Len(TailBytes)) + 1]
ReadCentralDirEnd(e) ==
    /\ cxt.stage = "found"
    /\ IF /\ Reads(cxt.end, EndSize)
          /\ TailAt(cxt.end + 4) = 0 /\ TailAt(cxt.end + 5) = 0 /\ e.disk = 0
          /\ e.size # Marker /\ e.pos # Marker
          /\ e.pos <= file.size /\ e.size <= file.size - e.pos
          /\ Reads(e.pos, 4)
       THEN /\ cxt' = [cxt EXCEPT !.stage = "entries", !.end = 0, !.at = e.pos + 4, !.total = e.total]
            /\ UNCHANGED doc
       ELSE Refuse
    /\ file' = [file EXCEPT !.tail = << >>]      \* as the record's place, not looked at any more

(* A name that is empty or absolute, that has a backslash or a NUL, or two *)
(* dots between slashes.                                                   *)
IsUnsafe(name) ==
    \/ name = << >> \/ name[1] = "/"
    \/ \E i \in DOMAIN name : name[i] \in {"\\", "NUL"}
    \/ \E i \in 0..Len(name) :
          /\ i = 0 \/ name[i] = "/"
          /\ i + 2 <= Len(name) /\ name[i + 1] = "." /\ name[i + 2] = "."
          /\ i + 2 = Len(name) \/ name[i + 3] = "/"

\* The checks of read_file_entries() on an entry at p, past its signature.
Accepted(e, p) ==
    /\ Reads(p, EntrySize)
    /\ Marker \notin {e.compressed, e.uncompressed, e.offset}
    /\ ~e.encrypted /\ e.disk = 0
    /\ e.compressed <= file.size /\ e.offset < file.size
    /\ e.method = "deflated" /\ e.compressed > 0 => e.uncompressed \div e.compressed <= MaxRatio
    /\ e.name # << >> => Reads(p + EntrySize, Len(e.name)) /\ ~IsUnsafe(e.name)
    /\ Reads(p + EntrySize + Len(e.name) + e.skipped, 4)      \* the next signature

Inserted(names, n, i) ==     \* unordered_map::insert
    IF n \in DOMAIN names THEN names ELSE [m \in DOMAIN names \cup {n} |-> IF m = n THEN i ELSE names[m]]

ReadEntry(e) ==
    /\ cxt.stage = "entries" /\ Len(cxt.params) < cxt.total /\ Len(file.entries) < MaxEntries
    /\ file' = [file EXCEPT !.entries = Append(@, e)]
    /\ IF Accepted(e, cxt.at)
       THEN /\ cxt' = [cxt EXCEPT !.at = @ + EntrySize + Len(e.name) + e.skipped + 4,
                                  !.params = Append(@, e),
                                  !.names = Inserted(@, e.name, Len(cxt.params) + 1)]
            /\ UNCHANGED doc
       ELSE Refuse

\* All that were counted are read, or what follows has another signature.
EndEntries == cxt.stage = "entries" /\ cxt' = [cxt EXCEPT !.stage = "loaded"] /\ UNCHANGED <<doc, file>>

-----------------------------------------------------------------------------
Failed == [ok |-> FALSE]

\* get_file_entry_header(): of the local header, not of the directory.
Header(i) ==
    IF i \notin DOMAIN cxt.params THEN Failed
    ELSE LET o == cxt.params[i].offset
             h == Locals[o]
         IN IF /\ Reads(o, LocalSize)
               /\ h.name # << >> => Reads(o + LocalSize, Len(h.name)) /\ ~IsUnsafe(h.name)
               /\ h.extra > 0 => Reads(o + LocalSize + Len(h.name), h.extra)
            THEN [ok |-> TRUE, header |-> h] ELSE Failed

\* zip_inflater: the deflate stream is complete and fills the buffer.
Inflates(h, p) == h.deflated <= p.compressed /\ h.inflated = p.uncompressed

\* read_file_entry()
Contents(i) ==
    LET p == cxt.params[i]
        h == Locals[p.offset]
        data == p.offset + LocalSize + Len(h.name) + h.extra
    IN IF /\ Reads(p.offset + 26, 4) /\ Reads(data, p.compressed)
          /\ p.method \in {"stored", "deflated"}
          /\ p.method = "deflated" => Inflates(h, p)
       THEN [ok |-> TRUE, at |-> data, size |-> IF p.method = "stored" THEN p.compressed ELSE p.uncompressed]
       ELSE Failed

HeaderNamed(n)   == IF n \in DOMAIN cxt.names THEN Header(cxt.names[n]) ELSE Failed
ContentsNamed(n) == IF n \in DOMAIN cxt.names THEN Contents(cxt.names[n]) ELSE Failed

Answer(op, arg, r) == /\ cxt.stage = "loaded"
                      /\ cxt' = [cxt EXCEPT !.stage = "asked"]
                      /\ doc' = [op |-> op, arg |-> arg, result |-> r]
                      /\ UNCHANGED file
GetFileEntryHeader == \/ \E i \in 1..MaxEntries + 1 : Answer("header of index", i, Header(i))
                      \/ \E n \in AskedNames : Answer("header", n, HeaderNamed(n))
ReadFileEntry      == \E n \in AskedNames : Answer("contents", n, ContentsNamed(n))

Next == /\ \/ \E p \in TailPieces : Len(file.tail) < MaxTail /\ Write(p)
           \/ Load
           \/ \E e \in Ends : ReadCentralDirEnd(e)
           \/ \E e \in Entries : ReadEntry(e)
           \/ EndEntries
           \/ GetFileEntryHeader
           \/ ReadFileEntry
        /\ UNCHANGED builder

-----------------------------------------------------------------------------
(* The end record that is used is the last one in the window: no record of *)
(* a single disk comes after it, and none is missed when none is found,    *)
(* but for one that is all there is of the stream.                         *)
RecordAt(t, q) == /\ q + 5 <= Len(t) /\ SubSeq(t, q, q + 3) = Signature
                  /\ t[q + 4] = 0 /\ t[q + 5] = 0
Records == LET t == TailBytes      \* their places in the stream
               n == Len(t)
           IN {file.size - n + q - 1 : q \in {p \in 1..n : n - p < Window /\ RecordAt(t, p)}}
ArchiveEndIsTheLast ==
    /\ cxt.stage = "found" => /\ \A i \in 0..3 : TailAt(cxt.end + i) = Signature[i + 1]
                              /\ \A p \in Records : p <= cxt.end
    /\ cxt.stage = "refused" => Records \subseteq {0}

(* A name never leads out of the directory an archive is unpacked to, step *)
(* by step along its slashes.                                              *)
Walked(st, c) == IF c # "/" THEN [st EXCEPT !.step = Append(@, c)]
                 ELSE LET d == CASE st.step = <<".", ".">> -> -1
                                 [] st.step \in {<<".">>, << >>} -> 0
                                 [] OTHER -> 1
                      IN [step |-> << >>, depth |-> st.depth + d, out |-> st.out \/ st.depth + d < 0]
StaysInside(name) ==
    name # << >> => name[1] # "/" /\ ~FoldLeft(Walked, [step |-> << >>, depth |-> 0, out |-> FALSE], name \o <<"/">>).out
NamesStayInside == /\ \A i \in DOMAIN cxt.params : StaysInside(cxt.params[i].name)
                   /\ cxt.stage = "asked" /\ doc.op # "contents" /\ doc.result.ok => StaysInside(doc.result.header.name)

(* What is told of an entry is of the first entry of that name: its local  *)
(* header, and all the bytes that follow that header and lie in the        *)
(* archive.  A name is refused only if there is no such entry, or its      *)
(* bytes are not there or not those the directory promises.                *)
EntryOf(n) == CHOOSE i \in DOMAIN file.entries : /\ file.entries[i].name = n
                                                 /\ \A j \in 1..i - 1 : file.entries[j].name # n
EntriesAreOwn ==
    cxt.stage = "asked" /\ doc.op \in {"header", "contents"} =>
        LET known == \E i \in DOMAIN file.entries : file.entries[i].name = doc.arg
            e == file.entries[EntryOf(doc.arg)]
            h == Locals[e.offset]
            data == e.offset + 30 + Len(h.name) + h.extra
            whole == IF e.method = "deflated" THEN h.deflated <= e.compressed /\ h.inflated = e.uncompressed
                                              ELSE e.method = "stored"
        IN IF ~known THEN ~doc.result.ok
           ELSE IF doc.op = "header"
                THEN /\ doc.result.ok => doc.result.header = h
                     /\ data <= file.size /\ StaysInside(h.name) /\ ~doc.result.ok => IsUnsafe(h.name)
                ELSE /\ doc.result.ok => /\ doc.result.at = data
                                         /\ e.compressed > 0 => data + e.compressed <= file.size
                                         /\ doc.result.size = IF e.method = "stored" THEN e.compressed ELSE h.inflated
                     /\ data + e.compressed <= file.size /\ whole => doc.result.ok
=============================================================================
