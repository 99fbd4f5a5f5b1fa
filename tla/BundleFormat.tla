---------------------------- MODULE BundleFormat ----------------------------
(***************************************************************************)
(* The application carried by its own executable: two writers link files   *)
(* into a runtime, a signing tool changes what follows, and two readers    *)
(* find the files again.  ELF and PE grow at the end; in a Mach-O the      *)
(* payload is a segment of its own before __LINKEDIT, whose offsets move.  *)
(*                                                                         *)
(* A file is a sequence of cells and an offset counts them from 0.  The    *)
(* payload's header, each of its entries and the trailer are one cell      *)
(* each, and so is a Mach-O header with its load commands; a page is two.  *)
(* The digest of some cells is the cells.                                  *)
(***************************************************************************)
EXTENDS Integers, Sequences, SequencesExt, FiniteSetsExt

CONSTANTS
    CliPaths, CorePaths,  \* the paths in the order of either writer
    UnsafePaths,          \* those that is_safe_path refuses
    MaxTrailing,          \* MAX_TRAILING_BYTES, in cells
    MaxLinks, MaxSigns    \* bounds
ASSUME BundleAssumption ==
    /\ ToSet(CliPaths) = ToSet(CorePaths) /\ UnsafePaths \subseteq ToSet(CliPaths)
    /\ {MaxTrailing, MaxLinks, MaxSigns} \subseteq Nat

VARIABLES
    file,       \* the executable
    runtime,    \* what the last link was given
    carried,    \* the files of each link, oldest first
    newest,     \* the format version of the last link
    signatures, \* how many times a tool has signed
    damaged     \* a cell of the payload or its trailer was changed

bundleVars == <<file, runtime, carried, newest, signatures, damaged>>

FormatVersion == 1
HeaderSize    == 1
TrailerSize   == 1
Page          == 2

Byte(what) == [is |-> "byte", what |-> what]
AtOffset(f, at) == f[at + 1]
Slice(f, at, size) == SubSeq(f, at + 1, at + size)
Failed == [is |-> "error"]
Absent == [is |-> "none"]
Done(f) == [is |-> "ok", file |-> f]
Is(f, at, kind) == at \in 0..Len(f) - 1 /\ AtOffset(f, at).is = kind
Aligned(size) == ((size + Page - 1) \div Page) * Page

(***************************************************************************)
(* The Mach-O container.  Commands: a segment with its sections' offsets,  *)
(* a table in __LINKEDIT, or the signature.                                *)
(***************************************************************************)
IsMachO(f) == Is(f, 0, "macho")
Commands(f) == AtOffset(f, 0).commands
Named(commands, name) ==
    SelectSeq(commands, LAMBDA c : c.kind = "segment" /\ c.name = name)
Signatures(commands) == SelectSeq(commands, LAMBDA c : c.kind = "signature")

\* parseMachO; commandsEnd is the header's cell, whose padding is `room`.
ParseMachO(f) ==
    LET commands == Commands(f)
        linkedit == Named(commands, "__LINKEDIT")
        signed   == Signatures(commands)
        from     == IF signed = <<>> THEN Len(f) ELSE signed[1].at
    IN  IF \/ linkedit = <<>> \/ Named(commands, "__TEXT") = <<>>
           \/ Named(commands, "__BLITSEN") # <<>>
           \/ linkedit[1].at + linkedit[1].size # Len(f)
           \/ signed # <<>> /\ (from < linkedit[1].at \/ from + signed[1].size # Len(f))
           \/ AtOffset(f, 0).room < (IF signed = <<>> THEN 2 ELSE 1)
        THEN Failed
        ELSE [is |-> "ok", linkedit |-> linkedit[1], signature |-> from,
              signed |-> signed # <<>>]

\* parse: the last of two commands of one name counts, and the segment that is
\* there already is found later.
CoreParse(f) ==
    LET commands == Commands(f)
        linkedit == Named(commands, "__LINKEDIT")
        signed   == Signatures(commands)
        from     == IF signed = <<>> THEN Len(f) ELSE Last(signed).at
    IN  IF \/ linkedit = <<>> \/ Named(commands, "__TEXT") = <<>>
           \/ Last(linkedit).at + Last(linkedit).size # Len(f)
           \/ signed # <<>> /\ (from < Last(linkedit).at \/ from + Last(signed).size # Len(f))
           \/ AtOffset(f, 0).room < (IF signed = <<>> THEN 2 ELSE 1)
        THEN Failed
        ELSE [is |-> "ok", linkedit |-> Last(linkedit), signature |-> from,
              signed |-> signed # <<>>]

\* The bug looked for: the offset that is exactly where the segment goes stays.
ShiftInside(ref, amount, lower, upper) ==
    IF ref # 0 /\ ref > lower /\ ref < upper THEN ref + amount ELSE ref

\* What an offset becomes when the objects in lower..upper-1 move.
Shift(ref, amount, lower, upper) ==
    IF ref # 0 /\ ref >= lower /\ ref < upper THEN ref + amount ELSE ref

\* patch_command
PatchCommand(c, amount, lower, upper, signature) ==
    IF c.kind = "signature" THEN signature
    ELSE [c EXCEPT !.refs = [i \in DOMAIN @ |-> Shift(@[i], amount, lower, upper)]]

SegmentCommand(vm, at, size) ==
    [kind |-> "segment", name |-> "__BLITSEN", vm |-> vm, at |-> at, size |-> size, refs |-> <<>>]

\* One cell, whatever it covers.
AdHocSignature(f) == [is |-> "hashes", of |-> f]

\* injectMachOPayload: the payload's parts and the trailer come apart.
InjectMachOPayload(f, payload, trailer) ==
    LET parsed    == ParseMachO(f)
        linkedit  == parsed.linkedit
        size      == Aligned(Len(payload) + TrailerSize)
        data      == SubSeq(f, linkedit.at + 1, parsed.signature)
        signature == [kind |-> "signature", at |-> linkedit.at + size + Len(data), size |-> 1]
        embedded  == <<SegmentCommand(linkedit.vm, linkedit.at, size)>>
                     \o (IF parsed.signed THEN <<>> ELSE <<signature>>)
        moved     == [linkedit EXCEPT !.vm = @ + size, !.at = @ + size, !.size = Len(data) + 1]
        Rebuilt(c) == IF c = linkedit THEN Append(embedded, moved)
                      ELSE <<PatchCommand(c, size, linkedit.at, parsed.signature, signature)>>
        header    == [AtOffset(f, 0) EXCEPT
                         !.commands = FlattenSeq([i \in DOMAIN @ |-> Rebuilt(@[i])]),
                         !.room = @ - Len(embedded)]
        unsigned  == <<header>> \o SubSeq(f, 2, linkedit.at) \o payload
                     \o [i \in 1..size - Len(payload) - TrailerSize |-> Byte("pad")]
                     \o <<trailer>> \o data
    IN  IF parsed.is = "error" THEN Failed
        ELSE Done(Append(unsigned, AdHocSignature(unsigned)))

\* inject: they come as one section, which is parted again at its trailer.
Inject(f, section) ==
    LET parsed    == CoreParse(f)
        linkedit  == parsed.linkedit
        size      == Aligned(Len(section))
        data      == SubSeq(f, linkedit.at + 1, parsed.signature)
        signature == [kind |-> "signature", at |-> linkedit.at + size + Len(data), size |-> 1]
        before    == SelectInSeq(Commands(f), LAMBDA c : c = linkedit) - 1
        Patched(c) == PatchCommand(c, size, linkedit.at, parsed.signature, signature)
        kept      == [i \in DOMAIN Commands(f) |-> Patched(Commands(f)[i])]
        rebuilt   == SubSeq(kept, 1, before)
                     \o <<SegmentCommand(linkedit.vm, linkedit.at, size)>>
                     \o (IF parsed.signed THEN <<>> ELSE <<signature>>)
                     \o <<[linkedit EXCEPT !.vm = @ + size, !.at = @ + size,
                                           !.size = Len(data) + 1]>>
                     \o SubSeq(kept, before + 2, Len(kept))
        header    == [AtOffset(f, 0) EXCEPT !.commands = rebuilt,
                         !.room = @ - (Len(rebuilt) - Len(kept))]
        unsigned  == <<header>> \o SubSeq(f, 2, linkedit.at) \o Front(section)
                     \o [i \in 1..size - Len(section) |-> Byte("pad")]
                     \o <<Last(section)>> \o data
    IN  IF parsed.is = "error" \/ Named(Commands(f), "__BLITSEN") # <<>> THEN Failed
        ELSE Done(Append(unsigned, AdHocSignature(unsigned)))

(***************************************************************************)
(* The writers.  `files` is a function from paths to cells.                *)
(***************************************************************************)
In(paths, files) == SelectSeq(paths, LAMBDA p : p \in DOMAIN files)
FileSizes(paths, files) == [i \in DOMAIN paths |-> Len(files[paths[i]])]
Before(sizes, i) == FoldLeft(+, 0, SubSeq(sizes, 1, i - 1))

Serialized(paths, files, version) ==
    LET sizes == FileSizes(paths, files)
    IN  <<[is |-> "payload", version |-> version, count |-> Len(paths),
           index |-> Len(paths), data |-> FoldLeft(+, 0, sizes)]>>
        \o [i \in DOMAIN paths |-> [is |-> "entry", path |-> paths[i],
                                    at |-> Before(sizes, i), size |-> sizes[i]]]
        \o FlattenSeq([i \in DOMAIN paths |-> files[paths[i]]])

SerializeTrailer(payload, at, version) ==
    [is |-> "trailer", digest |-> payload, at |-> at, size |-> Len(payload), version |-> version]

\* linkBundle: nothing is written when a path or the runtime is refused.
LinkBundle(f, files, version) ==
    LET payload == Serialized(In(CliPaths, files), files, version)
    IN  IF DOMAIN files \cap UnsafePaths # {} THEN Failed
        ELSE IF ~IsMachO(f)
        THEN Done(f \o payload \o <<SerializeTrailer(payload, Len(f), version)>>)
        ELSE IF ParseMachO(f).is = "error" THEN Failed
        ELSE InjectMachOPayload(f, payload,
                 SerializeTrailer(payload, ParseMachO(f).linkedit.at, version))

\* write_bundle: its paths are checked by the reader alone.
WriteBundle(f, files) ==
    LET payload == Serialized(In(CorePaths, files), files, FormatVersion)
        Trailer(at) == <<SerializeTrailer(payload, at, FormatVersion)>>
    IN  IF ~IsMachO(f) THEN Done(f \o payload \o Trailer(Len(f)))
        ELSE IF CoreParse(f).is = "error" THEN Failed
        ELSE Inject(f, payload \o Trailer(CoreParse(f).linkedit.at))

(***************************************************************************)
(* The readers                                                             *)
(***************************************************************************)
\* consider: a trailer counts when what it points at opens as a payload.
PointsAtPayload(f, at) ==
    LET trailer == AtOffset(f, at)
    IN  /\ trailer.size >= HeaderSize
        /\ trailer.at + trailer.size <= at
        /\ Is(f, trailer.at, "payload")
InReach(f) == (IF Len(f) > MaxTrailing THEN Len(f) - MaxTrailing ELSE 0)..Len(f) - 1
Candidates(f) == {at \in InReach(f) : Is(f, at, "trailer") /\ PointsAtPayload(f, at)}
Supported(f, candidates) == {at \in candidates : AtOffset(f, at).version <= FormatVersion}

Found(f, at) == [is |-> "found", trailer |-> AtOffset(f, at)]
NewestOf(f, candidates) == Found(f, Max(candidates))

\* payload_section: the first segment of that name, if it has no sections.
PayloadSection(f) ==
    LET segments == IF IsMachO(f) THEN Named(Commands(f), "__BLITSEN") ELSE <<>>
    IN  IF segments = <<>> THEN Absent
        ELSE IF segments[1].refs # <<>> THEN Failed
        ELSE [is |-> "segment", at |-> segments[1].at, size |-> segments[1].size]

FindTrailer(f) ==
    LET section == PayloadSection(f)
        end     == section.at + section.size - TrailerSize
        usable  == Supported(f, Candidates(f))
    IN  IF section.is = "error" THEN Failed
        ELSE IF section.is = "segment"
        THEN IF /\ section.size >= TrailerSize /\ end < Len(f)
                /\ Is(f, end, "trailer") /\ PointsAtPayload(f, end)
                /\ AtOffset(f, end).version <= FormatVersion
             THEN Found(f, end) ELSE Failed
        ELSE IF usable # {} THEN NewestOf(f, usable)
        ELSE IF Candidates(f) # {} THEN Failed
        ELSE Absent

\* parse_index: an entry inside the data, its path inside the application.
ParseIndex(index, count, data) ==
    IF \/ count # Len(index)
       \/ \E i \in DOMAIN index :
              \/ index[i].is # "entry"
              \/ index[i].at + index[i].size > data
              \/ index[i].path \in UnsafePaths
              \/ \E j \in 1..i - 1 : index[j].path = index[i].path
    THEN Failed
    ELSE [is |-> "index", entries |-> ToSet(index)]

\* AppBundle::open
Open(f) ==
    LET found   == FindTrailer(f)
        at      == found.trailer.at
        header  == AtOffset(f, at)
        parsed  == ParseIndex(Slice(f, at + HeaderSize, header.index), header.count, header.data)
    IN  IF found.is # "found" THEN found
        ELSE IF \/ HeaderSize + header.index + header.data # found.trailer.size
                \/ parsed.is = "error"
        THEN Failed
        ELSE [is |-> "open", trailer |-> found.trailer,
              data |-> at + HeaderSize + header.index, entries |-> parsed.entries]

\* AppBundle::read, of every path
Read(f, bundle) ==
    [p \in {e.path : e \in bundle.entries} |->
        LET entry == CHOOSE e \in bundle.entries : e.path = p
        IN  Slice(f, bundle.data + entry.at, entry.size)]
Verify(f, bundle) == Slice(f, bundle.trailer.at, bundle.trailer.size) = bundle.trailer.digest

\* readBundle: the CLI's own decoder knows no segments, checks no version and
\* takes the index as it stands.
ReadBundle(f) ==
    LET trailer == NewestOf(f, Candidates(f)).trailer
        header  == AtOffset(f, trailer.at)
        index   == Slice(f, trailer.at + HeaderSize, header.count)
        data    == trailer.at + HeaderSize + header.index
    IN  IF Candidates(f) = {} THEN Absent
        ELSE [is |-> "open", files |->
                 [p \in {index[i].path : i \in DOMAIN index} |->
                     LET entry == CHOOSE e \in ToSet(index) : e.path = p
                     IN  Slice(f, data + entry.at, entry.size)]]

(***************************************************************************)
(* The life of an executable                                               *)
(***************************************************************************)
Object(id) == [is |-> "object", id |-> id]
Mach(signed, room) ==
    LET Segment(name, vm, at, size, refs) ==
            [kind |-> "segment", name |-> name, vm |-> vm, at |-> at, size |-> size, refs |-> refs]
        end == IF signed THEN 6 ELSE 5
    IN  <<[is |-> "macho", room |-> room, commands |->
              <<Segment("__TEXT", 0, 0, 3, <<2>>), [kind |-> "table", refs |-> <<4, 0>>],
                Segment("__LINKEDIT", 4, 3, end - 3, <<>>), [kind |-> "table", refs |-> <<3>>]>>
              \o (IF signed THEN <<[kind |-> "signature", at |-> 5, size |-> 1]>> ELSE <<>>)],
          Byte("code"), Byte("code"), Object("symbols"), Object("strings")>>
        \o (IF signed THEN <<[is |-> "hashes", of |-> <<>>]>> ELSE <<>>)

\* What a build links into; the runtime's own text holds the trailer's magic.
Runtimes ==
    {<<Byte("code"), [is |-> "trailer", digest |-> <<>>, at |-> at, size |-> 1, version |-> 9],
       Byte("code")>> : at \in 0..1}
    \cup {Mach(signed, room) : signed \in BOOLEAN, room \in 0..2}

BundleInit ==
    /\ file \in Runtimes /\ runtime = file
    /\ carried = <<>> /\ newest = 0 /\ signatures = 0 /\ damaged = FALSE

\* A file is short, or an executable of its own: the one there is now.
FilesOf == UNION {[paths -> {<<Byte("text")>>, file}] : paths \in SUBSET ToSet(CliPaths)}

Linked(files, result, version) ==
    /\ result.is = "ok" /\ file' = result.file /\ runtime' = file
    /\ carried' = Append(carried, files) /\ newest' = version
    /\ signatures' = 0 /\ UNCHANGED damaged

\* The export's link step, of this release or of a later one.
Export ==
    /\ Len(carried) < MaxLinks /\ ~damaged
    /\ \E files \in FilesOf, version \in 1..2 :
           Linked(files, LinkBundle(file, files, version), version)
CoreExport ==
    /\ Len(carried) < MaxLinks /\ ~damaged
    /\ \E files \in FilesOf : Linked(files, WriteBundle(file, files), FormatVersion)

\* codesign replaces the signature at the end of __LINKEDIT, signtool appends
\* a certificate.
Resigned(f) ==
    LET signed   == Signatures(Commands(f))
        unsigned == SubSeq(f, 1, signed[1].at)
        Longer(c) == IF c.kind = "signature" THEN [c EXCEPT !.size = 2]
                     ELSE IF c.kind = "segment" /\ c.name = "__LINKEDIT"
                     THEN [c EXCEPT !.size = signed[1].at - c.at + 2] ELSE c
    IN  [unsigned EXCEPT ![1].commands = [i \in DOMAIN @ |-> Longer(@[i])]]
Sign ==
    /\ signatures < MaxSigns /\ carried # <<>> /\ signatures' = signatures + 1
    /\ IF IsMachO(file)
       THEN file' = Resigned(file) \o <<[is |-> "hashes", of |-> Resigned(file)], Byte("identity")>>
       ELSE file' = Append(file, Byte("certificate"))
    /\ UNCHANGED <<runtime, carried, newest, damaged>>

\* One cell of the last payload, or its trailer, is not what was written.
Flipped(cell) ==
    CASE cell.is = "payload" -> {[cell EXCEPT !.data = @ + 1], [cell EXCEPT !.index = @ + 1]}
      [] cell.is = "entry" -> {[cell EXCEPT !.size = @ + 1]}
                              \cup {[cell EXCEPT !.path = p] : p \in ToSet(CliPaths) \ {cell.path}}
      [] OTHER -> {Byte("flipped")}
DamagePayload ==
    /\ ~damaged /\ Open(file).is = "open" /\ damaged' = TRUE
    /\ LET trailer == Open(file).trailer
           end     == CHOOSE at \in 0..Len(file) - 1 : AtOffset(file, at) = trailer
       IN  \E at \in {end} \cup (trailer.at..trailer.at + trailer.size - 1) :
               \E cell \in Flipped(AtOffset(file, at)) : file' = [file EXCEPT ![at + 1] = cell]
    /\ UNCHANGED <<runtime, carried, newest, signatures>>

BundleNext == Export \/ CoreExport \/ Sign \/ DamagePayload
BundleSpec == BundleInit /\ [][BundleNext]_bundleVars

(***************************************************************************)
(* Properties                                                              *)
(***************************************************************************)
\* The files an executable is read back with are the files of its last link,
\* whatever follows, whatever of the runtime or of a file looks like a bundle
\* (bundle.rs:49-52): none before a link, an error for an unsafe path.  A link
\* of a later release is an error too, unless the runtime was linked before.
\* Once a cell has changed, what still opens and verifies was linked once.
WithinReach == IsMachO(file) \/ signatures < MaxTrailing
LastIsRead ==
    LET bundle == Open(file)
    IN  IF damaged
        THEN bundle.is = "open" /\ Verify(file, bundle) => Read(file, bundle) \in ToSet(carried)
        ELSE IF carried = <<>> THEN bundle = Absent
        ELSE IF ~WithinReach THEN bundle.is # "open"
        ELSE IF DOMAIN Last(carried) \cap UnsafePaths # {} THEN bundle = Failed
        ELSE IF newest > FormatVersion
        THEN \/ bundle = Failed
             \/ bundle.is = "open" /\ Read(file, bundle) \in ToSet(Front(carried))
        ELSE /\ bundle.is = "open" /\ Verify(file, bundle)
             /\ Read(file, bundle) = Last(carried)
             /\ (ReadBundle(file).is = "open" => ReadBundle(file).files = Last(carried))

\* A linked Mach-O runs as its runtime did: every command still leads to its
\* object, no two segments share memory, and the signature covers all before it.
Objects(f) ==
    [i \in DOMAIN SelectSeq(Commands(f), LAMBDA c : c.kind = "table") |->
        LET refs == SelectSeq(Commands(f), LAMBDA c : c.kind = "table")[i].refs
        IN  [j \in DOMAIN refs |-> IF refs[j] = 0 THEN 0 ELSE AtOffset(f, refs[j])]]
StillRuns ==
    IsMachO(file) /\ carried # <<>> /\ ~damaged =>
        LET commands == Commands(file)
            segments == SelectSeq(commands, LAMBDA c : c.kind = "segment")
            signed   == Signatures(commands)
        IN  /\ Objects(file) = Objects(runtime)
            /\ \A i \in 1..Len(segments) - 1 :
                   segments[i].vm + segments[i].size <= segments[i + 1].vm
            /\ Len(signed) = 1
            /\ AtOffset(file, signed[1].at).of = SubSeq(file, 1, signed[1].at)
            /\ Last(segments).at + Last(segments).size = Len(file)

\* Both: what is linked is found, and what found it still runs.
LinkedIsFound == LastIsRead /\ StillRuns
=============================================================================
