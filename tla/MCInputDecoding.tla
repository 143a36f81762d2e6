--------------------------- MODULE MCInputDecoding ---------------------------
(***************************************************************************)
(* Small files: archives of two members that are whole but for one change, *)
(* and texts of up to three rows.                                          *)
(***************************************************************************)
EXTENDS InputDecoding

Whole(name, method, at, csize, usize) ==
    [name |-> name, sound |-> TRUE, method |-> method, at |-> at, csize |-> csize, usize |-> usize,
     stream |-> [length |-> csize, output |-> usize, clean |-> TRUE], crc |-> TRUE,
     npy |-> [header |-> 1, elements |-> usize - 1, axis |-> TRUE, real |-> TRUE, exact |-> TRUE]]

WholeEntries(name, at) ==
    {Whole(name, "stored", at, n, n) : n \in 2 .. 3}
    \cup {Whole(name, "deflated", at, n, u) : n \in 1 .. 3, u \in 2 .. 3}

\* One change: a header field, a fact of the data, or both together.
Changed(e) ==
    {[e EXCEPT !.sound = FALSE], [e EXCEPT !.name = "other"], [e EXCEPT !.crc = FALSE],
     [e EXCEPT !.csize = @ + 1], [e EXCEPT !.csize = @ - 1], [e EXCEPT !.csize = @ + 2],
     [e EXCEPT !.usize = @ + 1], [e EXCEPT !.usize = @ - 1],
     [e EXCEPT !.csize = @ + 1, !.usize = @ + 1],
     [e EXCEPT !.stream.length = @ + 1], [e EXCEPT !.stream.output = @ + 2],
     [e EXCEPT !.stream.output = @ - 1], [e EXCEPT !.stream.output = 0],
     [e EXCEPT !.stream.clean = FALSE],
     [e EXCEPT !.npy.header = @ + 1, !.npy.elements = @ - 1],
     [e EXCEPT !.npy.elements = @ + 1, !.usize = @ + 1, !.stream.output = @ + 1],
     [e EXCEPT !.npy.axis = FALSE, !.npy.elements = @ + 1], [e EXCEPT !.npy.real = FALSE], [e EXCEPT !.npy.exact = FALSE]}

Archive(first, second) ==
    [format |-> "npz", ends |-> 1, central |-> 8, directory |-> 2, end |-> 10,
     entries |-> <<first, second>>]

\* The second member stands right after the first, or a byte inside it, or before it.
Places == {<<0, 4>>, <<0, 3>>, <<4, 0>>}

SoundArchives ==
    UNION {{Archive(a, b) : a \in WholeEntries("source", p[1]), b \in WholeEntries("target", p[2])} :
            p \in Places}

ArchiveChanges(a) ==
    {[a EXCEPT !.ends = 2], [a EXCEPT !.end = 11], [a EXCEPT !.directory = 3, !.end = 11],
     [a EXCEPT !.central = 7, !.end = 9], [a EXCEPT !.entries = <<a.entries[1]>>],
     [a EXCEPT !.entries = <<a.entries[2], a.entries[1]>>],
     [a EXCEPT !.entries[2].name = "source"]}

SmallArchives ==
    SoundArchives
    \cup UNION {{[a EXCEPT !.entries[i] = e] : e \in Changed(a.entries[i])} :
                    a \in SoundArchives, i \in {1, 2}}
    \cup UNION {ArchiveChanges(a) : a \in SoundArchives}

Line(chars, cells) == [chars |-> chars, cells |-> cells]

\* The limit is three characters; a line without a newline is not empty.
SmallLines == {Line(n, "numbers") : n \in {0, 1, 3, 4}} \cup {Line(2, "names"), Line(3, "long"), Line(2, "other")}

SmallTexts ==
    {[format |-> "csv", columns |-> c, lines |-> l, terminated |-> t] :
        c \in [1 .. 2 -> Series], t \in BOOLEAN,
        l \in {<<>>} \cup {<<Line(n, "names")>> : n \in {3, 4}} \cup {<<Line(3, "other")>>}
              \cup {<<Line(3, "names")>> \o rows : rows \in UNION {[1 .. k -> SmallLines] : k \in 1 .. 3}}}

SmallInputs ==
    {a \in SmallArchives : \A i \in DOMAIN a.entries : a.entries[i].npy.elements >= 0}
    \cup {t \in SmallTexts : t.terminated \/ t.lines = <<>> \/ t.lines[Len(t.lines)].chars > 0}
=============================================================================
