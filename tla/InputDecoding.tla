---------------------------- MODULE InputDecoding ----------------------------
(***************************************************************************)
(* load_csv and load_npz (inputs.py, npz_safe.py): from the bytes of one   *)
(* snapshot to a pair of series, or to an error.                           *)
(*                                                                         *)
(* Bytes are counted and not spelled.  An archive is its end record, the   *)
(* two entries of its directory, and what stands at the places they point  *)
(* to; a text is its physical lines.  Whatever is in the file, the code    *)
(* must end, hold a bounded output, and return the pair that the file      *)
(* describes if it describes one.                                          *)
(***************************************************************************)
EXTENDS Integers, Sequences

CONSTANTS
    Inputs,      \* the files
    Chunk,       \* compressed bytes offered at once (65536)
    HeaderSize,  \* bytes of a local header and the name after it
    MaxDirectory, MaxMember, MaxTotal, MaxHeader, MaxElements, \* npz_* and npy_* limits
    MaxRecord, MaxRows, \* csv_record_characters, csv_data_rows
    MaxLag,      \* the largest candidate
    NoArray      \* a series that has not been read

Series == {"source", "target"}

Smaller(a, b) == IF a <= b THEN a ELSE b

\* A directory entry, with what stands at its local offset.  The length of a deflated stream
\* and the output it has are facts of the data, the sizes are what both headers say.
Entries ==
    [name   : Series \cup {"other"},
     sound  : BOOLEAN,  \* both headers pass the checks that involve nothing below
     method : {"stored", "deflated"},
     at     : Nat,      \* the local offset
     csize  : Nat,
     usize  : Nat,
     stream : [length : Nat \ {0}, output : Nat, clean : BOOLEAN],
     crc    : BOOLEAN,  \* the recorded CRC is the one of the data
     npy    : [header : Nat, elements : Nat, axis : BOOLEAN, real : BOOLEAN, exact : BOOLEAN]]

\* The header of an NPY member can be read and has one axis; its items are real numbers, each
\* counted as one byte here; all of them are finite values of float64.

Archives ==
    [format    : {"npz"},
     ends      : Nat,   \* end records whose comment ends with the file
     central   : Nat,
     directory : Nat,   \* its size
     end       : Nat,   \* the place of the end record
     entries   : Seq(Entries)]

\* A line as readline and csv.reader see it: the header again, two numbers, two cells of which
\* one is too long, or anything else.
PhysicalLines == [chars : Nat, cells : {"names", "numbers", "long", "other"}]

Texts ==
    [format     : {"csv"},
     columns    : [1 .. 2 -> Series],  \* what the header names
     lines      : Seq(PhysicalLines),
     terminated : BOOLEAN]             \* the last line ends with a newline

ASSUME InputAssumption ==
    /\ Inputs \subseteq Archives \cup Texts
    /\ \A t \in Inputs \cap Texts :   \* nothing after the last newline is no line
        t.lines = <<>> \/ t.terminated \/ t.lines[Len(t.lines)].chars > 0
    /\ {Chunk, HeaderSize} \subseteq Nat \ {0}
    /\ {MaxDirectory, MaxMember, MaxTotal, MaxHeader, MaxElements} \subseteq Nat
    /\ {MaxRecord, MaxRows, MaxLag} \subseteq Nat
    /\ NoArray \notin [from : Series, length : Nat]

VARIABLES
    input,    \* the file
    pc,       \* the next step, or "loaded" or "raised"
    reading,  \* the series whose member is extracted
    cursor,   \* compressed bytes of the member taken from the file
    pending,  \* those of them the decompressor has not taken
    consumed, \* those it has taken
    observed, \* bytes of output held
    stalled,  \* the decompressor once stopped short of what it could do
    turn,     \* flips with each of its calls: one without any effect is a step, too
    place,    \* the physical line, and the characters taken of it
    arrays,   \* the series read so far: the column or member they are from, their length
    error     \* the kind of the raised error, if any

vars == <<input, pc, reading, cursor, pending, consumed, observed, stalled, turn, place, arrays,
          error>>

deflating == <<cursor, pending, consumed, observed, stalled, turn>>

Init ==
    /\ input \in Inputs
    /\ pc = IF input.format = "npz" THEN "preflight" ELSE "header"
    /\ reading = "source"
    /\ cursor = 0
    /\ pending = 0
    /\ consumed = 0
    /\ observed = 0
    /\ stalled = FALSE
    /\ turn = FALSE
    /\ place = [line |-> 1, taken |-> 0]
    /\ arrays = [s \in Series |-> NoArray]
    /\ error = "none"

-----------------------------------------------------------------------------
\* Control

Raise(kind) ==
    /\ pc' = "raised"
    /\ error' = kind

Goto(next) ==
    /\ pc' = next
    /\ UNCHANGED error

\* One check of a chain: the rest runs if it holds.
Require(holds, kind, rest) ==
    \/ holds /\ rest
    \/ ~holds /\ Raise(kind)

-----------------------------------------------------------------------------
\* The archive as its headers describe it

MemberRange(e) == [from |-> e.at, to |-> e.at + HeaderSize + e.csize]

\* One end record, the directory right before it, two entries in it.
Delimited(a) ==
    /\ a.ends = 1
    /\ Len(a.entries) = 2
    /\ a.central + a.directory = a.end

\* Sorted by their first byte, the first member ends before the second begins.
RangesAreApart(a) ==
    \A i, j \in DOMAIN a.entries :
        LET first == MemberRange(a.entries[i])
            second == MemberRange(a.entries[j])
        IN  i # j /\ (first.from < second.from \/ (first.from = second.from /\ first.to <= second.to))
                => first.to <= second.from

\* Both entries and their local headers agree, and name the two series, apart.
EntriesAreSound(a) ==
    /\ \A i \in DOMAIN a.entries :
        a.entries[i].sound /\ MemberRange(a.entries[i]).to <= a.central
    /\ {a.entries[i].name : i \in DOMAIN a.entries} = Series
    /\ RangesAreApart(a)

DeclaredSizesFit(a) ==
    /\ a.entries[1].usize + a.entries[2].usize <= MaxTotal
    /\ \A i \in DOMAIN a.entries : a.entries[i].usize <= MaxMember

\* All metadata is checked before any member is extracted.
Preflight ==
    /\ pc = "preflight"
    /\ Require(Delimited(input), "malformed",
       Require(input.directory <= MaxDirectory, "resource",
       Require(EntriesAreSound(input), "malformed",
       Require(DeclaredSizesFit(input), "resource", Goto("extract")))))
    /\ UNCHANGED <<input, reading, deflating, place, arrays>>

EntryOf(a, s) == a.entries[CHOOSE i \in DOMAIN a.entries : a.entries[i].name = s]

\* The members are read in the order of their names, not of the directory.
Member == EntryOf(input, reading)

-----------------------------------------------------------------------------
\* Extraction

ExtractStored ==
    /\ pc = "extract"
    /\ Member.method = "stored"
    /\ Require(Member.csize <= MaxMember, "resource",
       Require(Member.csize = Member.usize, "malformed", Goto("verify")))
    /\ observed' = IF pc' = "raised" THEN observed ELSE Member.csize
    /\ UNCHANGED <<input, reading, cursor, pending, consumed, stalled, turn, place, arrays>>

OpenDeflated ==
    /\ pc = "extract"
    /\ Member.method = "deflated"
    /\ Goto("inflate")
    /\ cursor' = 0
    /\ pending' = 0
    /\ consumed' = 0
    /\ observed' = 0
    /\ UNCHANGED <<input, reading, stalled, turn, place, arrays>>

\* The output a decompressor has once it was given n bytes of the stream: a byte for each, and
\* the rest with the last one.
Available(stream, n) ==
    IF n = stream.length THEN stream.output ELSE Smaller(n, stream.output)

\* Mutant of Room: what is already held is not subtracted.
WholeRoom == MaxMember + 1

\* The output one call may return: never more than one byte over the limit in all.
Room == MaxMember + 1 - observed

\* The decompressor reports the end of a stream whose output was returned to the last byte.
StreamEnds(taken, given) ==
    /\ Member.stream.clean
    /\ consumed + taken = Member.stream.length
    /\ observed + given = Member.stream.output

\* Mutant of AfterInflating: what follows the end of the stream is ignored.
AfterInflatingPrefix(offered, read, taken, given) ==
    Require(observed + given <= MaxMember, "resource",
    IF StreamEnds(taken, given)
    THEN Goto("verify")
    ELSE Require(taken > 0 \/ given > 0, "malformed", Goto("inflate")))

\* Mutant of AfterInflating: a call without progress is repeated.
AfterInflatingRepeated(offered, read, taken, given) ==
    Require(observed + given <= MaxMember, "resource",
    IF StreamEnds(taken, given)
    THEN Require(taken = offered /\ read = Member.csize, "malformed", Goto("verify"))
    ELSE Goto("inflate"))

\* What follows one call: too much output, the end of the stream and of the member, no
\* progress, or another turn.
AfterInflating(offered, read, taken, given) ==
    Require(observed + given <= MaxMember, "resource",
    IF StreamEnds(taken, given)
    THEN Require(taken = offered /\ read = Member.csize, "malformed", Goto("verify"))
    ELSE Require(taken > 0 \/ given > 0, "malformed", Goto("inflate")))

\* One turn of the loop.  The decompressor takes some of what it is offered and returns some
\* of the output it has; it need do neither.
Inflate ==
    /\ pc = "inflate"
    /\ pending > 0 \/ cursor < Member.csize
    /\ LET offered == IF pending > 0 THEN pending ELSE Smaller(Chunk, Member.csize - cursor)
           read    == IF pending > 0 THEN cursor ELSE cursor + offered
           most    == Smaller(offered, Member.stream.length - consumed)
       IN  \E taken \in 0 .. most, given \in 0 .. Room :
            /\ observed + given <= Available(Member.stream, consumed + taken)
            /\ AfterInflating(offered, read, taken, given)
            /\ cursor' = read
            /\ pending' = offered - taken
            /\ consumed' = consumed + taken
            /\ observed' = observed + given
            /\ turn' = ~turn
            /\ stalled' = (stalled \/ (/\ given < Room
                                       /\ \/ taken < most
                                          \/ observed + given
                                                < Available(Member.stream, consumed + taken)))
    /\ UNCHANGED <<input, reading, place, arrays>>

\* zlib refuses the stream.
RefuseStream ==
    /\ pc = "inflate"
    /\ pending > 0 \/ cursor < Member.csize
    /\ ~Member.stream.clean
    /\ Raise("malformed")
    /\ UNCHANGED <<input, reading, deflating, place, arrays>>

\* The loop has offered everything and the stream has not ended.
Truncated ==
    /\ pc = "inflate"
    /\ pending = 0 /\ cursor = Member.csize
    /\ Raise("malformed")
    /\ UNCHANGED <<input, reading, deflating, place, arrays>>

\* Size and CRC of the extracted member, then its NPY header against its length.
LoadMember ==
    /\ pc = "verify"
    /\ LET npy == Member.npy
       IN  Require(observed = Member.usize /\ Member.crc, "malformed",
           Require(npy.header <= MaxHeader, "resource",
           Require(npy.axis, "malformed",
           Require(npy.elements <= MaxElements, "resource",
           Require(npy.real /\ npy.header + npy.elements = observed, "malformed",
               Goto(IF reading = "source" THEN "extract" ELSE "pair"))))))
    /\ IF pc' = "raised"
       THEN UNCHANGED <<reading, arrays>>
       ELSE /\ arrays' = [arrays EXCEPT ![reading] =
                            [from |-> reading, length |-> Member.npy.elements]]
            /\ reading' = "target"
    /\ UNCHANGED <<input, deflating, place>>

-----------------------------------------------------------------------------
\* Text

Lines == input.lines

\* Characters asked of readline: one record of the largest size and its newline.
Bound == MaxRecord + 1

Rest == Lines[place.line].chars - place.taken

Newline == IF place.line < Len(Lines) \/ input.terminated THEN 1 ELSE 0

EndOfText ==
    \/ place.line > Len(Lines)
    \/ place.line = Len(Lines) /\ Rest + Newline = 0

\* readline(Bound): a whole line, its newline dropped, or a part of a longer one.
Record == IF Rest + Newline <= Bound THEN Rest ELSE Bound

Advance ==
    place' = IF Rest + Newline <= Bound
             THEN [line |-> place.line + 1, taken |-> 0]
             ELSE [place EXCEPT !.taken = @ + Bound]

ReadHeader ==
    /\ pc = "header"
    /\ \/ /\ EndOfText
          /\ Raise("malformed")
          /\ UNCHANGED place
       \/ /\ ~EndOfText
          /\ Advance
          /\ LET cells == Lines[place.line].cells
             IN  Require(Record <= MaxRecord /\ cells # "long", "resource",
                 Require(cells = "names" /\ {input.columns[1], input.columns[2]} = Series, "malformed",
                     Goto("row")))
    /\ UNCHANGED <<input, reading, deflating, arrays>>

Rows == IF arrays["source"] = NoArray THEN 0 ELSE arrays["source"].length

\* The header name of the column a series is filled from: compared with the source name.
ColumnOf(s) ==
    IF input.columns[1] = "source"
    THEN input.columns[IF s = "source" THEN 1 ELSE 2]
    ELSE input.columns[IF s = "source" THEN 2 ELSE 1]

ReadRow ==
    /\ pc = "row"
    /\ ~EndOfText
    /\ Advance
    /\ LET cells == Lines[place.line].cells
       IN  Require(Rows < MaxRows, "resource",
           Require(Record <= MaxRecord, "resource",
           Require(Record > 0, "malformed",
           Require(cells # "long", "resource",
           Require(cells = "numbers", "malformed", Goto("row"))))))
    /\ arrays' = IF pc' = "raised" THEN arrays
                 ELSE [s \in Series |-> [from |-> ColumnOf(s), length |-> Rows + 1]]
    /\ UNCHANGED <<input, reading, deflating>>

CloseText ==
    /\ pc = "row"
    /\ EndOfText
    /\ Require(Rows > 0, "malformed", Goto("pair"))
    /\ UNCHANGED <<input, reading, deflating, place, arrays>>

-----------------------------------------------------------------------------
\* Integers that float64 holds exactly, series of one length, longer than every lag.
MakePair ==
    /\ pc = "pair"
    /\ Require(input.format = "npz" => \A s \in Series : EntryOf(input, s).npy.exact, "malformed",
       Require(arrays["source"].length = arrays["target"].length, "malformed",
       Require(arrays["source"].length > MaxLag, "malformed", Goto("loaded"))))
    /\ UNCHANGED <<input, reading, deflating, place, arrays>>

Ended == pc \in {"loaded", "raised"}

Stopped ==
    /\ Ended
    /\ UNCHANGED vars

Next ==
    \/ Preflight
    \/ ExtractStored \/ OpenDeflated \/ Inflate \/ RefuseStream \/ Truncated \/ LoadMember
    \/ ReadHeader \/ ReadRow \/ CloseText
    \/ MakePair
    \/ Stopped

Spec == Init /\ [][Next]_vars

\* One thread, no waiting: it never stops between two steps.
FairSpec == Spec /\ WF_vars(Next)
-----------------------------------------------------------------------------
\* What a file says, without the steps of a reader

Bytes(e) == LET r == MemberRange(e) IN r.from .. r.to - 1

\* The data of a member is what its headers say it is, and an array of allowed size.
IsWhole(e) ==
    /\ e.sound /\ e.crc
    /\ IF e.method = "stored"
       THEN e.csize = e.usize
       ELSE e.stream.clean /\ e.stream.length = e.csize /\ e.stream.output = e.usize
    /\ e.npy.axis /\ e.npy.real /\ e.npy.exact
    /\ e.npy.header + e.npy.elements = e.usize
    /\ e.usize <= MaxMember /\ e.npy.header <= MaxHeader /\ e.npy.elements <= MaxElements

\* An archive of two whole members, no byte in both, and nothing else in its directory.
ArchiveHolds(a) ==
    /\ Delimited(a)
    /\ a.directory <= MaxDirectory
    /\ \A s \in Series : \E i \in {1, 2} : a.entries[i].name = s
    /\ \A i \in {1, 2} : IsWhole(a.entries[i]) /\ \A b \in Bytes(a.entries[i]) : b < a.central
    /\ Bytes(a.entries[1]) \cap Bytes(a.entries[2]) = {}
    /\ a.entries[1].usize + a.entries[2].usize <= MaxTotal

\* A text of a header that names both series, and of rows of two numbers.
TextHolds(t) ==
    /\ {t.columns[1], t.columns[2]} = Series
    /\ Len(t.lines) \in 2 .. MaxRows + 1
    /\ t.lines[1].cells = "names" /\ t.lines[1].chars <= MaxRecord
    /\ \A i \in 2 .. Len(t.lines) :
        t.lines[i].cells = "numbers" /\ t.lines[i].chars \in 1 .. MaxRecord

LengthOf(f, s) == IF f.format = "npz" THEN EntryOf(f, s).npy.elements ELSE Len(f.lines) - 1

\* The file describes two series, of one length that the candidates allow.
Describes(f) ==
    /\ IF f.format = "npz" THEN ArchiveHolds(f) ELSE TextHolds(f)
    /\ LengthOf(f, "source") = LengthOf(f, "target")
    /\ LengthOf(f, "source") > MaxLag

\* Some limit is exceeded, by what a header declares or by what the data are.
ExceedsLimit(f) ==
    IF f.format = "npz"
    THEN \/ f.directory > MaxDirectory
         \/ f.entries[1].usize + f.entries[2].usize > MaxTotal
         \/ \E i \in {1, 2} :
               LET e == f.entries[i]
               IN  \/ e.usize > MaxMember
                   \/ (IF e.method = "stored" THEN e.csize ELSE e.stream.output) > MaxMember
                   \/ e.npy.header > MaxHeader \/ e.npy.elements > MaxElements
    ELSE \/ Len(f.lines) - 1 > MaxRows
         \/ \E i \in DOMAIN f.lines : f.lines[i].chars > MaxRecord \/ f.lines[i].cells = "long"

-----------------------------------------------------------------------------
\* Properties

\* A pair that is returned is the one the file describes: each series from the member or the
\* column of its name, whatever their order, the whole of it and nothing beside it (load_npz,
\* load_csv, _extract_deflated_member, _preflight_npz_archive).
LoadedIsDescribed ==
    pc = "loaded" =>
        /\ Describes(input)
        /\ arrays = [s \in Series |-> [from |-> s, length |-> LengthOf(input, s)]]

\* Whatever the headers declare, one member's output is never more than a byte over the limit,
\* and a file that is refused for a limit exceeds one (raise_input_resource_limit).
LimitsHold ==
    /\ observed <= MaxMember + 1
    /\ error = "resource" => ExceedsLimit(input)

\* Decoding always ends, however the decompressor behaves; and while it does what it can, a
\* file that describes a pair is never refused.
DecodingEnds ==
    <>(Ended /\ (Describes(input) => pc = "loaded" \/ stalled))
=============================================================================
