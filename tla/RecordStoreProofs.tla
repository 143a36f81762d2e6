-------------------------- MODULE RecordStoreProofs --------------------------
(***************************************************************************)
(* The record store for any number of writers, inodes, members and         *)
(* incidents: what a returned writer wrote stays, and what a read returns  *)
(* was there.                                                              *)
(*                                                                         *)
(* The argument: the inodes of writers are their own, so the file of a     *)
(* writer nobody meddled with holds the pages it has sent; and a version   *)
(* never comes back, so a file whose identity is the one the reader saw    *)
(* first has not changed since.  Both together make every step a step of   *)
(* RecordRegister or a stutter.                                            *)
(***************************************************************************)
EXTENDS RecordStoreRefinement, TLAPS

-----------------------------------------------------------------------------
\* Types

Pages == Payloads \cup {Garbage, "v1", "v2"}

FileRecords == [pages : Seq(Pages), version : Nat]

WriterPCs ==
    {"start", "open", "write", "saved", "INVALID_LIMIT", "INVALID_MEMBERS", "LIMIT_EXCEEDED",
     "FileExistsError", "OSError"}

ReaderPCs ==
    {"start", "open", "opened", "read", "after", "path", "returned", "snapshot", "elsewhere",
     "INVALID_LIMIT", "OSError", "NONREGULAR_INPUT", "LIMIT_EXCEEDED", "INPUT_CHANGED",
     "UNSUPPORTED_VERSION", "INVALID_RECORD"}

WriterRecords ==
    [pc : WriterPCs, members : CalledWith, limit : Nat, inode : Inodes \cup {None}, sent : Nat]

Stats == [inode : Inodes \cup {None}, size : Nat, version : Nat]

ReaderRecords ==
    [pc : ReaderPCs, kind : {"record", "input"}, limit : Nat, before : Stats,
     inode : Inodes \cup {None}, pages : Seq(Pages), found : Writers \cup {None}, from : Nat]

TypeOK ==
    /\ entry \in Inodes \cup {None, Link}
    /\ files \in [Inodes -> FileRecords]
    /\ synced \subseteq Inodes /\ spoiled \subseteq Inodes
    /\ writer \in [Writers -> WriterRecords]
    /\ reader \in ReaderRecords
    /\ meddles \in Nat /\ faults \in Nat /\ outages \in Nat

-----------------------------------------------------------------------------
\* The inductive invariant

\* How far a writer has come, and the file it has made.
WriterIsOrderly(w) ==
    /\ writer[w].pc \in {"start", "open"} => writer[w].inode = None /\ writer[w].sent = 0
    /\ writer[w].pc \in {"open", "write", "saved"} =>
           writer[w].members \in Records /\ Size <= writer[w].limit
    /\ writer[w].pc \in {"write", "saved"} => writer[w].inode # None
    /\ writer[w].pc = "saved" =>
           writer[w].sent = Size /\ writer[w].inode \in synced \cup spoiled
    /\ writer[w].sent <= Size
    /\ writer[w].inode # None =>
           writer[w].members \in Records /\ files[writer[w].inode].version > 0

\* No inode has two writers.
InodesAreOwn ==
    \A v, w \in Writers : writer[v].inode # None /\ writer[v].inode = writer[w].inode => v = w

\* Pages a writer may have left behind: its own, or garbage after a power loss.
LeftBy(w, pages) ==
    /\ Len(pages) <= writer[w].sent
    /\ \A k \in 1 .. Len(pages) : pages[k] \in {Garbage, Image(writer[w].members)[k]}

\* The pages a writer has sent.
SentBy(w, pages) ==
    /\ Len(pages) = writer[w].sent
    /\ \A k \in 1 .. Len(pages) : pages[k] = Image(writer[w].members)[k]

ContentIsSent ==
    \A w \in Writers : writer[w].inode # None /\ writer[w].inode \notin spoiled =>
        /\ LeftBy(w, files[writer[w].inode].pages)
        /\ writer[w].pc \in {"write", "saved"} => SentBy(w, files[writer[w].inode].pages)

\* What the path names while nobody meddles.
PathIsOurs ==
    /\ entry \in Inodes => files[entry].version > 0
    /\ meddles = 0 =>
           /\ spoiled = {}
           /\ \A i \in Inodes : files[i].version > 0 => \E w \in Writers : writer[w].inode = i
    /\ meddles = 0 /\ outages = 0 =>
           \A w \in Writers : writer[w].inode # None => entry = writer[w].inode

StoreInv ==
    /\ TypeOK
    /\ \A w \in Writers : WriterIsOrderly(w)
    /\ InodesAreOwn
    /\ ContentIsSent
    /\ PathIsOurs

\* The content a read may return of the file it looks at.
InMoment(pages) ==
    /\ reader.kind = "record" => (Decodes(pages) => Decoded(pages) \in moment)
    /\ reader.kind = "input" => pages \in moment

Prefix(short, long) ==
    /\ Len(short) <= Len(long)
    /\ \A k \in 1 .. Len(short) : short[k] = long[k]

\* The file still has the identity the reader took first.
Same(i) == files[i].version = reader.before.version

\* Since the reader took the identity of a file.
LookedAt ==
    LET i == reader.before.inode
    IN  /\ i \in Inodes
        /\ reader.before.version <= files[i].version
        /\ Same(i) => Len(files[i].pages) = reader.before.size /\ InMoment(files[i].pages)

\* A reader between two of its calls.
ReaderIsOrderly ==
    /\ reader.pc \in {"start", "open"} \/ (reader.pc = "opened" /\ reader.kind = "input") => reader.pages = <<>>
    /\ reader.kind = "record" /\ reader.pc \in {"open", "opened"} => LookedAt /\ reader.pages = <<>>
    /\ reader.kind = "input" /\ reader.pc \in {"open", "path", "returned"} => FALSE
    /\ reader.kind = "record" /\ reader.pc = "snapshot" => FALSE
    /\ reader.pc \in {"opened", "read", "after", "path", "returned"} => reader.inode \in Inodes
    /\ reader.pc \in {"read", "after", "path"} =>
           /\ LookedAt
           /\ reader.inode = reader.before.inode
           /\ Same(reader.inode) => Prefix(reader.pages, files[reader.inode].pages)
    /\ reader.pc \in {"after", "path"} /\ Same(reader.inode) => Len(reader.pages) = Len(files[reader.inode].pages)
    /\ reader.pc = "returned" => Decodes(reader.pages) /\ Decoded(reader.pages) \in moment
    /\ reader.pc = "snapshot" => reader.pages \in moment

\* What the reader has read while nobody meddles comes from the writer of its file.
ReadFromWriter ==
    /\ reader.inode # None => files[reader.inode].version > 0
    /\ meddles = 0 /\ reader.inode # None =>
           \A w \in Writers : writer[w].inode = reader.inode => LeftBy(w, reader.pages)
    /\ reader.inode = None => reader.pages = <<>>

\* A read that found a saved record, and nothing has happened since.
Undisturbed ==
    reader.found # None /\ Incidents = reader.from /\ writer[reader.found].limit <= reader.limit

OnCourse ==
    /\ reader.kind = "record"
    /\ reader.pc \in {"open", "opened", "read", "after", "path", "returned"}
    /\ entry = writer[reader.found].inode /\ entry \in Inodes /\ entry \notin spoiled
    /\ Stat(entry) = reader.before
    /\ reader.pc \in {"opened", "read", "after", "path"} => reader.inode = entry
    /\ reader.pc = "returned" => Decoded(reader.pages) = writer[reader.found].members

ReadSucceeds ==
    /\ reader.found # None => writer[reader.found].pc = "saved" /\ reader.pc # "start"
    /\ reader.from <= Incidents
    /\ Undisturbed => OnCourse

ReaderInv == ReaderIsOrderly /\ ReadFromWriter /\ ReadSucceeds

-----------------------------------------------------------------------------
\* The image of a record

LEMMA ImageIsPages ==
    ASSUME NEW record \in Records
    PROVE  /\ Image(record) \in Seq(Pages)
           /\ Len(Image(record)) = Size
           /\ Image(record)[1] = "v1"
           /\ \A i \in 1 .. Len(Names) : Image(record)[i + 1] = record[Names[i]]
<1> DEFINE rows == [i \in 1 .. Len(Names) |-> record[Names[i]]]
<1>1. Len(Names) \in Nat /\ Names \in Seq(STRING)
    BY RecordStoreAssumption
<1>2. \A i \in 1 .. Len(Names) : record[Names[i]] \in Payloads
    BY <1>1 DEF Records, Range
<1>3. rows \in Seq(Pages) /\ Len(rows) = Len(Names)
    BY <1>1, <1>2 DEF Pages
<1>4. <<"v1">> \in Seq(Pages) /\ Len(<<"v1">>) = 1 /\ <<"v1">>[1] = "v1"
    BY DEF Pages
<1>5. \A i \in 1 .. Len(Names) : rows[i] = record[Names[i]]
    OBVIOUS
<1>6. Image(record) = <<"v1">> \o rows
    BY DEF Image
<1> HIDE DEF rows
<1>7. \A i \in 1 .. Len(Names) : (<<"v1">> \o rows)[i + 1] = rows[i]
    BY <1>1, <1>3, <1>4
<1> QED
    BY <1>1, <1>3, <1>4, <1>5, <1>6, <1>7 DEF Size

\* A file with the pages of an image is read as the record of the image.
LEMMA ImageIsDecoded ==
    ASSUME NEW record \in Records, NEW pages \in Seq(Pages), Len(pages) = Size,
           \A k \in 1 .. Len(pages) : pages[k] = Image(record)[k]
    PROVE  Decodes(pages) /\ Decoded(pages) = record
<1>1. Len(Names) \in Nat /\ Names \in Seq(STRING) /\ Size = 1 + Len(Names)
    BY RecordStoreAssumption DEF Size
<1>2. \A i \in 1 .. Len(Names) : pages[i + 1] = record[Names[i]] /\ record[Names[i]] \in Payloads
    <2>1. \A i \in 1 .. Len(Names) : i + 1 \in 1 .. Len(pages)
        BY <1>1
    <2>2. \A i \in 1 .. Len(Names) : record[Names[i]] \in Payloads
        BY <1>1 DEF Records, Range
    <2> QED
        BY <2>1, <2>2, ImageIsPages
<1>3. Decodes(pages)
    <2>1. Head(pages) = "v1"
        BY <1>1, ImageIsPages
    <2>2. ASSUME NEW i \in 2 .. Size PROVE pages[i] \in Payloads
        <3>1. i - 1 \in 1 .. Len(Names) /\ (i - 1) + 1 = i
            BY <1>1
        <3> QED
            BY <1>2, <3>1
    <2> QED
        BY <2>1, <2>2 DEF Decodes
<1>4. ASSUME NEW name \in Range(Names) PROVE Decoded(pages)[name] = record[name]
    <2> DEFINE i == CHOOSE k \in 1 .. Len(Names) : Names[k] = name
    <2>1. i \in 1 .. Len(Names) /\ Names[i] = name
        <3>1. \E k \in 1 .. Len(Names) : Names[k] = name
            BY <1>1 DEF Range
        <3> QED
            BY <3>1
    <2>2. Decoded(pages)[name] = IF i < Len(pages) THEN pages[i + 1] ELSE Garbage
        BY DEF Decoded
    <2> HIDE DEF i
    <2>3. i < Len(pages)
        BY <1>1, <2>1
    <2> QED
        BY <1>2, <2>1, <2>2, <2>3
<1>5. record \in [Range(Names) -> Payloads] /\ Decoded(pages) = [name \in Range(Names) |-> Decoded(pages)[name]]
    BY DEF Records, Decoded
<1> QED
    BY <1>3, <1>4, <1>5

\* A write at an offset sets the page there and keeps the others.
LEMMA PutSetsOnePage ==
    ASSUME NEW pages \in Seq(Pages), NEW k \in Nat \ {0}, NEW page \in Pages
    PROVE  /\ Put(pages, k, page) \in Seq(Pages)
           /\ Len(Put(pages, k, page)) = IF k > Len(pages) THEN k ELSE Len(pages)
           /\ Put(pages, k, page)[k] = page
           /\ \A j \in 1 .. Len(pages) : j # k => Put(pages, k, page)[j] = pages[j]
<1> DEFINE n == IF k > Len(pages) THEN k ELSE Len(pages)
           at(j) == CASE j = k -> page [] j # k /\ j <= Len(pages) -> pages[j] [] OTHER -> Garbage
<1>1. n \in Nat /\ k \in 1 .. n /\ Len(pages) <= n /\ Len(pages) \in Nat
    OBVIOUS
<1>2. \A j \in 1 .. n : at(j) \in Pages
    BY <1>1 DEF Pages
<1>3. Put(pages, k, page) = [j \in 1 .. n |-> at(j)]
    BY DEF Put
<1>4. at(k) = page /\ \A j \in 1 .. Len(pages) : j # k => at(j) = pages[j]
    OBVIOUS
<1> HIDE DEF n, at
<1>5. [j \in 1 .. n |-> at(j)] \in Seq(Pages) /\ Len([j \in 1 .. n |-> at(j)]) = n
    BY <1>1, <1>2
<1>6. n = IF k > Len(pages) THEN k ELSE Len(pages)
    BY DEF n
<1> QED
    BY <1>1, <1>3, <1>4, <1>5, <1>6

-----------------------------------------------------------------------------
\* What a step can do to the files

\* A step leaves a file as it is or gives it a new version.
Aged(i) == files'[i] = files[i] \/ files'[i].version = files[i].version + 1

LEMMA ModifiedIsFile ==
    ASSUME TypeOK, NEW i \in Inodes, NEW pages \in Seq(Pages)
    PROVE  /\ Modified(i, pages) \in FileRecords
           /\ Modified(i, pages).pages = pages
           /\ Modified(i, pages).version = files[i].version + 1
BY DEF TypeOK, FileRecords, Modified

LEMMA NewInodeIsFree ==
    ASSUME FreeInodes # {}
    PROVE  NewInode \in Inodes /\ files[NewInode].version = 0
<1>1. NewInode \in FreeInodes
    BY DEF NewInode
<1> QED
    BY <1>1 DEF FreeInodes

\* A page of the image of a writer that writes.
LEMMA NextPage ==
    ASSUME TypeOK, NEW w \in Writers, WriterIsOrderly(w), Write(w)
    PROVE  LET i == writer[w].inode
               k == writer[w].sent + 1
               page == Image(writer[w].members)[k]
           IN  /\ i \in Inodes /\ k \in 1 .. Size /\ page \in Pages
               /\ writer[w].members \in Records
               /\ files[i].pages \in Seq(Pages)
               /\ Put(files[i].pages, k, page) \in Seq(Pages)
               /\ files' = [files EXCEPT ![i] = Modified(i, Put(files[i].pages, k, page))]
<1> DEFINE i == writer[w].inode
           k == writer[w].sent + 1
           page == Image(writer[w].members)[k]
<1>1. writer[w].sent \in Nat /\ i \in Inodes \cup {None} /\ i # None /\ writer[w].members \in Records
    BY DEF TypeOK, WriterRecords, WriterIsOrderly, Write
<1>2. i \in Inodes /\ Size \in Nat /\ k \in 1 .. Size
    BY <1>1, RecordStoreAssumption DEF Write, Size
<1>3. page \in Pages
    <2>1. Image(writer[w].members) \in Seq(Pages) /\ Len(Image(writer[w].members)) = Size
        BY <1>1, ImageIsPages
    <2> QED
        BY <1>2, <2>1
<1>4. files[i].pages \in Seq(Pages)
    BY <1>2 DEF TypeOK, FileRecords
<1>5. Put(files[i].pages, k, page) \in Seq(Pages)
    <2>1. k \in Nat \ {0}
        BY <1>1
    <2> HIDE DEF k, page
    <2> QED
        BY <1>3, <1>4, <2>1, PutSetsOnePage
<1>6. files' = [files EXCEPT ![i] = Modified(i, Put(files[i].pages, k, page))]
    BY DEF Write
<1> QED
    BY <1>1, <1>2, <1>3, <1>4, <1>5, <1>6

LEMMA OverwrittenIsPages ==
    ASSUME NEW old \in Seq(Pages), NEW pages \in Overwritten(old)
    PROVE  pages \in Seq(Pages)
<1>1. CASE pages = Append(old, Garbage)
    BY <1>1 DEF Pages
<1>2. ASSUME NEW k \in 0 .. Len(old) - 1, pages = SubSeq(old, 1, k)
      PROVE  pages \in Seq(Pages)
    <2>1. \A j \in 1 .. k : old[j] \in Pages
        BY <1>2
    <2>2. pages = [j \in 1 .. k |-> old[j]] /\ k \in Nat
        BY <1>2
    <2> QED
        BY <2>1, <2>2
<1>3. ASSUME NEW k \in 2 .. Len(old), NEW page \in Payloads \cup {Garbage}, pages = Put(old, k, page)
      PROVE  pages \in Seq(Pages)
    <2>1. k \in Nat \ {0} /\ page \in Pages
        BY DEF Pages
    <2> QED
        BY <1>3, <2>1, PutSetsOnePage
<1>4. ASSUME NEW page \in (IF old = <<>> THEN {} ELSE {"v1", "v2", Garbage}), pages = Put(old, 1, page)
      PROVE  pages \in Seq(Pages)
    <2>1. page \in Pages
        BY DEF Pages
    <2> QED
        BY <1>4, <2>1, PutSetsOnePage
<1> QED
    BY <1>1, <1>2, <1>3, <1>4 DEF Overwritten

\* What survives a power loss: the pages of a synced file, or some of the others in place.
LEMMA SurvivorsArePages ==
    ASSUME TypeOK, NEW i \in Inodes, NEW kept \in Survivors(i)
    PROVE  /\ kept \in Seq(Pages)
           /\ i \in synced => kept = files[i].pages
           /\ Len(kept) <= Len(files[i].pages)
           /\ \A k \in 1 .. Len(kept) : kept[k] \in {Garbage, files[i].pages[k]}
<1> DEFINE pages == files[i].pages
<1>1. pages \in Seq(Pages) /\ Len(pages) \in Nat
    BY DEF TypeOK, FileRecords
<1>2. CASE i \in synced
    BY <1>1, <1>2 DEF Survivors
<1>3. CASE i \notin synced
    <2>1. PICK m \in 0 .. Len(pages) : \E lost \in SUBSET (1 .. m) :
            kept = [k \in 1 .. m |-> IF k \in lost THEN Garbage ELSE pages[k]]
        BY <1>3 DEF Survivors
    <2> PICK lost \in SUBSET (1 .. m) :
            kept = [k \in 1 .. m |-> IF k \in lost THEN Garbage ELSE pages[k]]
        BY <2>1
    <2>2. \A k \in 1 .. m : pages[k] \in Pages
        BY <1>1, <2>1
    <2>3. m \in Nat /\ m <= Len(pages)
        BY <1>1, <2>1
    <2>4. \A k \in 1 .. m : (IF k \in lost THEN Garbage ELSE pages[k]) \in Pages
        BY <2>2 DEF Pages
    <2>5. kept \in Seq(Pages) /\ Len(kept) = m
        BY <2>1, <2>3, <2>4
    <2>6. \A k \in 1 .. m : kept[k] \in {Garbage, pages[k]}
        BY <2>1
    <2> QED
        BY <1>3, <2>3, <2>5, <2>6
<1> QED
    BY <1>2, <1>3

LEMMA TypeInitially == Init => TypeOK
<1> SUFFICES ASSUME Init PROVE TypeOK
    OBVIOUS
<1>1. PICK call \in Calls :
        /\ writer = [w \in Writers |->
                [pc |-> "start", members |-> call.writer[w].members,
                 limit |-> call.writer[w].limit, inode |-> None, sent |-> 0]]
        /\ reader = [pc |-> "start", kind |-> call.kind, limit |-> call.reader, before |-> NoStat, inode |-> None,
                     pages |-> <<>>, found |-> None, from |-> 0]
    BY DEF Init
<1>2. writer \in [Writers -> WriterRecords]
    <2>1. \A w \in Writers : call.writer[w].limit \in Nat /\ call.writer[w].members \in CalledWith
        BY RecordStoreAssumption DEF CalledWith
    <2>2. \A w \in Writers :
            [pc |-> "start", members |-> call.writer[w].members,
             limit |-> call.writer[w].limit, inode |-> None, sent |-> 0] \in WriterRecords
        BY <2>1 DEF WriterRecords, WriterPCs
    <2> QED
        BY <1>1, <2>2
<1>3. reader \in ReaderRecords
    <2>1. call.kind \in {"record", "input"} /\ call.reader \in Nat
        BY RecordStoreAssumption
    <2>2. NoStat \in Stats /\ <<>> \in Seq(Pages)
        BY DEF NoStat, Stats
    <2> QED
        BY <1>1, <2>1, <2>2 DEF ReaderRecords, ReaderPCs
<1>4. files \in [Inodes -> FileRecords]
    <2>1. NoFile \in FileRecords
        BY DEF NoFile, FileRecords
    <2> QED
        BY <2>1 DEF Init
<1> QED
    BY <1>2, <1>3, <1>4 DEF Init, TypeOK

LEMMA StatIsTyped ==
    ASSUME TypeOK, NEW i \in Inodes
    PROVE  /\ Stat(i) \in Stats
           /\ Stat(i).inode = i /\ Stat(i).size = Len(files[i].pages) /\ Stat(i).version = files[i].version
BY DEF TypeOK, FileRecords, Stats, Stat

\* The steps of one kind: what they leave alone.
WriterStep == \E w \in Writers : BuildImage(w) \/ Create(w) \/ Write(w) \/ Sync(w) \/ FailWrite(w)

ReaderStep ==
    \/ Before \/ Open \/ Opened \/ Read \/ Probe \/ After \/ Decode \/ FailRead
    \/ OpenInput \/ StatInput \/ ReadInput \/ AfterInput

LEMMA TypeUnderWriters ==
    ASSUME TypeOK, \A w \in Writers : WriterIsOrderly(w), WriterStep
    PROVE  TypeOK'
<1> PICK w \in Writers : BuildImage(w) \/ Create(w) \/ Write(w) \/ Sync(w) \/ FailWrite(w)
    BY DEF WriterStep
<1>1. UNCHANGED <<reader, meddles, outages, spoiled>>
    BY DEF BuildImage, Create, Write, Sync, FailWrite, OfWriter
<1>2. ASSUME NEW pc \in WriterPCs, WriterTo(w, pc)
      PROVE  writer' \in [Writers -> WriterRecords]
    <2>1. writer \in [Writers -> WriterRecords]
        BY DEF TypeOK
    <2> QED
        BY <1>2, <2>1 DEF WriterTo, WriterRecords
<1>3. CASE BuildImage(w)
    <2>1. Refusal(writer[w].members, writer[w].limit) \in WriterPCs
        BY DEF Refusal, WriterPCs
    <2> QED
        BY <1>1, <1>2, <1>3, <2>1 DEF BuildImage, TypeOK
<1>4. CASE Create(w)
    <2>1. CASE entry # None
        BY <1>1, <1>2, <1>4, <2>1 DEF Create, TypeOK, WriterPCs
    <2>2. CASE entry = None
        <3>1. NewInode \in Inodes
            BY <1>4, <2>2, NewInodeIsFree DEF Create
        <3>2. Modified(NewInode, <<>>) \in FileRecords
            <4>1. <<>> \in Seq(Pages)
                OBVIOUS
            <4> QED
                BY <3>1, <4>1, ModifiedIsFile
        <3>3. writer' \in [Writers -> WriterRecords]
            BY <1>4, <2>2, <3>1 DEF Create, TypeOK, WriterRecords, WriterPCs
        <3>4. files' \in [Inodes -> FileRecords]
            BY <1>4, <2>2, <3>1, <3>2 DEF Create, TypeOK
        <3> QED
            BY <1>1, <1>4, <2>2, <3>1, <3>3, <3>4 DEF Create, TypeOK
    <2> QED
        BY <2>1, <2>2
<1>5. CASE Write(w)
    <2> DEFINE i == writer[w].inode
               pages == Put(files[i].pages, writer[w].sent + 1, Image(writer[w].members)[writer[w].sent + 1])
    <2>1. i \in Inodes /\ pages \in Seq(Pages) /\ files' = [files EXCEPT ![i] = Modified(i, pages)]
        BY <1>5, NextPage
    <2> HIDE DEF i, pages
    <2>2. files' \in [Inodes -> FileRecords]
        <3>1. Modified(i, pages) \in FileRecords
            BY <2>1, ModifiedIsFile
        <3> QED
            BY <2>1, <3>1 DEF TypeOK
    <2>3. writer' \in [Writers -> WriterRecords]
        BY <1>5 DEF Write, TypeOK, WriterRecords
    <2> QED
        BY <1>1, <1>5, <2>2, <2>3 DEF Write, TypeOK
<1>6. CASE Sync(w)
    <2>1. writer[w].inode \in Inodes
        BY <1>6 DEF Sync, WriterIsOrderly, TypeOK, WriterRecords
    <2> QED
        BY <1>1, <1>2, <1>6, <2>1 DEF Sync, TypeOK, WriterPCs
<1>7. CASE FailWrite(w)
    BY <1>1, <1>2, <1>7 DEF FailWrite, TypeOK, WriterPCs
<1> QED
    BY <1>3, <1>4, <1>5, <1>6, <1>7

\* The first step of a read of a record.
Found == IF entry \in spoiled \/ SavedHere = {} THEN None ELSE CHOOSE w \in SavedHere : TRUE

Began(pc, stat) ==
    reader' = [reader EXCEPT !.pc = pc, !.before = stat, !.found = Found, !.from = Incidents]

\* A refusal or an error.
Gone == {"elsewhere", "INVALID_LIMIT", "OSError", "NONREGULAR_INPUT", "LIMIT_EXCEEDED",
         "INPUT_CHANGED", "UNSUPPORTED_VERSION", "INVALID_RECORD"}

LEMMA BeforeBegins ==
    ASSUME TypeOK, Before
    PROVE  \/ entry \in Inodes /\ Began("open", Stat(entry))
           \/ /\ ~(entry \in Inodes /\ reader.limit > 0 /\ Len(files[entry].pages) <= reader.limit)
              /\ \E pc \in Gone : Began(pc, NoStat)
<1>1. reader.limit \in Nat /\ entry \in Inodes \cup {None, Link}
    BY DEF ReaderRecords, TypeOK
<1>2. (entry \in Inodes => entry # None /\ entry # Link) /\ None # Link
    BY RecordStoreAssumption
<1>3. reader.limit > 0 => reader.limit # 0
    BY <1>1
<1>4. CASE reader.limit = 0
    <2>1. reader' = [reader EXCEPT !.pc = "INVALID_LIMIT", !.before = NoStat, !.found = Found, !.from = Incidents]
        BY <1>2, <1>3, <1>4 DEF Before, Found
    <2>2. Began("INVALID_LIMIT", NoStat)
        BY <2>1 DEF Began
    <2> QED
        BY <1>2, <1>4, <2>2 DEF Gone
<1>5. CASE reader.limit > 0 /\ entry = None
    <2>1. reader' = [reader EXCEPT !.pc = "OSError", !.before = NoStat, !.found = Found, !.from = Incidents]
        BY <1>2, <1>3, <1>5 DEF Before, Found
    <2>2. Began("OSError", NoStat)
        BY <2>1 DEF Began
    <2> QED
        BY <1>2, <1>5, <2>2 DEF Gone
<1>6. CASE reader.limit > 0 /\ entry = Link
    <2>1. reader' = [reader EXCEPT !.pc = "NONREGULAR_INPUT", !.before = NoStat, !.found = Found, !.from = Incidents]
        BY <1>2, <1>3, <1>6 DEF Before, Found
    <2>2. Began("NONREGULAR_INPUT", NoStat)
        BY <2>1 DEF Began
    <2> QED
        BY <1>2, <1>6, <2>2 DEF Gone
<1>7. CASE reader.limit > 0 /\ entry \in Inodes
    <2>1. reader' = IF Stat(entry).size > reader.limit
                    THEN [reader EXCEPT !.pc = "LIMIT_EXCEEDED", !.before = NoStat, !.found = Found,
                                        !.from = Incidents]
                    ELSE [reader EXCEPT !.pc = "open", !.before = Stat(entry), !.found = Found,
                                        !.from = Incidents]
        BY <1>2, <1>3, <1>7 DEF Before, Found
    <2>2. Stat(entry).size = Len(files[entry].pages) /\ Len(files[entry].pages) \in Nat
        BY <1>7, StatIsTyped DEF TypeOK, FileRecords
    <2>3. CASE Stat(entry).size > reader.limit
        <3>1. Began("LIMIT_EXCEEDED", NoStat)
            BY <2>1, <2>3 DEF Began
        <3> QED
            BY <1>1, <2>2, <2>3, <3>1 DEF Gone
    <2>4. CASE ~(Stat(entry).size > reader.limit)
        <3>1. Began("open", Stat(entry))
            BY <2>1, <2>4 DEF Began
        <3> QED
            BY <1>7, <3>1
    <2> QED
        BY <2>3, <2>4
<1> QED
    BY <1>1, <1>4, <1>5, <1>6, <1>7

LEMMA BeganTurns ==
    ASSUME TypeOK, NEW pc, NEW stat, Began(pc, stat)
    PROVE  /\ reader'.pc = pc /\ reader'.before = stat /\ reader'.kind = reader.kind
           /\ reader'.limit = reader.limit /\ reader'.found = Found /\ reader'.from = Incidents
           /\ reader'.inode = reader.inode /\ reader'.pages = reader.pages
BY DEF TypeOK, ReaderRecords, Began

LEMMA TypeUnderReader ==
    ASSUME TypeOK, ReaderIsOrderly, ReaderStep
    PROVE  TypeOK'
<1>1. UNCHANGED <<entry, files, synced, writer, meddles, outages, spoiled>> /\ faults' \in Nat
    <2>1. OfReader
        BY DEF ReaderStep, Before, Open, Opened, Read, Probe, After, Decode, FailRead, OpenInput,
               StatInput, ReadInput, AfterInput
    <2>2. faults' = faults \/ faults' = faults + 1
        BY DEF ReaderStep, Before, Open, Opened, Read, Probe, After, Decode, FailRead, OpenInput,
               StatInput, ReadInput, AfterInput
    <2> QED
        BY <2>1, <2>2 DEF OfReader, TypeOK
<1> SUFFICES reader' \in ReaderRecords
    BY <1>1 DEF TypeOK
<1>2. reader \in ReaderRecords
    BY DEF TypeOK
<1>3. ASSUME NEW pc \in ReaderPCs, ReaderTo(pc)
      PROVE  reader' \in ReaderRecords
    BY <1>2, <1>3 DEF ReaderTo, ReaderRecords
<1>4. CASE Before
    <2>1. Found \in Writers \cup {None} /\ Incidents \in Nat /\ NoStat \in Stats
        BY DEF Found, SavedHere, Incidents, TypeOK, NoStat, Stats
    <2>2. \A pc \in ReaderPCs, stat \in Stats : Began(pc, stat) => reader' \in ReaderRecords
        BY <1>2, <2>1 DEF Began, ReaderRecords
    <2> QED
        BY <1>4, <2>1, <2>2, BeforeBegins, StatIsTyped DEF ReaderPCs, Gone
<1>5. CASE Open
    BY <1>2, <1>5 DEF Open, ReaderRecords, ReaderPCs
<1>6. CASE Opened
    BY <1>3, <1>6 DEF Opened, ReaderPCs
<1>7. CASE Read
    <2> DEFINE pages == files[reader.inode].pages
               k == Len(reader.pages) + 1
    <2>1. pages \in Seq(Pages) /\ reader.pages \in Seq(Pages)
        BY <1>2, <1>7 DEF Read, ReaderIsOrderly, TypeOK, FileRecords, ReaderRecords
    <2>2. CASE k <= Len(pages)
        <3>1. pages[k] \in Pages
            BY <2>1, <2>2
        <3>2. Append(reader.pages, pages[k]) \in Seq(Pages)
            BY <2>1, <3>1
        <3>3. reader' = [reader EXCEPT !.pages = Append(reader.pages, pages[k])]
            BY <1>7, <2>2 DEF Read, ReaderPCs
        <3> HIDE DEF pages, k
        <3> QED
            BY <1>2, <3>2, <3>3 DEF ReaderRecords
    <2>3. CASE ~(k <= Len(pages))
        BY <1>3, <1>7, <2>3 DEF Read, ReaderPCs
    <2> QED
        BY <2>2, <2>3
<1>8. CASE Probe
    BY <1>3, <1>8 DEF Probe, ReaderPCs
<1>9. CASE After
    BY <1>3, <1>9 DEF After, ReaderPCs
<1>10. CASE Decode
    <2>1. \E pc \in ReaderPCs : ReaderTo(pc)
        BY <1>10 DEF Decode, TypeOK, ReaderPCs
    <2> QED
        BY <1>3, <2>1
<1>11. CASE FailRead
    BY <1>3, <1>11 DEF FailRead, ReaderPCs
<1>12. CASE OpenInput
    <2>1. CASE entry \in Inodes /\ reader' = [reader EXCEPT !.pc = "opened", !.inode = entry]
        BY <1>2, <2>1 DEF ReaderRecords, ReaderPCs
    <2> QED
        BY <1>3, <1>12, <2>1 DEF OpenInput, ReaderPCs
<1>13. CASE StatInput
    <2>1. Stat(reader.inode) \in Stats
        BY <1>13, StatIsTyped DEF StatInput, ReaderIsOrderly
    <2> QED
        BY <1>2, <1>13, <2>1 DEF StatInput, ReaderRecords, ReaderPCs
<1>14. CASE ReadInput
    <2> DEFINE pages == files[reader.inode].pages
               k == Len(reader.pages) + 1
    <2>1. pages \in Seq(Pages) /\ reader.pages \in Seq(Pages) /\ reader.limit \in Nat
        BY <1>2, <1>14 DEF ReadInput, ReaderIsOrderly, TypeOK, FileRecords, ReaderRecords
    <2>2. CASE k <= Len(pages) /\ ~(k > reader.limit)
        <3>1. pages[k] \in Pages
            BY <2>1, <2>2
        <3>2. Append(reader.pages, pages[k]) \in Seq(Pages)
            BY <2>1, <3>1
        <3>3. reader' = [reader EXCEPT !.pages = Append(reader.pages, pages[k])]
            BY <1>14, <2>1, <2>2 DEF ReadInput, ReaderPCs
        <3> HIDE DEF pages, k
        <3> QED
            BY <1>2, <3>2, <3>3 DEF ReaderRecords
    <2>3. CASE ~(k <= Len(pages) /\ ~(k > reader.limit))
        BY <1>3, <1>14, <2>1, <2>3 DEF ReadInput, ReaderPCs
    <2> QED
        BY <2>2, <2>3
<1>15. CASE AfterInput
    BY <1>3, <1>15 DEF AfterInput, ReaderPCs
<1> QED
    BY <1>4, <1>5, <1>6, <1>7, <1>8, <1>9, <1>10, <1>11, <1>12, <1>13, <1>14, <1>15 DEF ReaderStep

\* What other programs and the power do.
OtherStep == Overwrite \/ Replace \/ Unlink \/ LosePower

\* The new content of a file another program writes to, or that survives a power loss.
LEMMA OverwriteIsModification ==
    ASSUME TypeOK, Overwrite
    PROVE  \E pages \in Seq(Pages) :
               entry \in Inodes /\ files' = [files EXCEPT ![entry] = Modified(entry, pages)]
<1>1. PICK pages \in Overwritten(files[entry].pages) :
        files' = [files EXCEPT ![entry] = Modified(entry, pages)]
    BY DEF Overwrite
<1>2. entry \in Inodes /\ files[entry].pages \in Seq(Pages)
    BY DEF Overwrite, TypeOK, FileRecords
<1> QED
    BY <1>1, <1>2, OverwrittenIsPages

LEMMA ReplaceIsModification ==
    ASSUME TypeOK, Replace
    PROVE  /\ NewInode \in Inodes /\ files[NewInode].version = 0
           /\ \E record \in Records :
                /\ Image(record) \in Seq(Pages)
                /\ files' = [files EXCEPT ![NewInode] = Modified(NewInode, Image(record))]
BY NewInodeIsFree, ImageIsPages DEF Replace

LEMMA TypeUnderOthers ==
    ASSUME TypeOK, OtherStep
    PROVE  TypeOK'
<1>1. CASE Overwrite
    <2>1. PICK pages \in Seq(Pages) :
            entry \in Inodes /\ files' = [files EXCEPT ![entry] = Modified(entry, pages)]
        BY <1>1, OverwriteIsModification
    <2>2. Modified(entry, pages) \in FileRecords
        BY <2>1, ModifiedIsFile
    <2>3. files' \in [Inodes -> FileRecords]
        BY <2>1, <2>2 DEF TypeOK
    <2> QED
        BY <1>1, <2>1, <2>3 DEF Overwrite, Meddled, TypeOK
<1>2. CASE Replace
    <2>1. PICK record \in Records :
            /\ Image(record) \in Seq(Pages)
            /\ files' = [files EXCEPT ![NewInode] = Modified(NewInode, Image(record))]
        BY <1>2, ReplaceIsModification
    <2>2. NewInode \in Inodes
        BY <1>2, ReplaceIsModification
    <2>3. Modified(NewInode, Image(record)) \in FileRecords
        BY <2>1, <2>2, ModifiedIsFile
    <2>4. files' \in [Inodes -> FileRecords]
        BY <2>1, <2>2, <2>3 DEF TypeOK
    <2> QED
        BY <1>2, <2>2, <2>4 DEF Replace, Meddled, TypeOK
<1>3. CASE Unlink
    BY <1>3 DEF Unlink, Meddled, TypeOK
<1>4. CASE LosePower
    <2>1. writer' \in [Writers -> WriterRecords]
        <3>1. \A w \in Writers : writer[w] \in WriterRecords /\ [writer[w] EXCEPT !.pc = "OSError"] \in WriterRecords
            BY DEF TypeOK, WriterRecords, WriterPCs
        <3> QED
            BY <1>4, <3>1 DEF LosePower
    <2>2. reader' \in ReaderRecords
        <3>1. reader \in ReaderRecords /\ [reader EXCEPT !.pc = "OSError"] \in ReaderRecords
            BY DEF TypeOK, ReaderRecords, ReaderPCs
        <3> QED
            BY <1>4, <3>1 DEF LosePower
    <2>3. files' \in [Inodes -> FileRecords] /\ entry' \in Inodes \cup {None, Link}
        <3>1. CASE entry' = None /\ UNCHANGED files
            BY <3>1 DEF TypeOK
        <3>2. CASE entry \in Inodes /\ UNCHANGED entry
            <4>1. PICK kept \in Survivors(entry) :
                    files' = [files EXCEPT ![entry] = IF kept = @.pages THEN @ ELSE Modified(entry, kept)]
                BY <1>4, <3>2, RecordStoreAssumption DEF LosePower
            <4>2. Modified(entry, kept) \in FileRecords
                BY <3>2, SurvivorsArePages, ModifiedIsFile
            <4> QED
                BY <3>2, <4>1, <4>2 DEF TypeOK
        <3> QED
            BY <1>4, <3>1, <3>2 DEF LosePower
    <2> QED
        BY <1>4, <2>1, <2>2, <2>3 DEF LosePower, TypeOK
<1> QED
    BY <1>1, <1>2, <1>3, <1>4 DEF OtherStep

\* Every step is one of a writer, of the reader or of the rest of the machine.
LEMMA StepsByActor ==
    ASSUME [Next]_vars
    PROVE  WriterStep \/ ReaderStep \/ OtherStep \/ UNCHANGED vars
BY DEF Next, WriterStep, ReaderStep, OtherStep, Ended

LEMMA TypeStays ==
    ASSUME TypeOK, \A w \in Writers : WriterIsOrderly(w), ReaderIsOrderly, [Next]_vars
    PROVE  TypeOK'
<1>1. CASE UNCHANGED vars
    BY <1>1 DEF vars, TypeOK
<1> QED
    BY <1>1, StepsByActor, TypeUnderWriters, TypeUnderReader, TypeUnderOthers

\* No step puts a file back: it stays as it is or gets the next version.
LEMMA FilesAge ==
    ASSUME TypeOK, \A w \in Writers : WriterIsOrderly(w), [Next]_vars
    PROVE  \A i \in Inodes : Aged(i)
<1>1. ASSUME NEW i \in Inodes, NEW pages \in Seq(Pages),
             files' = [files EXCEPT ![i] = Modified(i, pages)]
      PROVE  \A j \in Inodes : Aged(j)
    BY <1>1, ModifiedIsFile DEF Aged, TypeOK
<1>2. UNCHANGED files => \A i \in Inodes : Aged(i)
    BY DEF Aged
<1>3. CASE WriterStep
    <2> PICK w \in Writers : BuildImage(w) \/ Create(w) \/ Write(w) \/ Sync(w) \/ FailWrite(w)
        BY <1>3 DEF WriterStep
    <2>1. CASE Create(w) /\ entry = None
        <3>1. NewInode \in Inodes
            BY <2>1, NewInodeIsFree DEF Create
        <3>2. <<>> \in Seq(Pages)
            OBVIOUS
        <3> QED
            BY <1>1, <2>1, <3>1, <3>2 DEF Create
    <2>2. CASE Write(w)
        BY <1>1, <2>2, NextPage
    <2> QED
        BY <1>2, <2>1, <2>2 DEF BuildImage, Create, Sync, FailWrite
<1>4. CASE ReaderStep
    BY <1>2, <1>4 DEF ReaderStep, Before, Open, Opened, Read, Probe, After, Decode, FailRead,
                      OpenInput, StatInput, ReadInput, AfterInput, OfReader
<1>5. CASE Overwrite
    BY <1>1, <1>5, OverwriteIsModification
<1>6. CASE Replace
    BY <1>1, <1>6, ReplaceIsModification
<1>7. CASE Unlink
    BY <1>2, <1>7 DEF Unlink
<1>8. CASE LosePower
    <2>1. CASE entry \in Inodes /\ UNCHANGED entry
        <3>1. PICK kept \in Survivors(entry) :
                files' = [files EXCEPT ![entry] = IF kept = @.pages THEN @ ELSE Modified(entry, kept)]
            BY <1>8, <2>1, RecordStoreAssumption DEF LosePower
        <3>2. CASE kept = files[entry].pages
            BY <1>2, <2>1, <3>1, <3>2 DEF TypeOK
        <3>3. CASE kept # files[entry].pages
            <4>1. files' = [files EXCEPT ![entry] = Modified(entry, kept)]
                BY <2>1, <3>1, <3>3 DEF TypeOK
            <4> QED
                BY <1>1, <2>1, <4>1, SurvivorsArePages
        <3> QED
            BY <3>2, <3>3
    <2> QED
        BY <1>2, <1>8, <2>1 DEF LosePower
<1>9. CASE UNCHANGED vars
    BY <1>2, <1>9 DEF vars
<1> QED
    BY <1>3, <1>4, <1>5, <1>6, <1>7, <1>8, <1>9, StepsByActor DEF OtherStep

-----------------------------------------------------------------------------
\* The invariant of the writers and the path

LEMMA StoreInitially == Init => StoreInv
<1> SUFFICES ASSUME Init PROVE StoreInv
    OBVIOUS
<1>1. TypeOK
    BY TypeInitially
<1>2. \A w \in Writers : writer[w].pc = "start" /\ writer[w].inode = None /\ writer[w].sent = 0
    BY DEF Init
<1>3. \A i \in Inodes : files[i].version = 0
    BY DEF Init, NoFile
<1>4. Size \in Nat
    BY RecordStoreAssumption DEF Size
<1>5. entry \notin Inodes /\ spoiled = {}
    BY RecordStoreAssumption DEF Init
<1> QED
    BY <1>1, <1>2, <1>3, <1>4, <1>5 DEF StoreInv, WriterIsOrderly, InodesAreOwn, ContentIsSent, PathIsOurs

\* Steps that touch neither the files nor what the writers have done.
LEMMA StoreWhenFilesStay ==
    ASSUME InodesAreOwn, ContentIsSent, PathIsOurs,
           UNCHANGED <<entry, files, spoiled, meddles, outages>>,
           \A v \in Writers :
                /\ writer'[v].inode = writer[v].inode /\ writer'[v].sent = writer[v].sent
                /\ writer'[v].members = writer[v].members
                /\ writer'[v].pc \in {"write", "saved"} => writer[v].pc \in {"write", "saved"}
    PROVE  InodesAreOwn' /\ ContentIsSent' /\ PathIsOurs'
<1>1. InodesAreOwn'
    BY DEF InodesAreOwn
<1>2. ContentIsSent'
    BY DEF ContentIsSent, LeftBy, SentBy
<1>3. PathIsOurs'
    BY DEF PathIsOurs
<1> QED
    BY <1>1, <1>2, <1>3

LEMMA WriterIsTyped ==
    ASSUME TypeOK, NEW w \in Writers
    PROVE  /\ writer[w].sent \in Nat /\ writer[w].limit \in Nat
           /\ writer[w].inode \in Inodes \cup {None}
           /\ writer[w].inode # None =>
                  /\ writer[w].inode \in Inodes
                  /\ files[writer[w].inode].version \in Nat
                  /\ files[writer[w].inode].pages \in Seq(Pages)
BY DEF TypeOK, WriterRecords, FileRecords

\* The step of one writer: the records of the others stay.
LEMMA PcOnly ==
    ASSUME TypeOK, NEW w \in Writers, NEW pc, WriterTo(w, pc)
    PROVE  /\ \A v \in Writers : v # w => writer'[v] = writer[v]
           /\ writer'[w].pc = pc
           /\ \A v \in Writers :
                /\ writer'[v].inode = writer[v].inode /\ writer'[v].sent = writer[v].sent
                /\ writer'[v].members = writer[v].members /\ writer'[v].limit = writer[v].limit
<1>1. writer' = [writer EXCEPT ![w] = [writer[w] EXCEPT !.pc = pc]] /\ DOMAIN writer = Writers
    BY DEF WriterTo, TypeOK
<1>2. writer[w] \in WriterRecords
    BY DEF TypeOK
<1> QED
    BY <1>1, <1>2 DEF WriterRecords

LEMMA StoreUnderBuildImage ==
    ASSUME StoreInv, NEW w \in Writers, BuildImage(w)
    PROVE  (\A v \in Writers : WriterIsOrderly(v)') /\ InodesAreOwn' /\ ContentIsSent' /\ PathIsOurs'
<1>1. TypeOK /\ WriterIsOrderly(w) /\ WriterTo(w, Refusal(writer[w].members, writer[w].limit))
    BY DEF StoreInv, BuildImage
<1>2. writer'[w].pc = Refusal(writer[w].members, writer[w].limit)
    BY <1>1, PcOnly
<1>3. /\ Refusal(writer[w].members, writer[w].limit) \notin {"start", "write", "saved"}
      /\ Refusal(writer[w].members, writer[w].limit) = "open" =>
             writer[w].members \in Records /\ Size <= writer[w].limit
    <2>1. Size \in Nat /\ writer[w].limit \in Nat
        BY <1>1, WriterIsTyped, RecordStoreAssumption DEF Size
    <2> QED
        BY <2>1 DEF Refusal
<1>4. writer[w].inode = None /\ writer[w].sent = 0
    BY <1>1 DEF BuildImage, WriterIsOrderly
<1>5. UNCHANGED <<entry, files, synced, spoiled, meddles, outages>>
    BY DEF BuildImage, OfWriter
<1>6. ASSUME NEW v \in Writers PROVE WriterIsOrderly(v)'
    <2>1. CASE v = w
        BY <1>1, <1>2, <1>3, <1>4, <1>5, <2>1, PcOnly DEF WriterIsOrderly
    <2>2. CASE v # w
        <3>1. writer'[v] = writer[v] /\ WriterIsOrderly(v)
            BY <1>1, <2>2, PcOnly DEF StoreInv
        <3> QED
            BY <1>5, <3>1 DEF WriterIsOrderly
    <2> QED
        BY <2>1, <2>2
<1>7. InodesAreOwn' /\ ContentIsSent' /\ PathIsOurs'
    <2>1. \A v \in Writers :
                /\ writer'[v].inode = writer[v].inode /\ writer'[v].sent = writer[v].sent
                /\ writer'[v].members = writer[v].members
                /\ writer'[v].pc \in {"write", "saved"} => writer[v].pc \in {"write", "saved"}
        BY <1>1, <1>2, <1>3, PcOnly
    <2> QED
        BY <1>5, <2>1, StoreWhenFilesStay DEF StoreInv
<1> QED
    BY <1>6, <1>7

\* A failed call, or a path that is taken.
LEMMA StoreUnderFailure ==
    ASSUME StoreInv, NEW w \in Writers, NEW pc \in {"OSError", "FileExistsError"}, WriterTo(w, pc),
           UNCHANGED <<entry, files, synced, spoiled, meddles, outages>>
    PROVE  (\A v \in Writers : WriterIsOrderly(v)') /\ InodesAreOwn' /\ ContentIsSent' /\ PathIsOurs'
<1>1. TypeOK
    BY DEF StoreInv
<1>2. ASSUME NEW v \in Writers PROVE WriterIsOrderly(v)'
    <2>1. WriterIsOrderly(v)
        BY DEF StoreInv
    <2>2. CASE v = w
        BY <1>1, <2>1, <2>2, PcOnly DEF WriterIsOrderly
    <2>3. CASE v # w
        <3>1. writer'[v] = writer[v]
            BY <1>1, <2>3, PcOnly
        <3> QED
            BY <2>1, <3>1 DEF WriterIsOrderly
    <2> QED
        BY <2>2, <2>3
<1>3. InodesAreOwn' /\ ContentIsSent' /\ PathIsOurs'
    <2>1. \A v \in Writers :
                /\ writer'[v].inode = writer[v].inode /\ writer'[v].sent = writer[v].sent
                /\ writer'[v].members = writer[v].members
                /\ writer'[v].pc \in {"write", "saved"} => writer[v].pc \in {"write", "saved"}
        BY <1>1, PcOnly
    <2> QED
        BY <2>1, StoreWhenFilesStay DEF StoreInv
<1> QED
    BY <1>2, <1>3

LEMMA StoreUnderSync ==
    ASSUME StoreInv, NEW w \in Writers, Sync(w)
    PROVE  (\A v \in Writers : WriterIsOrderly(v)') /\ InodesAreOwn' /\ ContentIsSent' /\ PathIsOurs'
<1>1. TypeOK /\ WriterTo(w, "saved") /\ writer[w].pc = "write"
    BY DEF StoreInv, Sync
<1>2. UNCHANGED <<entry, files, spoiled, meddles, outages>> /\ synced' = synced \cup {writer[w].inode}
    BY DEF Sync, OfWriter
<1>3. ASSUME NEW v \in Writers PROVE WriterIsOrderly(v)'
    <2>1. WriterIsOrderly(v)
        BY DEF StoreInv
    <2>2. CASE v = w
        BY <1>1, <1>2, <2>1, <2>2, PcOnly DEF WriterIsOrderly, Sync
    <2>3. CASE v # w
        <3>1. writer'[v] = writer[v]
            BY <1>1, <2>3, PcOnly
        <3> QED
            BY <1>2, <2>1, <3>1 DEF WriterIsOrderly
    <2> QED
        BY <2>2, <2>3
<1>4. InodesAreOwn' /\ ContentIsSent' /\ PathIsOurs'
    <2>1. \A v \in Writers :
                /\ writer'[v].inode = writer[v].inode /\ writer'[v].sent = writer[v].sent
                /\ writer'[v].members = writer[v].members
                /\ writer'[v].pc \in {"write", "saved"} => writer[v].pc \in {"write", "saved"}
        BY <1>1, PcOnly
    <2> QED
        BY <1>2, <2>1, StoreWhenFilesStay DEF StoreInv
<1> QED
    BY <1>3, <1>4

\* The path was free and has a new, empty file.
LEMMA StoreUnderCreate ==
    ASSUME StoreInv, NEW w \in Writers, Create(w), entry = None
    PROVE  (\A v \in Writers : WriterIsOrderly(v)') /\ InodesAreOwn' /\ ContentIsSent' /\ PathIsOurs'
<1> DEFINE n == NewInode
<1>1. TypeOK /\ writer[w].pc = "open" /\ WriterIsOrderly(w)
    BY DEF StoreInv, Create
<1>2. n \in Inodes /\ files[n].version = 0
    BY NewInodeIsFree DEF Create
<1>3. UNCHANGED <<synced, spoiled, meddles, outages>> /\ entry' = n
    BY DEF Create, OfWriter
<1>4. /\ files'[n].pages = <<>> /\ files'[n].version = 1
      /\ \A i \in Inodes : i # n => files'[i] = files[i]
    <2>1. files' = [files EXCEPT ![n] = Modified(n, <<>>)] /\ DOMAIN files = Inodes
        BY <1>1 DEF Create, TypeOK
    <2>2. Modified(n, <<>>).pages = <<>> /\ Modified(n, <<>>).version = 1
        BY <1>2 DEF Modified
    <2> HIDE DEF n
    <2> QED
        BY <1>2, <2>1, <2>2
<1>5. /\ writer'[w].pc = "write" /\ writer'[w].inode = n /\ writer'[w].sent = 0
      /\ writer'[w].members = writer[w].members /\ writer'[w].limit = writer[w].limit
      /\ \A v \in Writers : v # w => writer'[v] = writer[v]
    <2>1. writer' = [writer EXCEPT ![w].pc = "write", ![w].inode = n]
        BY <1>1 DEF Create
    <2>2. writer[w] \in WriterRecords /\ writer[w].sent = 0 /\ DOMAIN writer = Writers
        BY <1>1 DEF TypeOK, WriterIsOrderly
    <2> HIDE DEF n
    <2> QED
        BY <2>1, <2>2 DEF WriterRecords
<1>6. \A v \in Writers : writer[v].inode # n
    BY <1>2, RecordStoreAssumption DEF StoreInv, WriterIsOrderly
<1> HIDE DEF n
<1>7. ASSUME NEW v \in Writers PROVE WriterIsOrderly(v)'
    <2>1. CASE v = w
        <3>1. writer[w].members \in Records /\ Size <= writer[w].limit /\ 0 <= Size /\ n # None
            BY <1>1, <1>2, RecordStoreAssumption DEF WriterIsOrderly, Size
        <3> QED
            BY <1>4, <1>5, <2>1, <3>1 DEF WriterIsOrderly
    <2>2. CASE v # w
        <3>1. writer'[v] = writer[v] /\ WriterIsOrderly(v)
            BY <1>5, <2>2 DEF StoreInv
        <3>2. writer[v].inode # None => files'[writer[v].inode] = files[writer[v].inode]
            BY <1>1, <1>4, <1>6, WriterIsTyped
        <3> QED
            BY <1>3, <3>1, <3>2 DEF WriterIsOrderly
    <2> QED
        BY <2>1, <2>2
<1>8. InodesAreOwn'
    BY <1>5, <1>6 DEF InodesAreOwn, StoreInv
<1>9. ContentIsSent'
    <2> SUFFICES ASSUME NEW v \in Writers, writer'[v].inode # None, writer'[v].inode \notin spoiled'
                 PROVE  /\ LeftBy(v, files[writer[v].inode].pages)'
                        /\ writer'[v].pc \in {"write", "saved"} => SentBy(v, files[writer[v].inode].pages)'
        BY DEF ContentIsSent
    <2>1. CASE v = w
        BY <1>4, <1>5, <2>1 DEF LeftBy, SentBy
    <2>2. CASE v # w
        <3>1. writer'[v] = writer[v] /\ files'[writer[v].inode] = files[writer[v].inode]
            BY <1>1, <1>4, <1>5, <1>6, <2>2, WriterIsTyped
        <3> QED
            BY <1>3, <3>1 DEF StoreInv, ContentIsSent, LeftBy, SentBy
    <2> QED
        BY <2>1, <2>2
<1>10. PathIsOurs'
    <2>1. PathIsOurs /\ \A v \in Writers : writer[v].inode # None => writer[v].inode # entry
        BY DEF StoreInv
    <2>2. entry' \in Inodes /\ files'[entry'].version > 0
        BY <1>2, <1>3, <1>4
    <2>3. meddles' = 0 => spoiled' = {}
        BY <1>3, <2>1 DEF PathIsOurs
    <2>4. ASSUME meddles' = 0, NEW i \in Inodes, files'[i].version > 0
          PROVE  \E v \in Writers : writer'[v].inode = i
        <3>1. CASE i = n
            BY <1>5, <3>1
        <3>2. CASE i # n
            <4>1. PICK v \in Writers : writer[v].inode = i
                BY <1>3, <1>4, <2>1, <2>4, <3>2 DEF PathIsOurs
            <4>2. v # w
                BY <1>1, <2>4, <4>1, RecordStoreAssumption DEF WriterIsOrderly
            <4> QED
                BY <1>5, <4>1, <4>2
        <3> QED
            BY <3>1, <3>2
    <2>5. ASSUME meddles' = 0, outages' = 0, NEW v \in Writers, writer'[v].inode # None
          PROVE  entry' = writer'[v].inode
        <3>1. v = w
            BY <1>3, <1>5, <2>1, <2>5 DEF PathIsOurs
        <3> QED
            BY <1>3, <1>5, <3>1
    <2> QED
        BY <2>2, <2>3, <2>4, <2>5 DEF PathIsOurs
<1> QED
    BY <1>7, <1>8, <1>9, <1>10

LEMMA StoreUnderWrite ==
    ASSUME StoreInv, NEW w \in Writers, Write(w)
    PROVE  (\A v \in Writers : WriterIsOrderly(v)') /\ InodesAreOwn' /\ ContentIsSent' /\ PathIsOurs'
<1> DEFINE i == writer[w].inode
           k == writer[w].sent + 1
           page == Image(writer[w].members)[k]
           pages == Put(files[i].pages, k, page)
<1>1. TypeOK /\ writer[w].pc = "write" /\ WriterIsOrderly(w)
    BY DEF StoreInv, Write
<1>2. /\ i \in Inodes /\ k \in 1 .. Size /\ k \in Nat \ {0} /\ page \in Pages
      /\ files[i].pages \in Seq(Pages)
      /\ pages \in Seq(Pages)
      /\ files' = [files EXCEPT ![i] = Modified(i, pages)]
    <2>1. k \in Nat \ {0}
        BY <1>1, WriterIsTyped
    <2> QED
        BY <1>1, <2>1, NextPage
<1>3. UNCHANGED <<entry, synced, spoiled, meddles, outages>>
    BY DEF Write, OfWriter
<1>4. /\ writer'[w].sent = k /\ writer'[w].pc = writer[w].pc /\ writer'[w].inode = i
      /\ writer'[w].members = writer[w].members /\ writer'[w].limit = writer[w].limit
      /\ \A v \in Writers : v # w => writer'[v] = writer[v]
    <2>1. writer' = [writer EXCEPT ![w].sent = writer[w].sent + 1] /\ writer[w] \in WriterRecords
          /\ DOMAIN writer = Writers
        BY <1>1 DEF Write, TypeOK
    <2> QED
        BY <2>1 DEF WriterRecords
<1>5. writer[w].sent = k - 1 /\ k <= Size /\ Size \in Nat
    BY <1>1, <1>2, WriterIsTyped, RecordStoreAssumption DEF Size
<1>6. /\ files'[i].pages = pages /\ files'[i].version = files[i].version + 1
      /\ \A j \in Inodes : j # i => files'[j] = files[j]
    <2>1. Modified(i, pages).pages = pages /\ Modified(i, pages).version = files[i].version + 1
        BY <1>1, <1>2, ModifiedIsFile
    <2> HIDE DEF i, pages
    <2> QED
        BY <1>1, <1>2, <2>1 DEF TypeOK
<1>7. i \notin spoiled => SentBy(w, files[i].pages)
    BY <1>1, <1>2, RecordStoreAssumption DEF StoreInv, ContentIsSent
<1>8. \A v \in Writers : v # w /\ writer[v].inode # None => writer[v].inode # i
    BY <1>2, RecordStoreAssumption DEF StoreInv, InodesAreOwn
<1>9. files[i].version \in Nat
    BY <1>1, <1>2 DEF TypeOK, FileRecords
<1>10. i \notin spoiled => Len(pages) = k /\ \A j \in 1 .. k : pages[j] = Image(writer[w].members)[j]
    <2> SUFFICES ASSUME i \notin spoiled
                 PROVE  Len(pages) = k /\ \A j \in 1 .. k : pages[j] = Image(writer[w].members)[j]
        OBVIOUS
    <2>1. Len(files[i].pages) = k - 1 /\ \A j \in 1 .. k - 1 : files[i].pages[j] = Image(writer[w].members)[j]
        BY <1>5, <1>7 DEF SentBy
    <2> HIDE DEF i, k, page
    <2>2. Len(pages) = k /\ pages[k] = page /\ \A j \in 1 .. k - 1 : pages[j] = files[i].pages[j]
        <3>1. /\ Len(pages) = IF k > Len(files[i].pages) THEN k ELSE Len(files[i].pages)
              /\ pages[k] = page
              /\ \A j \in 1 .. Len(files[i].pages) : j # k => pages[j] = files[i].pages[j]
            <4>1. k \in Nat \ {0} /\ files[i].pages \in Seq(Pages) /\ page \in Pages
                BY <1>2
            <4>2. \A old \in Seq(Pages), n \in Nat \ {0}, new \in Pages :
                    /\ Len(Put(old, n, new)) = IF n > Len(old) THEN n ELSE Len(old)
                    /\ Put(old, n, new)[n] = new
                    /\ \A j \in 1 .. Len(old) : j # n => Put(old, n, new)[j] = old[j]
                BY PutSetsOnePage, ZenonT(30)
            <4> QED
                BY <4>1, <4>2
        <3> HIDE DEF pages
        <3>2. k > k - 1 /\ \A j \in 1 .. k - 1 : j # k
            BY <1>2
        <3> QED
            BY <2>1, <3>1, <3>2
    <2>3. \A j \in 1 .. k : j = k \/ j \in 1 .. k - 1
        BY <1>2
    <2>4. page = Image(writer[w].members)[k]
        BY DEF page
    <2> QED
        BY <2>1, <2>2, <2>3, <2>4
<1> HIDE DEF i, k, page, pages
<1>11. ASSUME NEW v \in Writers PROVE WriterIsOrderly(v)'
    <2>1. WriterIsOrderly(v)
        BY DEF StoreInv
    <2>2. CASE v = w
        BY <1>1, <1>3, <1>4, <1>5, <1>6, <1>9, <2>1, <2>2 DEF WriterIsOrderly, i
    <2>3. CASE v # w
        <3>1. writer'[v] = writer[v]
            BY <1>4, <2>3
        <3>2. writer[v].inode # None => files'[writer[v].inode] = files[writer[v].inode]
            BY <1>1, <1>6, <1>8, <2>3, WriterIsTyped
        <3> QED
            BY <1>3, <2>1, <3>1, <3>2 DEF WriterIsOrderly
    <2> QED
        BY <2>2, <2>3
<1>12. InodesAreOwn'
    BY <1>4 DEF InodesAreOwn, StoreInv, i
<1>13. ContentIsSent'
    <2> SUFFICES ASSUME NEW v \in Writers, writer'[v].inode # None, writer'[v].inode \notin spoiled'
                 PROVE  /\ LeftBy(v, files[writer[v].inode].pages)'
                        /\ writer'[v].pc \in {"write", "saved"} => SentBy(v, files[writer[v].inode].pages)'
        BY DEF ContentIsSent
    <2>1. CASE v = w
        <3>1. /\ Len(files'[i].pages) = k
              /\ \A j \in 1 .. Len(files'[i].pages) : files'[i].pages[j] = Image(writer'[w].members)[j]
            BY <1>3, <1>4, <1>6, <1>10, <2>1
        <3> QED
            BY <1>2, <1>4, <2>1, <3>1 DEF LeftBy, SentBy
    <2>2. CASE v # w
        <3>1. writer'[v] = writer[v] /\ files'[writer[v].inode] = files[writer[v].inode]
            BY <1>1, <1>4, <1>6, <1>8, <2>2, WriterIsTyped
        <3> QED
            BY <1>3, <3>1 DEF StoreInv, ContentIsSent, LeftBy, SentBy
    <2> QED
        BY <2>1, <2>2
<1>14. PathIsOurs'
    <2>1. PathIsOurs /\ files[i].version > 0
        BY <1>1, <1>2, RecordStoreAssumption DEF StoreInv, WriterIsOrderly, i
    <2>2. \A v \in Writers : writer'[v].inode = writer[v].inode
        BY <1>4 DEF i
    <2>3. \A j \in Inodes : files'[j].version > 0 <=> files[j].version > 0
        BY <1>6, <1>9, <2>1
    <2> QED
        BY <1>3, <2>1, <2>2, <2>3 DEF PathIsOurs
<1> QED
    BY <1>11, <1>12, <1>13, <1>14

\* What other programs write to is theirs from then on.
LEMMA StoreUnderMeddling ==
    ASSUME StoreInv, Meddled, NEW n \in Inodes,
           \A i \in Inodes : i # n => files'[i] = files[i],
           files'[n].version = files[n].version + 1,
           entry' = n, spoiled' = spoiled \cup {n},
           synced' \in {synced \ {n}, synced \cup {n}}
    PROVE  (\A v \in Writers : WriterIsOrderly(v)') /\ InodesAreOwn' /\ ContentIsSent' /\ PathIsOurs'
<1>1. TypeOK /\ UNCHANGED writer /\ meddles' # 0
    BY DEF StoreInv, Meddled, TypeOK
<1>2. files[n].version \in Nat
    BY <1>1 DEF TypeOK, FileRecords
<1>3. ASSUME NEW v \in Writers PROVE WriterIsOrderly(v)'
    <2>1. WriterIsOrderly(v)
        BY DEF StoreInv
    <2>2. writer[v].inode # None => files'[writer[v].inode].version > 0
        <3>1. CASE writer[v].inode = n
            BY <1>2, <3>1
        <3>2. CASE writer[v].inode # n
            BY <1>1, <2>1, <3>2, WriterIsTyped DEF WriterIsOrderly
        <3> QED
            BY <3>1, <3>2
    <2>3. writer[v].inode \in synced \cup spoiled => writer[v].inode \in synced' \cup spoiled'
        OBVIOUS
    <2> QED
        BY <1>1, <2>1, <2>2, <2>3 DEF WriterIsOrderly
<1>4. InodesAreOwn'
    BY <1>1 DEF InodesAreOwn, StoreInv
<1>5. ContentIsSent'
    <2> SUFFICES ASSUME NEW v \in Writers, writer[v].inode # None, writer[v].inode \notin spoiled'
                 PROVE  /\ LeftBy(v, files[writer[v].inode].pages)'
                        /\ writer[v].pc \in {"write", "saved"} => SentBy(v, files[writer[v].inode].pages)'
        BY <1>1 DEF ContentIsSent
    <2>1. files'[writer[v].inode] = files[writer[v].inode] /\ writer[v].inode \notin spoiled
        BY <1>1, WriterIsTyped
    <2> QED
        BY <1>1, <2>1 DEF StoreInv, ContentIsSent, LeftBy, SentBy
<1>6. PathIsOurs'
    BY <1>1, <1>2 DEF PathIsOurs
<1> QED
    BY <1>3, <1>4, <1>5, <1>6

LEMMA StoreUnderUnlink ==
    ASSUME StoreInv, Unlink
    PROVE  (\A v \in Writers : WriterIsOrderly(v)') /\ InodesAreOwn' /\ ContentIsSent' /\ PathIsOurs'
<1>1. UNCHANGED <<writer, files, synced, spoiled>> /\ meddles' # 0 /\ entry' \notin Inodes
    BY RecordStoreAssumption DEF StoreInv, Unlink, Meddled, TypeOK
<1> QED
    BY <1>1 DEF StoreInv, WriterIsOrderly, InodesAreOwn, ContentIsSent, LeftBy, SentBy, PathIsOurs

LEMMA StoreUnderPowerLoss ==
    ASSUME StoreInv, LosePower
    PROVE  (\A v \in Writers : WriterIsOrderly(v)') /\ InodesAreOwn' /\ ContentIsSent' /\ PathIsOurs'
<1>1. TypeOK /\ UNCHANGED <<synced, meddles, spoiled>> /\ outages' # 0
    BY DEF StoreInv, LosePower, TypeOK
<1>2. \A v \in Writers :
        /\ writer'[v].inode = writer[v].inode /\ writer'[v].sent = writer[v].sent
        /\ writer'[v].members = writer[v].members /\ writer'[v].limit = writer[v].limit
        /\ \/ writer'[v].pc = writer[v].pc /\ writer[v].pc \notin {"open", "write"}
           \/ writer'[v].pc = "OSError"
    <2>1. \A v \in Writers : writer[v] \in WriterRecords
        BY <1>1 DEF TypeOK
    <2> QED
        BY <2>1 DEF LosePower, WriterRecords, Running
<1>3. \A i \in Inodes :
        /\ files'[i].version >= files[i].version
        /\ i \in synced => files'[i] = files[i]
        /\ Len(files'[i].pages) <= Len(files[i].pages)
        /\ \A k \in 1 .. Len(files'[i].pages) : files'[i].pages[k] \in {Garbage, files[i].pages[k]}
    <2>1. \A i \in Inodes : files[i].version \in Nat /\ files[i].pages \in Seq(Pages)
        BY <1>1 DEF TypeOK, FileRecords
    <2>2. CASE UNCHANGED files
        BY <2>1, <2>2
    <2>3. CASE entry \in Inodes /\ UNCHANGED entry
        <3>1. PICK kept \in Survivors(entry) :
                files' = [files EXCEPT ![entry] = IF kept = @.pages THEN @ ELSE Modified(entry, kept)]
            BY <2>3, RecordStoreAssumption DEF LosePower
        <3>2. \A i \in Inodes : i # entry => files'[i] = files[i]
            BY <1>1, <3>1 DEF TypeOK
        <3>3. files'[entry].pages = kept /\ files'[entry].version >= files[entry].version
            <4>1. files'[entry] = IF kept = files[entry].pages THEN files[entry] ELSE Modified(entry, kept)
                BY <1>1, <2>3, <3>1 DEF TypeOK
            <4> QED
                BY <2>1, <2>3, <4>1 DEF Modified
        <3>4. entry \in synced => files'[entry] = files[entry]
            BY <1>1, <2>3, <3>1, SurvivorsArePages DEF TypeOK
        <3>5. /\ Len(kept) <= Len(files[entry].pages)
              /\ \A k \in 1 .. Len(kept) : kept[k] \in {Garbage, files[entry].pages[k]}
            BY <1>1, <2>3, SurvivorsArePages
        <3>6. \A i \in Inodes : i # entry =>
                /\ files'[i].version >= files[i].version
                /\ i \in synced => files'[i] = files[i]
                /\ Len(files'[i].pages) <= Len(files[i].pages)
                /\ \A k \in 1 .. Len(files'[i].pages) : files'[i].pages[k] \in {Garbage, files[i].pages[k]}
            BY <2>1, <3>2
        <3> QED
            BY <2>3, <3>3, <3>4, <3>5, <3>6
    <2> QED
        BY <2>2, <2>3 DEF LosePower
<1>4. \A i \in Inodes : files[i].version \in Nat /\ files'[i].version \in Nat
    <2>1. TypeOK'
        BY <1>1, TypeUnderOthers DEF OtherStep
    <2> QED
        BY <1>1, <2>1 DEF TypeOK, FileRecords
<1>5. ASSUME NEW v \in Writers PROVE WriterIsOrderly(v)'
    <2>1. WriterIsOrderly(v)
        BY DEF StoreInv
    <2>2. writer[v].inode # None => files'[writer[v].inode].version > 0
        BY <1>1, <1>3, <1>4, <2>1, WriterIsTyped DEF WriterIsOrderly
    <2> QED
        BY <1>1, <1>2, <2>1, <2>2 DEF WriterIsOrderly
<1>6. InodesAreOwn'
    BY <1>2 DEF InodesAreOwn, StoreInv
<1>7. ContentIsSent'
    <2> SUFFICES ASSUME NEW v \in Writers, writer'[v].inode # None, writer'[v].inode \notin spoiled'
                 PROVE  /\ LeftBy(v, files[writer[v].inode].pages)'
                        /\ writer'[v].pc \in {"write", "saved"} => SentBy(v, files[writer[v].inode].pages)'
        BY DEF ContentIsSent
    <2> DEFINE i == writer[v].inode
    <2>1. i \in Inodes /\ i \notin spoiled /\ writer'[v].inode = i /\ writer[v].sent \in Nat
          /\ files[i].pages \in Seq(Pages)
        BY <1>1, <1>2, WriterIsTyped
    <2>2. LeftBy(v, files[i].pages)
        BY <1>2, <2>1 DEF StoreInv, ContentIsSent
    <2>3. LeftBy(v, files[writer[v].inode].pages)'
        <3>1. Len(files'[i].pages) \in Nat /\ Len(files[i].pages) \in Nat
            <4>1. TypeOK'
                BY <1>1, TypeUnderOthers DEF OtherStep
            <4> HIDE DEF i
            <4>2. files'[i] \in FileRecords
                BY <2>1, <4>1 DEF TypeOK
            <4> QED
                BY <2>1, <4>2 DEF FileRecords
        <3>2. \A k \in 1 .. Len(files'[i].pages) :
                k \in 1 .. Len(files[i].pages) /\ files'[i].pages[k] \in {Garbage, files[i].pages[k]}
            BY <1>3, <2>1, <3>1
        <3>3. Len(files'[i].pages) <= writer[v].sent
            BY <1>3, <2>1, <2>2, <3>1 DEF LeftBy
        <3> HIDE DEF i
        <3>4. \A k \in 1 .. Len(files'[i].pages) : files'[i].pages[k] \in {Garbage, Image(writer[v].members)[k]}
            BY <2>2, <3>2 DEF LeftBy
        <3> QED
            BY <1>2, <2>1, <3>3, <3>4 DEF LeftBy
    <2>4. ASSUME writer'[v].pc \in {"write", "saved"} PROVE SentBy(v, files[writer[v].inode].pages)'
        <3>1. writer[v].pc = "saved" /\ WriterIsOrderly(v)
            BY <1>2, <2>4 DEF StoreInv
        <3>2. i \in synced /\ files'[i] = files[i]
            BY <1>3, <2>1, <3>1 DEF WriterIsOrderly
        <3>3. SentBy(v, files[i].pages)
            BY <1>2, <2>1, <3>1 DEF StoreInv, ContentIsSent
        <3> QED
            BY <1>2, <2>1, <3>2, <3>3 DEF SentBy
    <2> QED
        BY <2>3, <2>4
<1>8. PathIsOurs'
    <2>1. PathIsOurs
        BY DEF StoreInv
    <2>2. entry' \in Inodes => entry' = entry
        BY RecordStoreAssumption DEF LosePower
    <2>3. \A i \in Inodes : files'[i].version > 0 => files[i].version > 0
        <3> SUFFICES ASSUME NEW i \in Inodes, files'[i].version > 0, ~(files[i].version > 0)
                     PROVE  FALSE
            OBVIOUS
        <3>1. entry = i /\ entry \in Inodes
            BY <1>1 DEF LosePower, TypeOK
        <3> QED
            BY <2>1, <3>1 DEF PathIsOurs
    <2>4. entry' \in Inodes => files'[entry'].version > 0
        BY <1>3, <1>4, <2>1, <2>2 DEF PathIsOurs
    <2> QED
        BY <1>1, <1>2, <2>1, <2>3, <2>4 DEF PathIsOurs
<1> QED
    BY <1>5, <1>6, <1>7, <1>8

LEMMA StoreStays ==
    ASSUME StoreInv, ReaderIsOrderly, [Next]_vars
    PROVE  StoreInv'
<1>1. TypeOK'
    BY TypeStays DEF StoreInv
<1>2. CASE WriterStep
    <2> PICK w \in Writers : BuildImage(w) \/ Create(w) \/ Write(w) \/ Sync(w) \/ FailWrite(w)
        BY <1>2 DEF WriterStep
    <2>1. CASE BuildImage(w)
        BY <1>1, <2>1, StoreUnderBuildImage DEF StoreInv
    <2>2. CASE Create(w) /\ entry = None
        BY <1>1, <2>2, StoreUnderCreate DEF StoreInv
    <2>3. CASE Create(w) /\ entry # None
        BY <1>1, <2>3, StoreUnderFailure DEF StoreInv, Create, OfWriter
    <2>4. CASE Write(w)
        BY <1>1, <2>4, StoreUnderWrite DEF StoreInv
    <2>5. CASE Sync(w)
        BY <1>1, <2>5, StoreUnderSync DEF StoreInv
    <2>6. CASE FailWrite(w)
        BY <1>1, <2>6, StoreUnderFailure DEF StoreInv, FailWrite, OfWriter
    <2> QED
        BY <2>1, <2>2, <2>3, <2>4, <2>5, <2>6
<1>3. CASE ReaderStep \/ UNCHANGED vars
    <2>1. UNCHANGED <<entry, files, synced, writer, meddles, outages, spoiled>>
        BY <1>3 DEF ReaderStep, Before, Open, Opened, Read, Probe, After, Decode, FailRead,
                    OpenInput, StatInput, ReadInput, AfterInput, OfReader, vars
    <2>2. InodesAreOwn' /\ ContentIsSent' /\ PathIsOurs'
        BY <2>1, StoreWhenFilesStay DEF StoreInv
    <2>3. \A v \in Writers : WriterIsOrderly(v)'
        BY <2>1 DEF StoreInv, WriterIsOrderly
    <2> QED
        BY <1>1, <2>2, <2>3 DEF StoreInv
<1>4. CASE Overwrite
    <2>1. PICK pages \in Seq(Pages) :
            entry \in Inodes /\ files' = [files EXCEPT ![entry] = Modified(entry, pages)]
        BY <1>4, OverwriteIsModification DEF StoreInv
    <2>2. files'[entry].version = files[entry].version + 1
          /\ \A i \in Inodes : i # entry => files'[i] = files[i]
        BY <2>1, ModifiedIsFile DEF StoreInv, TypeOK
    <2>3. Meddled /\ entry' = entry /\ spoiled' = spoiled \cup {entry} /\ synced' = synced \ {entry}
        BY <1>4 DEF Overwrite
    <2> QED
        BY <1>1, <2>1, <2>2, <2>3, StoreUnderMeddling DEF StoreInv
<1>5. CASE Replace
    <2> DEFINE n == NewInode
    <2>1. n \in Inodes /\ \E record \in Records :
            /\ Image(record) \in Seq(Pages)
            /\ files' = [files EXCEPT ![n] = Modified(n, Image(record))]
        BY <1>5, ReplaceIsModification DEF StoreInv
    <2>2. Meddled /\ entry' = n /\ spoiled' = spoiled \cup {n} /\ synced' = synced \cup {n}
        BY <1>5 DEF Replace
    <2> HIDE DEF n
    <2>3. files'[n].version = files[n].version + 1 /\ \A i \in Inodes : i # n => files'[i] = files[i]
        BY <2>1, ModifiedIsFile DEF StoreInv, TypeOK
    <2> QED
        BY <1>1, <2>1, <2>2, <2>3, StoreUnderMeddling DEF StoreInv
<1>6. CASE Unlink
    BY <1>1, <1>6, StoreUnderUnlink DEF StoreInv
<1>7. CASE LosePower
    BY <1>1, <1>7, StoreUnderPowerLoss DEF StoreInv
<1> QED
    BY <1>2, <1>3, <1>4, <1>5, <1>6, <1>7, StepsByActor DEF OtherStep

-----------------------------------------------------------------------------
\* The invariant of the reader

\* What the steps of the others leave the reader.
LEMMA OthersSpareReader ==
    ASSUME StoreInv, WriterStep \/ OtherStep \/ UNCHANGED vars
    PROVE  /\ moment \subseteq moment'
           /\ Incidents \in Nat /\ Incidents' \in Nat /\ Incidents <= Incidents'
           /\ meddles' = 0 => meddles = 0
           /\ \/ reader' = reader
              \/ reader' = [reader EXCEPT !.pc = "OSError"] /\ reader.pc # "start" /\ Incidents' # Incidents
<1>1. TypeOK
    BY DEF StoreInv
<1>2. moment \subseteq moment'
    BY DEF WriterStep, OtherStep, BuildImage, Create, Write, Sync, FailWrite, Overwrite, Replace,
           Unlink, LosePower, Witness, vars
<1>3. \/ UNCHANGED <<meddles, faults, outages, reader>>
      \/ UNCHANGED <<faults, outages, reader>> /\ meddles' = meddles + 1
      \/ UNCHANGED <<meddles, outages, reader>> /\ faults' = faults + 1
      \/ /\ UNCHANGED <<meddles, faults>> /\ outages' = outages + 1
         /\ reader' = IF Running(reader.pc) THEN [reader EXCEPT !.pc = "OSError"] ELSE reader
    <2>1. CASE WriterStep
        BY <2>1 DEF WriterStep, BuildImage, Create, Write, Sync, FailWrite, OfWriter
    <2>2. CASE OtherStep
        BY <2>2 DEF OtherStep, Overwrite, Replace, Unlink, LosePower, Meddled
    <2>3. CASE UNCHANGED vars
        BY <2>3 DEF vars
    <2> QED
        BY <2>1, <2>2, <2>3
<1>4. meddles \in Nat /\ faults \in Nat /\ outages \in Nat
    BY <1>1 DEF TypeOK
<1>5. Running(reader.pc) => reader.pc # "start"
    BY DEF Running
<1> QED
    BY <1>2, <1>3, <1>4, <1>5 DEF Incidents

\* The writers go forward.
LEMMA WritersGoForward ==
    ASSUME StoreInv, WriterStep \/ OtherStep \/ UNCHANGED vars, NEW w \in Writers
    PROVE  /\ writer[w].sent <= writer'[w].sent
           /\ writer'[w].members = writer[w].members /\ writer'[w].limit = writer[w].limit
           /\ \/ writer'[w].inode = writer[w].inode
              \/ writer'[w].inode \in Inodes /\ files[writer'[w].inode].version = 0
           /\ writer[w].pc = "saved" => writer'[w].pc = "saved" /\ writer'[w].inode = writer[w].inode
<1>1. TypeOK /\ writer[w] \in WriterRecords /\ writer[w].sent \in Nat
    BY DEF StoreInv, TypeOK, WriterRecords
<1>2. CASE WriterStep
    <2> PICK v \in Writers : BuildImage(v) \/ Create(v) \/ Write(v) \/ Sync(v) \/ FailWrite(v)
        BY <1>2 DEF WriterStep
    <2>1. ASSUME NEW pc, WriterTo(v, pc), writer[v].pc # "saved"
          PROVE  /\ writer[w].sent <= writer'[w].sent
                 /\ writer'[w].members = writer[w].members /\ writer'[w].limit = writer[w].limit
                 /\ writer'[w].inode = writer[w].inode
                 /\ writer[w].pc = "saved" => writer'[w].pc = "saved"
        <3>1. CASE v = w
            BY <1>1, <2>1, <3>1, PcOnly
        <3>2. CASE v # w
            BY <1>1, <2>1, <3>2, PcOnly
        <3> QED
            BY <3>1, <3>2
    <2>2. CASE Create(v) /\ entry = None
        <3>1. NewInode \in Inodes /\ files[NewInode].version = 0 /\ writer[v].pc = "open"
              /\ writer' = [writer EXCEPT ![v].pc = "write", ![v].inode = NewInode]
            BY <2>2, NewInodeIsFree DEF Create
        <3>2. v # w => writer'[w] = writer[w]
            BY <1>1, <3>1 DEF TypeOK
        <3>3. v = w => /\ writer'[w].sent = writer[w].sent /\ writer'[w].members = writer[w].members
                       /\ writer'[w].limit = writer[w].limit /\ writer'[w].inode = NewInode
            BY <1>1, <3>1 DEF TypeOK, WriterRecords
        <3> QED
            BY <1>1, <3>1, <3>2, <3>3
    <2>3. CASE Write(v)
        <3>1. writer' = [writer EXCEPT ![v].sent = writer[v].sent + 1] /\ writer[v].pc = "write"
            BY <1>1, <2>3 DEF Write, TypeOK
        <3>2. v # w => writer'[w] = writer[w]
            BY <1>1, <3>1 DEF TypeOK
        <3>3. v = w => /\ writer'[w].sent = writer[w].sent + 1 /\ writer'[w].members = writer[w].members
                       /\ writer'[w].limit = writer[w].limit /\ writer'[w].inode = writer[w].inode
            BY <1>1, <3>1 DEF TypeOK, WriterRecords
        <3> QED
            BY <1>1, <3>1, <3>2, <3>3
    <2>4. CASE BuildImage(v) \/ Sync(v) \/ FailWrite(v) \/ (Create(v) /\ entry # None)
        <3>1. writer[v].pc # "saved" /\ \E pc : WriterTo(v, pc)
            BY <2>4 DEF BuildImage, Sync, FailWrite, Create
        <3> QED
            BY <2>1, <3>1
    <2> QED
        BY <2>2, <2>3, <2>4
<1>3. CASE LosePower
    BY <1>1, <1>3 DEF LosePower, WriterRecords, Running
<1>4. CASE Overwrite \/ Replace \/ Unlink \/ UNCHANGED vars
    <2>1. UNCHANGED writer
        BY <1>4 DEF Overwrite, Replace, Unlink, Meddled, vars
    <2> QED
        BY <1>1, <2>1
<1> QED
    BY <1>2, <1>3, <1>4 DEF OtherStep

\* Without an incident, a saved record at the path stays there as it is.
LEMMA SavedStaysQuietly ==
    ASSUME StoreInv, WriterStep \/ OtherStep \/ UNCHANGED vars, Incidents' = Incidents,
           NEW w \in Writers, writer[w].pc = "saved", entry = writer[w].inode
    PROVE  entry' = entry /\ files'[entry] = files[entry] /\ spoiled' = spoiled
<1>1. TypeOK /\ entry \in Inodes /\ entry # None
    BY WriterIsTyped DEF StoreInv, WriterIsOrderly
<1>2. meddles \in Nat /\ faults \in Nat /\ outages \in Nat
    BY <1>1 DEF TypeOK
<1>3. ~OtherStep
    BY <1>2 DEF OtherStep, Overwrite, Replace, Unlink, LosePower, Meddled, Incidents
<1>4. CASE WriterStep
    <2> PICK v \in Writers : BuildImage(v) \/ Create(v) \/ Write(v) \/ Sync(v) \/ FailWrite(v)
        BY <1>4 DEF WriterStep
    <2>1. CASE Write(v)
        <3>1. v # w /\ writer[v].pc = "write"
            BY <2>1 DEF Write
        <3>2. writer[v].inode # None
            BY <3>1 DEF StoreInv, WriterIsOrderly
        <3>3. writer[v].inode # entry
            BY <3>1, <3>2 DEF StoreInv, InodesAreOwn
        <3>4. files'[entry] = files[entry]
            BY <1>1, <2>1, <3>3 DEF Write, TypeOK
        <3> QED
            BY <2>1, <3>4 DEF Write, OfWriter
    <2>2. CASE ~Write(v)
        BY <1>1, <2>2 DEF BuildImage, Create, Sync, FailWrite, OfWriter
    <2> QED
        BY <2>1, <2>2
<1> QED
    BY <1>3, <1>4 DEF vars

\* What was seen of a file is true of it for as long as it has that identity.
LEMMA LookedAtStays ==
    ASSUME TypeOK, LookedAt, \A i \in Inodes : Aged(i), moment \subseteq moment',
           reader'.before = reader.before, reader'.kind = reader.kind
    PROVE  /\ LookedAt'
           /\ Same(reader.before.inode)' =>
                  /\ files'[reader.before.inode] = files[reader.before.inode]
                  /\ Same(reader.before.inode)
<1> DEFINE i == reader.before.inode
<1>1. i \in Inodes /\ reader.before.version <= files[i].version /\ Aged(i)
    BY DEF LookedAt
<1>2. files[i].version \in Nat /\ reader.before.version \in Nat
    BY <1>1 DEF TypeOK, FileRecords, ReaderRecords, Stats
<1>3. files'[i] = files[i] \/ files'[i].version > reader.before.version
    BY <1>1, <1>2 DEF Aged
<1>4. reader.before.version <= files'[i].version
    BY <1>1, <1>2 DEF Aged
<1>5. Same(i)' => files'[i] = files[i] /\ Same(i)
    <2>1. Same(i)' => files'[i].version = reader.before.version
        BY DEF Same
    <2>2. files'[i] = files[i] => (Same(i)' <=> Same(i))
        BY DEF Same
    <2> QED
        BY <1>2, <1>3, <2>1, <2>2
<1>6. Same(i) => Len(files[i].pages) = reader.before.size /\ InMoment(files[i].pages)
    BY DEF LookedAt
<1>8. Same(i)' => Len(files'[i].pages) = reader.before.size /\ InMoment(files[i].pages)'
    <2>1. ASSUME Same(i)' PROVE Len(files'[i].pages) = reader.before.size /\ InMoment(files[i].pages)'
        <3>1. files'[i].pages = files[i].pages /\ InMoment(files[i].pages)
              /\ Len(files[i].pages) = reader.before.size
            BY <1>5, <1>6, <2>1
        <3> QED
            BY <3>1 DEF InMoment
    <2> QED
        BY <2>1
<1> QED
    BY <1>1, <1>4, <1>5, <1>8 DEF LookedAt, Same

\* A reader that is where it was, or has failed.
LEMMA ReaderOrderlyMeanwhile ==
    ASSUME TypeOK, ReaderIsOrderly, \A i \in Inodes : Aged(i), moment \subseteq moment',
           reader' = reader \/ reader' = [reader EXCEPT !.pc = "OSError"]
    PROVE  ReaderIsOrderly'
<1>1. CASE reader' = [reader EXCEPT !.pc = "OSError"]
    <2>1. reader'.pc = "OSError"
        BY <1>1 DEF TypeOK, ReaderRecords
    <2> QED
        BY <2>1 DEF ReaderIsOrderly
<1>2. CASE reader' = reader
    <2>1. LookedAt => LookedAt' /\ (Same(reader.before.inode)' =>
                                        /\ files'[reader.before.inode] = files[reader.before.inode]
                                        /\ Same(reader.before.inode))
        BY <1>2, LookedAtStays
    <2>2. reader.pc = "returned" => (Decodes(reader.pages) /\ Decoded(reader.pages) \in moment)'
        BY <1>2 DEF ReaderIsOrderly
    <2>3. reader.pc \in {"read", "after", "path"} =>
            /\ LookedAt'
            /\ reader.inode = reader.before.inode
            /\ Same(reader.inode)' => Prefix(reader.pages, files[reader.inode].pages)'
        BY <1>2, <2>1 DEF ReaderIsOrderly, Prefix
    <2>4. reader.pc \in {"after", "path"} /\ Same(reader.inode)' => (Len(reader.pages) = Len(files[reader.inode].pages))'
        BY <1>2, <2>1 DEF ReaderIsOrderly
    <2> QED
        BY <1>2, <2>1, <2>2, <2>3, <2>4 DEF ReaderIsOrderly
<1> QED
    BY <1>1, <1>2

LEMMA ReaderIsTyped ==
    ASSUME TypeOK
    PROVE  /\ reader \in ReaderRecords
           /\ reader.pages \in Seq(Pages) /\ Len(reader.pages) \in Nat
           /\ reader.limit \in Nat /\ reader.before.size \in Nat
           /\ reader.kind \in {"record", "input"}
           /\ \A i \in Inodes : files[i].pages \in Seq(Pages) /\ Len(files[i].pages) \in Nat
BY DEF TypeOK, ReaderRecords, FileRecords, Stats

LEMMA ReaderTurns ==
    ASSUME TypeOK, NEW pc, ReaderTo(pc)
    PROVE  /\ reader'.pc = pc /\ reader'.kind = reader.kind /\ reader'.limit = reader.limit
           /\ reader'.before = reader.before /\ reader'.inode = reader.inode
           /\ reader'.pages = reader.pages /\ reader'.found = reader.found /\ reader'.from = reader.from
BY DEF TypeOK, ReaderRecords, ReaderTo

LEMMA ReaderGone ==
    ASSUME reader'.pc \in Gone
    PROVE  ReaderIsOrderly'
BY DEF Gone, ReaderIsOrderly

\* One more page of the file.
LEMMA PrefixGrows ==
    ASSUME NEW short \in Seq(Pages), NEW long \in Seq(Pages), Prefix(short, long),
           Len(short) + 1 <= Len(long)
    PROVE  Prefix(Append(short, long[Len(short) + 1]), long)
<1> DEFINE page == long[Len(short) + 1]
           more == Append(short, page)
<1>1. Len(short) \in Nat /\ Len(long) \in Nat
    OBVIOUS
<1>2. page \in Pages
    BY <1>1
<1> HIDE DEF page
<1>3. /\ Len(more) = Len(short) + 1 /\ more[Len(short) + 1] = page
      /\ \A k \in 1 .. Len(short) : more[k] = short[k]
    BY <1>2
<1> HIDE DEF more
<1>4. \A k \in 1 .. Len(more) : k = Len(short) + 1 \/ k \in 1 .. Len(short)
    BY <1>1, <1>3
<1>5. Len(more) <= Len(long) /\ \A k \in 1 .. Len(more) : more[k] = long[k]
    BY <1>3, <1>4 DEF Prefix, page
<1> QED
    BY <1>5 DEF Prefix, more, page

LEMMA WholePrefix ==
    ASSUME NEW short \in Seq(Pages), NEW long \in Seq(Pages), Prefix(short, long), Len(short) = Len(long)
    PROVE  short = long
<1>1. short = [k \in 1 .. Len(short) |-> short[k]] /\ long = [k \in 1 .. Len(short) |-> long[k]]
    OBVIOUS
<1>2. \A k \in 1 .. Len(short) : short[k] = long[k]
    BY DEF Prefix
<1> QED
    BY <1>1, <1>2

\* The files do not move while the reader does; the view of the file stays.
LEMMA ViewStays ==
    ASSUME TypeOK, UNCHANGED <<files, moment>>,
           reader'.before = reader.before, reader'.kind = reader.kind
    PROVE  /\ LookedAt => LookedAt'
           /\ \A i : Same(i)' <=> Same(i)
           /\ \A short, long : Prefix(short, long)' <=> Prefix(short, long)
<1>1. LookedAt => LookedAt'
    BY DEF LookedAt, Same, InMoment
<1> QED
    BY <1>1 DEF Same, Prefix

LEMMA OrderlyUnderBefore ==
    ASSUME TypeOK, ReaderIsOrderly, Before
    PROVE  ReaderIsOrderly'
<1>1. /\ reader.pc = "start" /\ reader.kind = "record" /\ reader.pages = <<>>
      /\ UNCHANGED <<entry, files>> /\ moment' = Held(entry, files)
    BY DEF Before, ReaderIsOrderly, OfReader
<1>2. CASE \E pc \in Gone : Began(pc, NoStat)
    BY <1>2, BeganTurns, ReaderGone
<1>3. CASE entry \in Inodes /\ Began("open", Stat(entry))
    <2>1. /\ reader'.pc = "open" /\ reader'.before = Stat(entry) /\ reader'.kind = "record"
          /\ reader'.pages = <<>>
        BY <1>1, <1>3, BeganTurns
    <2>2. LookedAt'
        <3>1. Stat(entry).inode = entry /\ Stat(entry).size = Len(files[entry].pages)
              /\ Stat(entry).version = files[entry].version
            BY <1>3, StatIsTyped
        <3>2. files[entry].version <= files[entry].version
            BY <1>3 DEF TypeOK, FileRecords
        <3>3. InMoment(files[entry].pages)'
            BY <1>1, <1>3, <2>1 DEF InMoment, Held
        <3>4. /\ reader'.before.inode = entry /\ reader'.before.version = files'[entry].version
              /\ reader'.before.size = Len(files'[entry].pages)
            BY <1>1, <2>1, <3>1
        <3>5. InMoment(files[reader.before.inode].pages)'
            BY <1>1, <3>3, <3>4 DEF InMoment
        <3>6. reader'.before.version <= files'[entry].version
            BY <1>1, <3>2, <3>4
        <3> QED
            BY <1>3, <3>4, <3>5, <3>6 DEF LookedAt
    <2> QED
        BY <2>1, <2>2 DEF ReaderIsOrderly
<1> QED
    BY <1>2, <1>3, BeforeBegins

LEMMA OrderlyUnderOpen ==
    ASSUME TypeOK, ReaderIsOrderly, Open \/ Opened
    PROVE  ReaderIsOrderly'
<1>1. UNCHANGED <<files, moment>>
    BY DEF Open, Opened, OfReader
<1>2. CASE Open
    <2>1. reader.pc = "open" /\ reader.kind = "record" /\ reader.pages = <<>> /\ LookedAt
        BY <1>2, ReaderIsTyped DEF Open, ReaderIsOrderly
    <2>2. CASE entry \in Inodes
        <3>1. /\ reader'.pc = "opened" /\ reader'.inode = entry /\ reader'.pages = <<>>
              /\ reader'.before = reader.before /\ reader'.kind = reader.kind
            BY <1>2, <2>1, <2>2, ReaderIsTyped DEF Open, ReaderRecords
        <3>2. LookedAt'
            BY <1>1, <2>1, <3>1, ViewStays
        <3> QED
            BY <2>1, <2>2, <3>1, <3>2 DEF ReaderIsOrderly
    <2>3. CASE entry \notin Inodes
        BY <1>2, <2>3, ReaderTurns, ReaderGone DEF Open, Gone, ReaderTo
    <2> QED
        BY <2>2, <2>3
<1>3. CASE Opened
    <2>1. /\ reader.pc = "opened" /\ reader.kind = "record" /\ reader.pages = <<>> /\ LookedAt
          /\ reader.inode \in Inodes
        BY <1>3 DEF Opened, ReaderIsOrderly
    <2>2. CASE Stat(reader.inode) = reader.before
        <3>1. ReaderTo("read")
            BY <1>3, <2>2 DEF Opened
        <3>2. /\ reader'.pc = "read" /\ reader'.inode = reader.inode /\ reader'.pages = <<>>
              /\ reader'.before = reader.before /\ reader'.kind = reader.kind
            BY <2>1, <3>1, ReaderTurns
        <3>3. LookedAt'
            BY <1>1, <2>1, <3>2, ViewStays
        <3>4. reader.inode = reader.before.inode
            BY <2>1, <2>2, StatIsTyped
        <3>5. Prefix(reader.pages, files[reader.inode].pages)'
            BY <1>1, <2>1, <3>2, ReaderIsTyped DEF Prefix
        <3> QED
            BY <2>1, <3>2, <3>3, <3>4, <3>5 DEF ReaderIsOrderly
    <2>3. CASE Stat(reader.inode) # reader.before
        BY <1>3, <2>3, ReaderTurns, ReaderGone DEF Opened, Gone
    <2> QED
        BY <2>2, <2>3
<1> QED
    BY <1>2, <1>3

\* A page is read, or the read of an input finds no more.
LEMMA OrderlyUnderRead ==
    ASSUME TypeOK, ReaderIsOrderly, Read \/ ReadInput
    PROVE  ReaderIsOrderly'
<1> DEFINE pages == files[reader.inode].pages
           k == Len(reader.pages) + 1
<1>1. UNCHANGED <<files, moment>> /\ reader.pc = "read"
    BY DEF Read, ReadInput, OfReader
<1>2. /\ LookedAt /\ reader.inode = reader.before.inode /\ reader.inode \in Inodes
      /\ Same(reader.inode) => Prefix(reader.pages, pages)
    BY <1>1 DEF ReaderIsOrderly
<1>3. reader.pages \in Seq(Pages) /\ pages \in Seq(Pages) /\ k \in Nat /\ Len(pages) \in Nat
    BY <1>2, ReaderIsTyped
<1>4. \/ k <= Len(pages) /\ reader' = [reader EXCEPT !.pages = Append(@, pages[k])]
      \/ k > Len(pages) /\ reader.kind = "input" /\ ReaderTo("after")
      \/ \E pc \in Gone : ReaderTo(pc)
    <2>1. CASE Read
        BY <1>3, <2>1 DEF Read, Gone
    <2>2. CASE ReadInput
        <3>1. CASE k > Len(pages)
            BY <2>2, <3>1 DEF ReadInput
        <3>2. CASE k <= Len(pages)
            BY <1>3, <2>2, <3>2, ReaderIsTyped DEF ReadInput, Gone
        <3> QED
            BY <1>3, <3>1, <3>2
    <2> QED
        BY <2>1, <2>2
<1>5. CASE k <= Len(pages) /\ reader' = [reader EXCEPT !.pages = Append(@, pages[k])]
    <2> DEFINE more == Append(reader.pages, pages[k])
    <2>1. /\ reader'.pc = "read" /\ reader'.kind = reader.kind /\ reader'.before = reader.before
          /\ reader'.inode = reader.inode /\ reader'.pages = more
        BY <1>1, <1>5, ReaderIsTyped DEF ReaderRecords
    <2>2. Same(reader.inode) => Prefix(more, pages)
        BY <1>2, <1>3, <1>5, PrefixGrows
    <2> HIDE DEF more
    <2>3. LookedAt' /\ (Same(reader.inode)' => Prefix(more, pages))
        BY <1>1, <1>2, <2>1, <2>2, ViewStays
    <2> QED
        BY <1>1, <1>2, <2>1, <2>3 DEF ReaderIsOrderly, Prefix
<1>6. CASE k > Len(pages) /\ reader.kind = "input" /\ ReaderTo("after")
    <2>1. /\ reader'.pc = "after" /\ reader'.kind = "input" /\ reader'.before = reader.before
          /\ reader'.inode = reader.inode /\ reader'.pages = reader.pages
        BY <1>6, ReaderTurns
    <2>2. LookedAt' /\ (Same(reader.inode)' => Prefix(reader.pages, pages))
        BY <1>1, <1>2, <1>6, <2>1, ViewStays
    <2>3. Prefix(reader.pages, pages) => Len(reader.pages) = Len(pages)
        BY <1>3, <1>6 DEF Prefix
    <2> QED
        BY <1>1, <1>2, <2>1, <2>2, <2>3 DEF ReaderIsOrderly, Prefix
<1>7. CASE \E pc \in Gone : ReaderTo(pc)
    BY <1>7, ReaderTurns, ReaderGone
<1> QED
    BY <1>4, <1>5, <1>6, <1>7

LEMMA OrderlyUnderCheck ==
    ASSUME TypeOK, ReaderIsOrderly, Probe \/ After \/ AfterInput
    PROVE  ReaderIsOrderly'
<1> DEFINE pages == files[reader.inode].pages
<1>1. UNCHANGED <<files, moment>> /\ reader.pc \in {"read", "after"}
    BY DEF Probe, After, AfterInput, OfReader
<1>2. /\ LookedAt /\ reader.inode = reader.before.inode /\ reader.inode \in Inodes
      /\ Same(reader.inode) => Prefix(reader.pages, pages)
      /\ reader.pc = "after" /\ Same(reader.inode) => Len(reader.pages) = Len(pages)
    BY <1>1 DEF ReaderIsOrderly
<1>3. reader.pages \in Seq(Pages) /\ pages \in Seq(Pages) /\ Len(pages) \in Nat
    BY <1>2, ReaderIsTyped
<1>4. ASSUME NEW pc \in {"after", "path"}, ReaderTo(pc), reader.kind = "record",
             Same(reader.inode) => Len(reader.pages) = Len(pages)
      PROVE  ReaderIsOrderly'
    <2>1. /\ reader'.pc = pc /\ reader'.kind = "record" /\ reader'.before = reader.before
          /\ reader'.inode = reader.inode /\ reader'.pages = reader.pages
        BY <1>4, ReaderTurns
    <2>2. LookedAt' /\ (Same(reader.inode)' <=> Same(reader.inode))
        BY <1>1, <1>2, <1>4, <2>1, ViewStays
    <2> QED
        BY <1>1, <1>2, <1>4, <2>1, <2>2 DEF ReaderIsOrderly, Prefix
<1>5. CASE Probe
    <2>1. reader.kind = "record" /\ Len(reader.pages) = reader.before.size
        BY <1>5 DEF Probe
    <2>2. Same(reader.inode) => Len(reader.pages) = Len(pages)
        BY <1>2, <2>1 DEF LookedAt
    <2> QED
        BY <1>4, <1>5, <2>1, <2>2, ReaderTurns, ReaderGone DEF Probe, Gone
<1>6. CASE After
    BY <1>2, <1>4, <1>6, ReaderTurns, ReaderGone DEF After, Gone
<1>7. CASE AfterInput
    <2>1. CASE Stat(reader.inode) = reader.before
        <3>1. ReaderTo("snapshot") /\ reader.pc = "after" /\ reader.kind = "input"
            BY <1>7, <2>1 DEF AfterInput
        <3>2. reader'.pc = "snapshot" /\ reader'.kind = "input" /\ reader'.pages = reader.pages
            BY <3>1, ReaderTurns
        <3>3. Same(reader.inode)
            BY <1>2, <2>1, StatIsTyped DEF Same
        <3>4. reader.pages = pages
            BY <1>2, <1>3, <3>1, <3>3, WholePrefix
        <3>5. pages \in moment
            BY <1>2, <3>1, <3>3 DEF LookedAt, InMoment
        <3> QED
            BY <1>1, <3>2, <3>4, <3>5 DEF ReaderIsOrderly
    <2>2. CASE Stat(reader.inode) # reader.before
        BY <1>7, <2>2, ReaderTurns, ReaderGone DEF AfterInput, Gone
    <2> QED
        BY <2>1, <2>2
<1> QED
    BY <1>5, <1>6, <1>7

LEMMA OrderlyUnderDecode ==
    ASSUME TypeOK, ReaderIsOrderly, Decode
    PROVE  ReaderIsOrderly'
<1>1. reader.pc = "path" /\ UNCHANGED <<files, moment>>
    BY DEF Decode, OfReader
<1>2. /\ LookedAt /\ reader.inode = reader.before.inode /\ reader.inode \in Inodes
      /\ Same(reader.inode) => Prefix(reader.pages, files[reader.inode].pages)
      /\ Same(reader.inode) => Len(reader.pages) = Len(files[reader.inode].pages)
      /\ reader.kind = "record"
    BY <1>1, ReaderIsTyped DEF ReaderIsOrderly
<1>3. \/ entry \in Inodes /\ Stat(entry) = reader.before /\ Decodes(reader.pages) /\ ReaderTo("returned")
      \/ \E pc \in Gone : ReaderTo(pc)
    <2>1. entry \in Inodes \cup {None, Link} /\ (entry \in Inodes => entry # None /\ entry # Link) /\ None # Link
        BY RecordStoreAssumption DEF TypeOK
    <2>2. CASE entry \in Inodes /\ Stat(entry) = reader.before /\ Decodes(reader.pages)
        BY <2>1, <2>2 DEF Decode
    <2>3. CASE entry \in Inodes /\ Stat(entry) = reader.before /\ ~Decodes(reader.pages)
        BY <2>1, <2>3 DEF Decode, Gone
    <2>4. CASE entry \in Inodes /\ Stat(entry) # reader.before
        BY <2>1, <2>4 DEF Decode, Gone
    <2>5. CASE entry = None
        BY <2>1, <2>5 DEF Decode, Gone
    <2>6. CASE entry = Link
        BY <2>1, <2>6 DEF Decode, Gone
    <2> QED
        BY <2>1, <2>2, <2>3, <2>4, <2>5, <2>6
<1>4. CASE \E pc \in Gone : ReaderTo(pc)
    BY <1>4, ReaderTurns, ReaderGone
<1>5. CASE entry \in Inodes /\ Stat(entry) = reader.before /\ Decodes(reader.pages) /\ ReaderTo("returned")
    <2>1. /\ reader'.pc = "returned" /\ reader'.kind = "record" /\ reader'.pages = reader.pages
          /\ reader'.inode = reader.inode
        BY <1>2, <1>5, ReaderTurns
    <2>2. Same(reader.inode)
        BY <1>2, <1>5, StatIsTyped DEF Same
    <2>3. reader.pages = files[reader.inode].pages
        BY <1>2, <2>2, ReaderIsTyped, WholePrefix
    <2>4. Decoded(reader.pages) \in moment
        BY <1>2, <1>5, <2>2, <2>3 DEF LookedAt, InMoment
    <2> QED
        BY <1>1, <1>2, <1>5, <2>1, <2>4 DEF ReaderIsOrderly
<1> QED
    BY <1>3, <1>4, <1>5

LEMMA OrderlyUnderInput ==
    ASSUME TypeOK, ReaderIsOrderly, OpenInput \/ StatInput
    PROVE  ReaderIsOrderly'
<1>1. CASE OpenInput
    <2>1. reader.pc = "start" /\ reader.kind = "input" /\ reader.pages = <<>>
        BY <1>1 DEF OpenInput, ReaderIsOrderly
    <2>2. CASE entry \in Inodes /\ reader' = [reader EXCEPT !.pc = "opened", !.inode = entry]
        <3>1. /\ reader'.pc = "opened" /\ reader'.inode = entry /\ reader'.pages = <<>>
              /\ reader'.kind = "input"
            BY <2>1, <2>2, ReaderIsTyped DEF ReaderRecords
        <3> QED
            BY <2>2, <3>1 DEF ReaderIsOrderly
    <2>3. CASE \E pc \in Gone : ReaderTo(pc)
        BY <2>3, ReaderTurns, ReaderGone
    <2> QED
        BY <1>1, <2>2, <2>3 DEF OpenInput, Gone
<1>2. CASE StatInput
    <2> DEFINE i == reader.inode
    <2>1. /\ reader.pc = "opened" /\ reader.kind = "input" /\ reader.pages = <<>> /\ i \in Inodes
          /\ UNCHANGED files /\ moment' = {files[i].pages}
        BY <1>2 DEF StatInput, ReaderIsOrderly, OfReader
    <2>2. /\ reader'.pc = "read" /\ reader'.inode = i /\ reader'.pages = <<>>
          /\ reader'.kind = "input" /\ reader'.before = Stat(i)
        BY <1>2, <2>1, ReaderIsTyped DEF StatInput, ReaderRecords
    <2>3. /\ reader'.before.inode = i /\ reader'.before.version = files'[i].version
          /\ reader'.before.size = Len(files'[i].pages)
        BY <2>1, <2>2, StatIsTyped
    <2>4. InMoment(files[reader.before.inode].pages)'
        BY <2>1, <2>2, <2>3 DEF InMoment
    <2>5. reader'.before.version <= files'[i].version
        BY <2>1, <2>3 DEF TypeOK, FileRecords
    <2>6. LookedAt'
        BY <2>1, <2>3, <2>4, <2>5 DEF LookedAt
    <2>7. Prefix(reader.pages, files[reader.inode].pages)'
        BY <2>1, <2>2, ReaderIsTyped DEF Prefix
    <2> QED
        BY <2>1, <2>2, <2>3, <2>6, <2>7 DEF ReaderIsOrderly
<1> QED
    BY <1>1, <1>2

LEMMA OrderlyStays ==
    ASSUME StoreInv, ReaderIsOrderly, [Next]_vars
    PROVE  ReaderIsOrderly'
<1>1. TypeOK /\ \A i \in Inodes : Aged(i)
    BY FilesAge DEF StoreInv
<1>2. CASE WriterStep \/ OtherStep \/ UNCHANGED vars
    BY <1>1, <1>2, OthersSpareReader, ReaderOrderlyMeanwhile
<1>3. CASE ReaderStep /\ ~FailRead
    BY <1>1, <1>3, OrderlyUnderBefore, OrderlyUnderOpen, OrderlyUnderRead, OrderlyUnderCheck,
       OrderlyUnderDecode, OrderlyUnderInput DEF ReaderStep
<1>4. CASE FailRead
    BY <1>1, <1>4, ReaderTurns, ReaderGone DEF FailRead, Gone
<1> QED
    BY <1>2, <1>3, <1>4, StepsByActor

\* What the reader's own steps do to the pages it holds.
LEMMA ReaderReads ==
    ASSUME StoreInv, ReaderIsOrderly, ReadFromWriter, ReaderStep
    PROVE  \/ reader'.inode = reader.inode /\ reader'.pages = reader.pages
           \/ reader'.inode = entry /\ entry \in Inodes /\ reader'.pages = <<>>
           \/ /\ reader'.inode = reader.inode /\ reader.inode \in Inodes
              /\ Len(reader.pages) + 1 <= Len(files[reader.inode].pages)
              /\ reader'.pages = Append(reader.pages, files[reader.inode].pages[Len(reader.pages) + 1])
<1>1. TypeOK /\ reader \in ReaderRecords /\ reader.pages \in Seq(Pages) /\ reader.limit \in Nat
      /\ \A i \in Inodes : Len(files[i].pages) \in Nat
    BY ReaderIsTyped DEF StoreInv
<1>2. ASSUME NEW pc, ReaderTo(pc)
      PROVE  reader'.inode = reader.inode /\ reader'.pages = reader.pages
    BY <1>1, <1>2, ReaderTurns
<1>3. CASE Before
    BY <1>1, <1>3, BeforeBegins, BeganTurns
<1>4. CASE Open
    <2>1. reader.pages = <<>>
        BY <1>1, <1>4 DEF Open, ReaderIsOrderly
    <2>2. CASE entry \in Inodes
        BY <1>1, <1>4, <2>1, <2>2 DEF Open, ReaderRecords
    <2>3. CASE entry \notin Inodes
        BY <1>2, <1>4, <2>3 DEF Open, ReaderTo
    <2> QED
        BY <2>2, <2>3
<1>5. CASE OpenInput
    <2>1. reader.pages = <<>>
        BY <1>5 DEF OpenInput, ReaderIsOrderly
    <2>2. CASE entry \in Inodes /\ reader' = [reader EXCEPT !.pc = "opened", !.inode = entry]
        BY <1>1, <2>1, <2>2 DEF ReaderRecords
    <2> QED
        BY <1>2, <1>5, <2>2 DEF OpenInput
<1>6. CASE Read \/ ReadInput
    <2> DEFINE pages == files[reader.inode].pages
               k == Len(reader.pages) + 1
    <2>1. k \in Nat /\ reader.inode \in Inodes /\ Len(pages) \in Nat
        BY <1>1, <1>6 DEF Read, ReadInput, ReaderIsOrderly
    <2>2. \/ k <= Len(pages) /\ reader' = [reader EXCEPT !.pages = Append(@, pages[k])]
          \/ \E pc : ReaderTo(pc)
        BY <1>1, <1>6, <2>1 DEF Read, ReadInput
    <2> HIDE DEF pages, k
    <2>3. CASE k <= Len(pages) /\ reader' = [reader EXCEPT !.pages = Append(@, pages[k])]
        BY <1>1, <2>1, <2>3 DEF ReaderRecords, pages, k
    <2> QED
        BY <1>2, <2>2, <2>3
<1>7. CASE StatInput
    BY <1>1, <1>7 DEF StatInput, ReaderRecords
<1>8. CASE Opened \/ Probe \/ After \/ Decode \/ FailRead \/ AfterInput
    <2>1. \E pc : ReaderTo(pc)
        BY <1>8 DEF Opened, Probe, After, Decode, FailRead, AfterInput
    <2> QED
        BY <1>2, <2>1
<1> QED
    BY <1>3, <1>4, <1>5, <1>6, <1>7, <1>8 DEF ReaderStep

LEMMA ReadFromWriterStays ==
    ASSUME StoreInv, ReaderIsOrderly, ReadFromWriter, [Next]_vars
    PROVE  ReadFromWriter'
<1>1. TypeOK /\ reader \in ReaderRecords /\ reader.pages \in Seq(Pages) /\ Len(reader.pages) \in Nat
    BY ReaderIsTyped DEF StoreInv
<1>2. CASE WriterStep \/ OtherStep \/ UNCHANGED vars
    <2>1. reader'.inode = reader.inode /\ reader'.pages = reader.pages /\ (meddles' = 0 => meddles = 0)
        BY <1>1, <1>2, OthersSpareReader DEF ReaderRecords
    <2>2. reader.inode # None => reader.inode \in Inodes /\ files[reader.inode].version > 0
        BY <1>1 DEF ReaderRecords, ReadFromWriter
    <2>3. reader.inode # None => files'[reader.inode].version > 0
        <3>1. \A i \in Inodes : Aged(i) /\ files[i].version \in Nat
            BY <1>1, FilesAge DEF StoreInv, TypeOK, FileRecords
        <3> QED
            BY <2>2, <3>1 DEF Aged
    <2>4. ASSUME meddles' = 0, reader.inode # None, NEW w \in Writers, writer'[w].inode = reader.inode
          PROVE  LeftBy(w, reader.pages)'
        <3>1. /\ writer[w].sent <= writer'[w].sent /\ writer'[w].members = writer[w].members
              /\ writer[w].inode = reader.inode
            BY <1>2, <2>2, <2>4, WritersGoForward
        <3>2. LeftBy(w, reader.pages)
            BY <2>1, <2>4, <3>1 DEF ReadFromWriter
        <3>3. writer[w].sent \in Nat /\ writer'[w].sent \in Nat
            <4>1. TypeOK'
                BY StoreStays DEF StoreInv
            <4> QED
                BY <1>1, <4>1 DEF TypeOK, WriterRecords
        <3> QED
            BY <1>1, <2>1, <3>1, <3>2, <3>3 DEF LeftBy
    <2> QED
        BY <2>1, <2>3, <2>4 DEF ReadFromWriter
<1>3. CASE ReaderStep
    <2>1. UNCHANGED <<files, writer, meddles>>
        BY <1>3 DEF ReaderStep, Before, Open, Opened, Read, Probe, After, Decode, FailRead,
                    OpenInput, StatInput, ReadInput, AfterInput, OfReader
    <2>2. CASE reader'.inode = reader.inode /\ reader'.pages = reader.pages
        BY <2>1, <2>2 DEF ReadFromWriter, LeftBy
    <2>3. CASE reader'.inode = entry /\ entry \in Inodes /\ reader'.pages = <<>>
        <3>1. files[entry].version > 0 /\ entry # None
            BY <2>3, RecordStoreAssumption DEF StoreInv, PathIsOurs
        <3>2. \A w \in Writers : writer[w].sent \in Nat
            BY <1>1, WriterIsTyped
        <3> QED
            BY <2>1, <2>3, <3>1, <3>2 DEF ReadFromWriter, LeftBy
    <2>4. CASE /\ reader'.inode = reader.inode /\ reader.inode \in Inodes
               /\ Len(reader.pages) + 1 <= Len(files[reader.inode].pages)
               /\ reader'.pages = Append(reader.pages, files[reader.inode].pages[Len(reader.pages) + 1])
        <3> DEFINE k == Len(reader.pages) + 1
                   pages == files[reader.inode].pages
        <3>1. reader.inode # None /\ files[reader.inode].version > 0
            BY <2>4, RecordStoreAssumption DEF ReadFromWriter
        <3>2. pages \in Seq(Pages) /\ k \in 1 .. Len(pages) /\ pages[k] \in Pages
            BY <1>1, <2>4, ReaderIsTyped
        <3>3. Len(reader'.pages) = k /\ reader'.pages[k] = pages[k]
              /\ \A j \in 1 .. Len(reader.pages) : reader'.pages[j] = reader.pages[j]
            <4> HIDE DEF pages
            <4> QED
                BY <1>1, <2>4, <3>2 DEF pages
        <3>4. ASSUME meddles = 0, NEW w \in Writers, writer[w].inode = reader.inode
              PROVE  /\ k <= writer[w].sent
                     /\ \A j \in 1 .. k : reader'.pages[j] \in {Garbage, Image(writer[w].members)[j]}
            <4>1. LeftBy(w, pages) /\ LeftBy(w, reader.pages)
                BY <3>1, <3>4 DEF StoreInv, ContentIsSent, PathIsOurs, ReadFromWriter
            <4>2. writer[w].sent \in Nat /\ Len(pages) \in Nat
                BY <1>1, <3>2, WriterIsTyped
            <4>3. \A j \in 1 .. k : j = k \/ j \in 1 .. Len(reader.pages)
                BY <1>1
            <4> HIDE DEF k, pages
            <4> QED
                BY <3>2, <3>3, <4>1, <4>2, <4>3 DEF LeftBy
        <3> HIDE DEF k, pages
        <3> QED
            BY <2>1, <2>4, <3>1, <3>3, <3>4 DEF ReadFromWriter, LeftBy
    <2> QED
        BY <1>3, <2>2, <2>3, <2>4, ReaderReads
<1> QED
    BY <1>2, <1>3, StepsByActor

-----------------------------------------------------------------------------
\* A read of a saved record succeeds

LEMMA SavedIsImage ==
    ASSUME StoreInv, NEW w \in Writers, writer[w].pc = "saved", writer[w].inode \notin spoiled
    PROVE  /\ writer[w].inode \in Inodes /\ writer[w].members \in Records
           /\ files[writer[w].inode].pages = Image(writer[w].members)
           /\ Len(files[writer[w].inode].pages) = Size /\ Size <= writer[w].limit
<1> DEFINE pages == files[writer[w].inode].pages
           image == Image(writer[w].members)
<1>1. /\ writer[w].members \in Records /\ writer[w].inode # None /\ writer[w].sent = Size
      /\ Size <= writer[w].limit /\ SentBy(w, pages)
    BY DEF StoreInv, WriterIsOrderly, ContentIsSent
<1>2. writer[w].inode \in Inodes /\ pages \in Seq(Pages)
    BY <1>1, WriterIsTyped DEF StoreInv
<1>3. Len(pages) = Size /\ \A k \in 1 .. Len(pages) : pages[k] = image[k]
    BY <1>1 DEF SentBy
<1>4. image \in Seq(Pages) /\ Len(image) = Size
    BY <1>1, ImageIsPages
<1>5. pages = image
    <2> HIDE DEF pages, image
    <2> QED
        BY <1>2, <1>3, <1>4, WholePrefix DEF Prefix
<1> QED
    BY <1>1, <1>2, <1>3, <1>5

LEMMA ReadSucceedsMeanwhile ==
    ASSUME StoreInv, ReadSucceeds, WriterStep \/ OtherStep \/ UNCHANGED vars
    PROVE  ReadSucceeds'
<1> DEFINE w == reader.found
<1>1. /\ reader.found \in Writers \cup {None} /\ reader.from \in Nat
      /\ (reader.found # None => reader.found \in Writers)
    BY DEF StoreInv, TypeOK, ReaderRecords
<1>2. /\ reader'.found = reader.found /\ reader'.from = reader.from /\ reader'.limit = reader.limit
      /\ (reader.pc # "start" => reader'.pc # "start")
      /\ (Incidents' = Incidents => reader' = reader)
      /\ Incidents \in Nat /\ Incidents' \in Nat /\ Incidents <= Incidents'
    BY OthersSpareReader DEF StoreInv, TypeOK, ReaderRecords
<1>3. ASSUME reader.found # None
      PROVE  /\ writer'[w].pc = "saved" /\ writer'[w].inode = writer[w].inode
             /\ writer'[w].members = writer[w].members /\ writer'[w].limit = writer[w].limit
    BY <1>1, <1>3, WritersGoForward DEF ReadSucceeds
<1>4. ASSUME Undisturbed'
      PROVE  OnCourse'
    <2>1. Incidents' = Incidents /\ reader' = reader
        BY <1>1, <1>2, <1>4 DEF ReadSucceeds, Undisturbed
    <2>2. Undisturbed /\ reader.found # None
        BY <1>3, <1>4, <2>1 DEF Undisturbed
    <2>3. OnCourse /\ writer[w].pc = "saved"
        BY <2>2 DEF ReadSucceeds
    <2>4. entry' = entry /\ files'[entry] = files[entry] /\ spoiled' = spoiled
        BY <1>1, <2>1, <2>2, <2>3, SavedStaysQuietly DEF OnCourse
    <2>5. Stat(entry)' = Stat(entry)
        BY <2>4 DEF Stat
    <2> QED
        BY <1>3, <2>1, <2>2, <2>3, <2>4, <2>5 DEF OnCourse
<1> QED
    BY <1>1, <1>2, <1>3, <1>4 DEF ReadSucceeds

LEMMA SucceedsUnderBefore ==
    ASSUME StoreInv, Before
    PROVE  ReadSucceeds'
<1>1. /\ UNCHANGED <<entry, files, writer, spoiled, meddles, faults, outages>> /\ TypeOK
      /\ reader.kind = "record"
    BY DEF Before, OfReader, StoreInv
<1>2. \E stat : \E pc \in Gone \cup {"open"} : Began(pc, stat)
    BY <1>1, BeforeBegins
<1>3. /\ reader'.pc # "start" /\ reader'.found = Found /\ reader'.from = Incidents
      /\ reader'.kind = "record" /\ reader'.limit = reader.limit
    BY <1>1, <1>2, BeganTurns DEF Gone
<1>4. Incidents' = Incidents /\ Incidents \in Nat /\ reader.limit \in Nat
    BY <1>1, ReaderIsTyped DEF Incidents, TypeOK
<1>5. ASSUME Found # None
      PROVE  /\ Found \in Writers /\ writer[Found].pc = "saved" /\ writer[Found].inode = entry
             /\ entry \notin spoiled
    BY <1>5 DEF Found, SavedHere
<1>6. ASSUME Undisturbed'
      PROVE  OnCourse'
    <2>1. Found # None /\ writer[Found].limit <= reader.limit
        BY <1>1, <1>3, <1>6 DEF Undisturbed
    <2>2. /\ entry \in Inodes /\ Len(files[entry].pages) = Size /\ Size <= writer[Found].limit
          /\ writer[Found].limit \in Nat
        BY <1>1, <1>5, <2>1, SavedIsImage, WriterIsTyped
    <2>3. Size \in Nat /\ Size > 0
        BY RecordStoreAssumption DEF Size
    <2>4. reader.limit > 0 /\ Len(files[entry].pages) <= reader.limit
        BY <1>4, <2>1, <2>2, <2>3
    <2>5. Began("open", Stat(entry))
        BY <1>1, <2>2, <2>4, BeforeBegins
    <2>6. reader'.pc = "open" /\ reader'.before = Stat(entry)
        BY <1>1, <2>5, BeganTurns
    <2>7. Stat(entry)' = Stat(entry)
        BY <1>1 DEF Stat
    <2> QED
        BY <1>1, <1>3, <1>5, <2>1, <2>2, <2>6, <2>7 DEF OnCourse
<1> QED
    BY <1>1, <1>3, <1>4, <1>5, <1>6 DEF ReadSucceeds

\* The later steps of the reader, one at a time: none of them can fail.
LEMMA StaysOnCourse ==
    ASSUME StoreInv, ReaderIsOrderly, OnCourse, reader.found \in Writers,
           writer[reader.found].pc = "saved",
           Open \/ Opened \/ Read \/ Probe \/ After \/ Decode
    PROVE  OnCourse'
<1> DEFINE w == reader.found
<1>1. /\ TypeOK /\ UNCHANGED <<entry, files, writer, spoiled>> /\ reader.pages \in Seq(Pages)
      /\ reader.before.size \in Nat
    BY ReaderIsTyped DEF Open, Opened, Read, Probe, After, Decode, OfReader, StoreInv
<1>2. /\ entry = writer[w].inode /\ entry \in Inodes /\ entry \notin spoiled /\ Stat(entry) = reader.before
      /\ reader.kind = "record"
      /\ reader.pc \in {"opened", "read", "after", "path"} => reader.inode = entry
    BY DEF OnCourse
<1>3. Stat(entry)' = Stat(entry) /\ entry # None /\ entry # Link
    BY <1>1, <1>2, RecordStoreAssumption DEF Stat
<1>4. reader.before.size = Len(files[entry].pages) /\ Len(files[entry].pages) \in Nat
      /\ files[entry].pages \in Seq(Pages)
    BY <1>1, <1>2, StatIsTyped, ReaderIsTyped
<1>5. ASSUME NEW pc \in {"read", "after", "path"}, ReaderTo(pc), reader.inode = entry
      PROVE  OnCourse'
    <2>1. /\ reader'.pc = pc /\ reader'.kind = "record" /\ reader'.before = reader.before
          /\ reader'.inode = entry /\ reader'.found = w
        BY <1>1, <1>2, <1>5, ReaderTurns
    <2> QED
        BY <1>1, <1>2, <1>3, <1>5, <2>1 DEF OnCourse
<1>6. CASE Open
    <2>1. reader' = [reader EXCEPT !.pc = "opened", !.inode = entry]
        BY <1>2, <1>6 DEF Open
    <2>2. /\ reader'.pc = "opened" /\ reader'.kind = "record" /\ reader'.before = reader.before
          /\ reader'.inode = entry /\ reader'.found = w
        BY <1>1, <1>2, <2>1 DEF TypeOK, ReaderRecords
    <2> QED
        BY <1>1, <1>2, <1>3, <2>2 DEF OnCourse
<1>7. CASE Opened
    BY <1>2, <1>5, <1>7 DEF Opened
<1>8. CASE Read
    <2>1. reader.inode = entry /\ reader.pc = "read" /\ Len(reader.pages) + 1 <= Len(files[entry].pages)
        BY <1>1, <1>2, <1>4, <1>8 DEF Read
    <2>2. reader' = [reader EXCEPT !.pages = Append(@, files[entry].pages[Len(reader.pages) + 1])]
        BY <1>8, <2>1 DEF Read
    <2>3. /\ reader'.pc = "read" /\ reader'.kind = "record" /\ reader'.before = reader.before
          /\ reader'.inode = entry /\ reader'.found = w
        BY <1>1, <1>2, <2>1, <2>2 DEF TypeOK, ReaderRecords
    <2> QED
        BY <1>1, <1>2, <1>3, <2>3 DEF OnCourse
<1>9. CASE Probe
    <2>1. reader.inode = entry /\ Len(reader.pages) = Len(files[entry].pages)
        BY <1>2, <1>4, <1>9 DEF Probe
    <2>2. ReaderTo("after")
        BY <1>4, <1>9, <2>1 DEF Probe
    <2> QED
        BY <1>5, <2>1, <2>2
<1>10. CASE After
    BY <1>2, <1>5, <1>10 DEF After
<1>11. CASE Decode
    <2>1. reader.pc = "path" /\ reader.inode = entry
        BY <1>2, <1>11 DEF Decode
    <2>2. reader.pages = files[entry].pages
        <3>1. Same(entry)
            BY <1>1, <1>2, StatIsTyped DEF Same
        <3>2. Prefix(reader.pages, files[entry].pages) /\ Len(reader.pages) = Len(files[entry].pages)
            BY <2>1, <3>1 DEF ReaderIsOrderly
        <3> QED
            BY <1>1, <1>4, <3>2, WholePrefix
    <2>3. /\ writer[w].members \in Records /\ files[entry].pages = Image(writer[w].members)
          /\ Len(files[entry].pages) = Size
        BY <1>2, SavedIsImage
    <2>4. Decodes(reader.pages) /\ Decoded(reader.pages) = writer[w].members
        BY <1>4, <2>2, <2>3, ImageIsDecoded
    <2>5. ReaderTo("returned")
        BY <1>2, <1>3, <1>11, <2>4 DEF Decode
    <2>6. /\ reader'.pc = "returned" /\ reader'.kind = "record" /\ reader'.before = reader.before
          /\ reader'.pages = reader.pages /\ reader'.found = w
        BY <1>1, <1>2, <2>5, ReaderTurns
    <2> QED
        BY <1>1, <1>2, <1>3, <2>4, <2>6 DEF OnCourse
<1> QED
    BY <1>6, <1>7, <1>8, <1>9, <1>10, <1>11

\* What the reader's own steps after the first leave alone.
LEMMA ReaderKeepsItsStart ==
    ASSUME TypeOK, ReaderStep, ~Before
    PROVE  /\ reader'.found = reader.found /\ reader'.from = reader.from
           /\ reader'.limit = reader.limit /\ reader'.pc # "start"
<1>1. ASSUME NEW pc \in ReaderPCs \ {"start"}, ReaderTo(pc)
      PROVE  /\ reader'.found = reader.found /\ reader'.from = reader.from
             /\ reader'.limit = reader.limit /\ reader'.pc # "start"
    BY <1>1, ReaderTurns
<1>2. reader \in ReaderRecords
    BY DEF TypeOK
<1>3. CASE Open
    BY <1>2, <1>3 DEF Open, ReaderRecords
<1>4. CASE OpenInput
    <2>1. CASE reader' = [reader EXCEPT !.pc = "opened", !.inode = entry]
        BY <1>2, <2>1 DEF ReaderRecords
    <2> QED
        BY <1>1, <1>4, <2>1 DEF OpenInput, ReaderPCs
<1>5. CASE StatInput
    BY <1>2, <1>5 DEF StatInput, ReaderRecords
<1>6. CASE Read \/ ReadInput
    <2>1. reader.pc = "read"
        BY <1>6 DEF Read, ReadInput
    <2>2. \/ \E pages : reader' = [reader EXCEPT !.pages = pages]
          \/ \E pc \in ReaderPCs \ {"start"} : ReaderTo(pc)
        <3>1. CASE Read
            BY <3>1 DEF Read, ReaderPCs
        <3>2. CASE ReadInput
            BY <3>2 DEF ReadInput, ReaderPCs
        <3> QED
            BY <1>6, <3>1, <3>2
    <2>3. CASE \E pages : reader' = [reader EXCEPT !.pages = pages]
        BY <1>2, <2>1, <2>3 DEF ReaderRecords
    <2> QED
        BY <1>1, <2>2, <2>3
<1>7. CASE Opened \/ Probe \/ After \/ AfterInput \/ FailRead
    <2>1. \E pc \in ReaderPCs \ {"start"} : ReaderTo(pc)
        BY <1>7 DEF Opened, Probe, After, AfterInput, FailRead, ReaderPCs
    <2> QED
        BY <1>1, <2>1
<1>8. CASE Decode
    <2>1. \E pc \in ReaderPCs \ {"start"} : ReaderTo(pc)
        BY <1>8 DEF Decode, TypeOK, ReaderPCs
    <2> QED
        BY <1>1, <2>1
<1> QED
    BY <1>3, <1>4, <1>5, <1>6, <1>7, <1>8 DEF ReaderStep

LEMMA ReadSucceedsStays ==
    ASSUME StoreInv, ReaderIsOrderly, ReadSucceeds, [Next]_vars
    PROVE  ReadSucceeds'
<1> DEFINE w == reader.found
<1>1. /\ TypeOK /\ reader.found \in Writers \cup {None} /\ reader.from \in Nat
      /\ meddles \in Nat /\ faults \in Nat /\ outages \in Nat
    BY DEF StoreInv, TypeOK, ReaderRecords
<1>2. CASE WriterStep \/ OtherStep \/ UNCHANGED vars
    BY <1>2, ReadSucceedsMeanwhile
<1>3. CASE Before
    BY <1>3, SucceedsUnderBefore
<1>4. CASE ReaderStep /\ ~Before
    <2>1. UNCHANGED <<entry, files, writer, spoiled, meddles, outages>>
        BY <1>4 DEF ReaderStep, Before, Open, Opened, Read, Probe, After, Decode, FailRead,
                    OpenInput, StatInput, ReadInput, AfterInput, OfReader
    <2>2. /\ reader'.found = w /\ reader'.from = reader.from /\ reader'.limit = reader.limit
          /\ reader'.pc # "start"
        BY <1>1, <1>4, ReaderKeepsItsStart
    <2>3. faults' = faults \/ (FailRead /\ faults' = faults + 1)
        BY <1>4 DEF ReaderStep, Before, Open, Opened, Read, Probe, After, Decode, FailRead,
                    OpenInput, StatInput, ReadInput, AfterInput
    <2>4. /\ reader.from <= Incidents'
          /\ Incidents' = reader.from => Incidents = reader.from /\ ~(FailRead /\ faults' = faults + 1)
        BY <1>1, <2>1, <2>3 DEF ReadSucceeds, Incidents
    <2>5. ASSUME Undisturbed'
          PROVE  OnCourse'
        <3>1. Undisturbed /\ faults' = faults
            BY <2>1, <2>2, <2>3, <2>4, <2>5 DEF Undisturbed
        <3>2. OnCourse /\ w \in Writers /\ writer[w].pc = "saved"
            BY <1>1, <3>1 DEF ReadSucceeds, Undisturbed
        <3>3. ~FailRead
            BY <1>1, <3>1 DEF FailRead
        <3>4. reader.kind = "record"
            BY <3>2 DEF OnCourse
        <3>5. Open \/ Opened \/ Read \/ Probe \/ After \/ Decode
            BY <1>4, <3>3, <3>4 DEF ReaderStep, OpenInput, StatInput, ReadInput, AfterInput
        <3> QED
            BY <3>2, <3>5, StaysOnCourse
    <2> QED
        BY <2>1, <2>2, <2>4, <2>5 DEF ReadSucceeds
<1> QED
    BY <1>2, <1>3, <1>4, StepsByActor

-----------------------------------------------------------------------------
\* The invariant

Inv == StoreInv /\ ReaderInv

LEMMA ReaderInitially == Init => ReaderInv
<1> SUFFICES ASSUME Init PROVE ReaderInv
    OBVIOUS
<1>1. /\ reader.pc = "start" /\ reader.pages = <<>> /\ reader.inode = None /\ reader.found = None
      /\ reader.from = 0 /\ meddles = 0 /\ faults = 0 /\ outages = 0
    BY DEF Init
<1>2. ReaderIsOrderly
    BY <1>1 DEF ReaderIsOrderly
<1>3. ReadFromWriter
    BY <1>1 DEF ReadFromWriter
<1>4. ReadSucceeds
    BY <1>1 DEF ReadSucceeds, Undisturbed, Incidents
<1> QED
    BY <1>2, <1>3, <1>4 DEF ReaderInv

LEMMA InvAlways == Spec => []Inv
<1>1. Init => Inv
    BY StoreInitially, ReaderInitially DEF Inv
<1>2. Inv /\ [Next]_vars => Inv'
    BY StoreStays, OrderlyStays, ReadFromWriterStays, ReadSucceedsStays DEF Inv, StoreInv, ReaderInv
<1> QED
    BY <1>1, <1>2, PTL DEF Spec

-----------------------------------------------------------------------------
\* The theorems

\* Whatever the number of writers, readers' limits and failed calls, as long as no other
\* program touches the path and the power stays, the path names the file of every writer
\* that returned (write_record, O_CREAT with O_EXCL).
THEOREM SavedRecordsStay == Spec => []SavedRecordStays
<1>1. Inv => SavedRecordStays
    BY DEF Inv, StoreInv, WriterIsOrderly, PathIsOurs, SavedRecordStays
<1> QED
    BY <1>1, InvAlways, PTL

\* So two writers of the same path never both return, members equal or not.
THEOREM OnlyOneWriterReturns ==
    Spec => [](meddles = 0 /\ outages = 0 =>
                   \A v, w \in Writers : writer[v].pc = "saved" /\ writer[w].pc = "saved" => v = w)
<1>1. Inv => (meddles = 0 /\ outages = 0 =>
                   \A v, w \in Writers : writer[v].pc = "saved" /\ writer[w].pc = "saved" => v = w)
    BY DEF Inv, StoreInv, WriterIsOrderly, InodesAreOwn, PathIsOurs
<1> QED
    BY <1>1, InvAlways, PTL

\* The file of a writer that returned holds its image, whatever other writers, failures and
\* power losses do, unless another program writes to that file (write_record, fsync before
\* the return).
THEOREM SavedRecordsAreDurable == Spec => []SavedRecordIsDurable
<1>1. Inv => SavedRecordIsDurable
    BY SavedIsImage DEF Inv, SavedRecordIsDurable
<1> QED
    BY <1>1, InvAlways, PTL

\* The members a record read returns were together at the path, and the bytes an input read
\* returns together in the file, at one moment of the read, whatever other programs do
\* between its calls (_snapshot, read_regular_file_snapshot).
THEOREM ReadsAreOneMoment == Spec => []ReadIsOneMoment
<1>1. Inv => ReadIsOneMoment
    BY DEF Inv, ReaderInv, ReaderIsOrderly, ReadIsOneMoment
<1> QED
    BY <1>1, InvAlways, PTL

\* A record saved under a limit is read back under it, when nothing happens meanwhile: none
\* of the checks of the reader refuses what the writer wrote (write_record, read_record).
THEOREM SavedRecordsAreReadable == Spec => []SavedRecordIsReadable
<1>1. Inv => SavedRecordIsReadable
    <2> SUFFICES ASSUME Inv, reader.found # None, ~Running(reader.pc), Incidents = reader.from,
                        reader.limit >= writer[reader.found].limit
                 PROVE  reader.pc = "returned" /\ Decoded(reader.pages) = writer[reader.found].members
        BY DEF SavedRecordIsReadable
    <2>1. TypeOK /\ reader.found \in Writers
        BY DEF Inv, StoreInv, TypeOK, ReaderRecords
    <2>2. writer[reader.found].limit \in Nat /\ reader.limit \in Nat
        BY <2>1, WriterIsTyped, ReaderIsTyped
    <2>3. OnCourse
        BY <2>2 DEF Inv, ReaderInv, ReadSucceeds, Undisturbed
    <2> QED
        BY <2>3 DEF OnCourse, Running
<1> QED
    BY <1>1, InvAlways, PTL

\* Whatever failed writes and power losses leave at the path, a read returns only a record
\* that a writer had written to its end, while nobody meddles (write_record, _read_members).
THEOREM PartialRecordsAreRefused == Spec => []PartialRecordIsRefused
<1>1. Inv => PartialRecordIsRefused
    <2> SUFFICES ASSUME Inv, reader.pc = "returned", meddles = 0
                 PROVE  \E w \in Writers : writer[w].sent = Size /\ writer[w].members = Decoded(reader.pages)
        BY DEF PartialRecordIsRefused
    <2> DEFINE pages == reader.pages
    <2>1. TypeOK /\ pages \in Seq(Pages) /\ Len(pages) \in Nat /\ Decodes(pages)
        BY ReaderIsTyped DEF Inv, StoreInv, ReaderInv, ReaderIsOrderly
    <2>2. reader.inode \in Inodes /\ reader.inode # None
        BY RecordStoreAssumption DEF Inv, ReaderInv, ReaderIsOrderly
    <2>3. files[reader.inode].version > 0
        BY <2>2 DEF Inv, ReaderInv, ReadFromWriter
    <2>4. PICK w \in Writers : writer[w].inode = reader.inode
        BY <2>2, <2>3 DEF Inv, StoreInv, PathIsOurs
    <2>5. LeftBy(w, pages)
        BY <2>2, <2>4 DEF Inv, ReaderInv, ReadFromWriter
    <2>6. writer[w].members \in Records /\ writer[w].sent <= Size /\ writer[w].sent \in Nat
        BY <2>1, <2>2, <2>4, WriterIsTyped DEF Inv, StoreInv, WriterIsOrderly
    <2>7. Len(pages) = Size /\ Size \in Nat /\ Size > 0
        BY <2>1, RecordStoreAssumption DEF Decodes, Size
    <2>8. writer[w].sent = Size
        BY <2>5, <2>6, <2>7 DEF LeftBy
    <2>9. ASSUME NEW k \in 1 .. Len(pages) PROVE pages[k] # Garbage
        <3>1. CASE k = 1
            BY <2>1, <3>1, RecordStoreAssumption DEF Decodes
        <3>2. CASE k \in 2 .. Size
            BY <2>1, <3>2, RecordStoreAssumption DEF Decodes
        <3> QED
            BY <2>7, <3>1, <3>2
    <2>10. \A k \in 1 .. Len(pages) : pages[k] = Image(writer[w].members)[k]
        BY <2>5, <2>9 DEF LeftBy
    <2> HIDE DEF pages
    <2>11. Decoded(pages) = writer[w].members
        BY <2>1, <2>6, <2>7, <2>10, ImageIsDecoded
    <2> QED
        BY <2>8, <2>11 DEF pages
<1> QED
    BY <1>1, InvAlways, PTL

-----------------------------------------------------------------------------
\* The register

\* While nobody else touches the path, a file that is being written is the one at the path.
WritingIsHere ==
    meddles = 0 => \A w \in Writers : writer[w].pc = "write" => entry = writer[w].inode

LEMMA WritingStaysHere ==
    ASSUME StoreInv, WritingIsHere, [Next]_vars
    PROVE  WritingIsHere'
<1>1. TypeOK /\ meddles \in Nat
    BY DEF StoreInv, TypeOK
<1>2. ASSUME NEW w \in Writers, BuildImage(w) \/ Sync(w) \/ FailWrite(w) \/ (Create(w) /\ entry # None)
      PROVE  WritingIsHere'
    <2>1. UNCHANGED <<entry, meddles>>
        BY <1>2 DEF BuildImage, Sync, FailWrite, Create, OfWriter
    <2>2. PICK pc : WriterTo(w, pc) /\ pc # "write"
        <3>1. Refusal(writer[w].members, writer[w].limit) # "write"
            BY DEF Refusal
        <3> QED
            BY <1>2, <3>1 DEF BuildImage, Sync, FailWrite, Create
    <2>3. \A v \in Writers :
            /\ writer'[v].inode = writer[v].inode
            /\ writer'[v].pc = "write" => writer[v].pc = "write"
        BY <1>1, <2>2, PcOnly
    <2> QED
        BY <2>1, <2>3 DEF WritingIsHere
<1>3. ASSUME NEW w \in Writers, Create(w), entry = None
      PROVE  WritingIsHere'
    <2>1. /\ writer' = [writer EXCEPT ![w].pc = "write", ![w].inode = NewInode]
          /\ entry' = NewInode /\ meddles' = meddles
        BY <1>3 DEF Create, OfWriter
    <2>2. writer'[w].inode = NewInode /\ \A v \in Writers : v # w => writer'[v] = writer[v]
        BY <1>1, <2>1 DEF TypeOK, WriterRecords
    <2>3. \A v \in Writers : writer[v].pc = "write" => writer[v].inode # None
        BY DEF StoreInv, WriterIsOrderly
    <2> QED
        BY <1>3, <2>1, <2>2, <2>3 DEF WritingIsHere
<1>4. ASSUME NEW w \in Writers, Write(w)
      PROVE  WritingIsHere'
    <2>1. writer' = [writer EXCEPT ![w].sent = writer[w].sent + 1] /\ UNCHANGED <<entry, meddles>>
        BY <1>4 DEF Write, OfWriter
    <2>2. \A v \in Writers : writer'[v].inode = writer[v].inode /\ writer'[v].pc = writer[v].pc
        BY <1>1, <2>1 DEF TypeOK, WriterRecords
    <2> QED
        BY <2>1, <2>2 DEF WritingIsHere
<1>5. CASE ReaderStep \/ UNCHANGED vars
    <2>1. UNCHANGED <<entry, writer, meddles>>
        BY <1>5 DEF ReaderStep, Before, Open, Opened, Read, Probe, After, Decode, FailRead,
                    OpenInput, StatInput, ReadInput, AfterInput, OfReader, vars
    <2> QED
        BY <2>1 DEF WritingIsHere
<1>6. CASE Overwrite \/ Replace \/ Unlink
    BY <1>1, <1>6 DEF Overwrite, Replace, Unlink, Meddled, WritingIsHere
<1>7. CASE LosePower
    <2>1. \A w \in Writers : writer[w] \in WriterRecords
        BY <1>1 DEF TypeOK
    <2>2. \A w \in Writers : writer'[w].pc # "write"
        BY <1>7, <2>1 DEF LosePower, Running, WriterRecords
    <2> QED
        BY <2>2 DEF WritingIsHere
<1> QED
    BY <1>2, <1>3, <1>4, <1>5, <1>6, <1>7, StepsByActor DEF WriterStep, OtherStep

LEMMA WritingHereAlways == Spec => []WritingIsHere
<1>1. Init => WritingIsHere
    BY DEF Init, WritingIsHere
<1>2. Inv /\ WritingIsHere /\ [Next]_vars => WritingIsHere'
    BY WritingStaysHere DEF Inv
<1> QED
    BY <1>1, <1>2, InvAlways, PTL DEF Spec

\* What can be read of a file is a record.
LEMMA DecodedIsRecord ==
    ASSUME NEW pages, Decodes(pages)
    PROVE  Decoded(pages) \in Records
<1>1. Len(Names) \in Nat /\ Size = 1 + Len(Names) /\ Names \in Seq(STRING)
    BY RecordStoreAssumption DEF Size
<1>2. ASSUME NEW name \in Range(Names) PROVE Decoded(pages)[name] \in Payloads
    <2> DEFINE i == CHOOSE k \in 1 .. Len(Names) : Names[k] = name
    <2>1. i \in 1 .. Len(Names)
        BY <1>1 DEF Range
    <2>2. Decoded(pages)[name] = IF i < Len(pages) THEN pages[i + 1] ELSE Garbage
        BY DEF Decoded
    <2> HIDE DEF i
    <2>3. i < Len(pages) /\ i + 1 \in 2 .. Size
        BY <1>1, <2>1 DEF Decodes
    <2> QED
        BY <2>2, <2>3 DEF Decodes
<1>3. Decoded(pages) = [name \in Range(Names) |-> Decoded(pages)[name]]
    BY DEF Decoded
<1> QED
    BY <1>2, <1>3 DEF Records

LEMMA HeldIsAState ==
    ASSUME NEW at, NEW fs
    PROVE  Held(at, fs) \in Register!AnyState
BY DecodedIsRecord DEF Held, Register!AnyState

\* A file of another length than a record's is not read as one.
LEMMA UnfinishedIsNotHeld ==
    ASSUME NEW at, NEW fs, at \in Inodes => Len(fs[at].pages) # Size
    PROVE  Held(at, fs) = {}
BY DEF Held, Decodes

\* One with the pages of an image is read as its record.
LEMMA FinishedIsHeld ==
    ASSUME NEW record \in Records, NEW at \in Inodes, NEW fs, fs[at].pages \in Seq(Pages),
           Len(fs[at].pages) = Size,
           \A k \in 1 .. Len(fs[at].pages) : fs[at].pages[k] = Image(record)[k]
    PROVE  Held(at, fs) = {record}
<1> DEFINE pages == fs[at].pages
<1> HIDE DEF pages
<1>1. Decodes(pages) /\ Decoded(pages) = record
    BY ImageIsDecoded DEF pages
<1> QED
    BY <1>1 DEF Held, pages

\* A page that is not garbage survived as it was.
LEMMA SurvivorIsOldOrUnreadable ==
    ASSUME NEW pages \in Seq(Pages), NEW kept \in Seq(Pages), Len(pages) <= Size,
           Len(kept) <= Len(pages),
           \A k \in 1 .. Len(kept) : kept[k] \in {Garbage, pages[k]},
           Decodes(kept)
    PROVE  kept = pages
<1>1. Size \in Nat /\ Len(kept) = Size /\ Len(pages) = Size
    BY RecordStoreAssumption DEF Size, Decodes
<1>2. ASSUME NEW k \in 1 .. Len(kept) PROVE kept[k] = pages[k]
    <2>1. CASE k = 1
        <3>1. kept[1] = "v1"
            BY <1>1, <2>1 DEF Decodes
        <3> QED
            BY <2>1, <3>1, RecordStoreAssumption
    <2>2. CASE k \in 2 .. Size
        <3>1. kept[k] \in Payloads
            BY <2>2 DEF Decodes
        <3> QED
            BY <3>1, RecordStoreAssumption
    <2> QED
        BY <1>1, <2>1, <2>2
<1> QED
    BY <1>1, <1>2, WholePrefix DEF Prefix

-----------------------------------------------------------------------------
\* The steps of the store as steps of the register

LEMMA RegisterStutters ==
    ASSUME UNCHANGED <<Content, Stored, Saved, Answered, outages, meddles>>
    PROVE  UNCHANGED Register!registerVars
BY DEF Register!registerVars

LEMMA PathStays ==
    ASSUME UNCHANGED <<entry, files>>
    PROVE  Stored' = Stored
BY DEF Stored, Held

\* The content is given; who has returned stays so, and only Sync adds to them.
LEMMA WritersKeepContent ==
    ASSUME StoreInv, [Next]_vars
    PROVE  Content' = Content
<1>1. \A w \in Writers : writer'[w].members = writer[w].members
    <2>1. CASE ReaderStep
        BY <2>1 DEF ReaderStep, Before, Open, Opened, Read, Probe, After, Decode, FailRead,
                    OpenInput, StatInput, ReadInput, AfterInput, OfReader
    <2>2. CASE WriterStep \/ OtherStep \/ UNCHANGED vars
        BY <2>2, WritersGoForward
    <2> QED
        BY <2>1, <2>2, StepsByActor
<1> QED
    BY <1>1 DEF Content

LEMMA OthersKeepSaved ==
    ASSUME StoreInv, OtherStep
    PROVE  Saved' = Saved
<1>1. \A w \in Writers : writer[w] \in WriterRecords
    BY DEF StoreInv, TypeOK
<1>2. CASE LosePower
    <2>1. \A w \in Writers : writer'[w].pc = "saved" <=> writer[w].pc = "saved"
        BY <1>1, <1>2 DEF LosePower, Running, WriterRecords
    <2> QED
        BY <2>1 DEF Saved
<1>3. CASE Overwrite \/ Replace \/ Unlink
    BY <1>3 DEF Overwrite, Replace, Unlink, Meddled, Saved
<1> QED
    BY <1>2, <1>3 DEF OtherStep

LEMMA OthersKeepAnswer ==
    ASSUME StoreInv, WriterStep \/ OtherStep
    PROVE  Answered' = Answered
<1>1. reader \in ReaderRecords
    BY DEF StoreInv, TypeOK
<1>2. CASE LosePower
    <2>1. reader' = reader \/ (reader.pc # "returned" /\ reader'.pc = "OSError")
        BY <1>1, <1>2 DEF LosePower, Running, ReaderRecords
    <2> QED
        BY <2>1 DEF Answered
<1>3. CASE WriterStep \/ Overwrite \/ Replace \/ Unlink
    <2>1. UNCHANGED reader
        BY <1>3 DEF WriterStep, BuildImage, Create, Write, Sync, FailWrite, OfWriter,
                    Overwrite, Replace, Unlink, Meddled
    <2> QED
        BY <2>1 DEF Answered
<1> QED
    BY <1>2, <1>3 DEF OtherStep

\* Creation makes an empty file; refusals and failures change nothing that can be seen.
LEMMA QuietWriterStutters ==
    ASSUME StoreInv, [Next]_vars, NEW w \in Writers, BuildImage(w) \/ Create(w) \/ FailWrite(w)
    PROVE  UNCHANGED Register!registerVars
<1>1. TypeOK /\ Content' = Content /\ Answered' = Answered
    BY WritersKeepContent, OthersKeepAnswer DEF StoreInv, WriterStep
<1>2. UNCHANGED <<outages, meddles>>
    BY DEF BuildImage, Create, FailWrite, OfWriter
<1>3. CASE Create(w) /\ entry = None
    <2>1. /\ NewInode \in Inodes /\ entry' = NewInode /\ writer[w].pc = "open"
          /\ files' = [files EXCEPT ![NewInode] = Modified(NewInode, <<>>)]
          /\ writer' = [writer EXCEPT ![w].pc = "write", ![w].inode = NewInode]
        BY <1>3, NewInodeIsFree DEF Create
    <2>2. files'[entry'].pages = <<>>
        BY <1>1, <2>1 DEF TypeOK, Modified
    <2>3. Size \in Nat /\ Size # 0 /\ Len(<<>>) = 0 /\ entry \notin Inodes
        BY <1>3, RecordStoreAssumption DEF Size
    <2>4. Stored = {} /\ Stored' = {}
        BY <2>1, <2>2, <2>3, UnfinishedIsNotHeld DEF Stored
    <2>5. \A v \in Writers : writer'[v].pc = "saved" <=> writer[v].pc = "saved"
        BY <1>1, <2>1 DEF TypeOK, WriterRecords
    <2> QED
        BY <1>1, <1>2, <2>4, <2>5, RegisterStutters DEF Saved
<1>4. CASE BuildImage(w) \/ FailWrite(w) \/ (Create(w) /\ entry # None)
    <2>1. UNCHANGED <<entry, files>> /\ writer[w].pc # "saved"
        BY <1>4 DEF BuildImage, Create, FailWrite
    <2>2. PICK pc : WriterTo(w, pc) /\ pc # "saved"
        <3>1. Refusal(writer[w].members, writer[w].limit) # "saved"
            BY DEF Refusal
        <3> QED
            BY <1>4, <3>1 DEF BuildImage, Create, FailWrite
    <2>3. \A v \in Writers : writer'[v].pc = "saved" <=> writer[v].pc = "saved"
        BY <1>1, <2>1, <2>2, PcOnly
    <2> QED
        BY <1>1, <1>2, <2>1, <2>3, PathStays, RegisterStutters DEF Saved
<1> QED
    BY <1>3, <1>4

\* The last page makes a file a record; the pages before it do not.
LEMMA WriteStores ==
    ASSUME StoreInv, StoreInv', WritingIsHere, [Next]_vars, NEW w \in Writers, Write(w)
    PROVE  Register!Store(w) \/ Register!Meddle \/ UNCHANGED Register!registerVars
<1> DEFINE i == writer[w].inode
<1>1. TypeOK /\ TypeOK' /\ Content' = Content /\ Answered' = Answered
    BY WritersKeepContent, OthersKeepAnswer DEF StoreInv, WriterStep
<1>2. UNCHANGED <<entry, outages, meddles, spoiled>> /\ writer[w].pc = "write"
    BY DEF Write, OfWriter
<1>3. /\ i \in Inodes /\ i # None /\ writer[w].members \in Records
      /\ \A j \in Inodes : j # i => files'[j] = files[j]
    <2>1. WriterIsOrderly(w)
        BY DEF StoreInv
    <2>2. i # None /\ writer[w].members \in Records
        BY <1>2, <2>1 DEF WriterIsOrderly
    <2>3. i \in Inodes
        BY <1>1, <2>2, WriterIsTyped
    <2> QED
        BY <1>1, <2>2, <2>3 DEF Write, TypeOK
<1>4. /\ writer'[w].sent = writer[w].sent + 1 /\ writer'[w].inode = i /\ writer'[w].pc = "write"
      /\ writer'[w].members = writer[w].members
      /\ \A v \in Writers : writer'[v].pc = writer[v].pc
    <2>1. writer' = [writer EXCEPT ![w].sent = writer[w].sent + 1]
        BY DEF Write
    <2> QED
        BY <1>1, <1>2, <2>1 DEF TypeOK, WriterRecords
<1>5. Saved' = Saved /\ w \notin Saved
    BY <1>2, <1>4 DEF Saved
<1>6. CASE entry # i
    <2>1. Stored' = Stored
        BY <1>2, <1>3, <1>6 DEF Stored, Held
    <2> QED
        BY <1>1, <1>2, <1>5, <2>1, RegisterStutters
<1>7. CASE meddles # 0
    <2>1. meddles > 0 /\ meddles' = meddles /\ outages' = outages
        BY <1>1, <1>2, <1>7 DEF TypeOK
    <2>2. Stored' \in Register!AnyState
        BY HeldIsAState DEF Stored, Register!AnyState
    <2> QED
        BY <1>1, <1>5, <2>1, <2>2 DEF Register!Meddle
<1>8. CASE entry = i /\ meddles = 0
    <2>1. spoiled = {} /\ Size \in Nat
        BY <1>8, RecordStoreAssumption DEF StoreInv, PathIsOurs, Size
    <2>2. SentBy(w, files[i].pages) /\ SentBy(w, files[writer[w].inode].pages)'
        <3>1. ContentIsSent /\ ContentIsSent' /\ writer'[w].inode # None /\ i \notin spoiled
              /\ writer'[w].inode \notin spoiled'
            BY <1>2, <1>3, <1>4, <2>1 DEF StoreInv
        <3> QED
            BY <1>2, <1>3, <1>4, <3>1 DEF ContentIsSent
    <2>3. Stored = {}
        <3>1. Len(files[i].pages) # Size
            BY <1>1, <2>1, <2>2, WriterIsTyped DEF SentBy, Write
        <3> QED
            BY <1>8, <3>1, UnfinishedIsNotHeld DEF Stored
    <2>4. CASE writer'[w].sent = Size
        <3>1. Stored' = {writer[w].members}
            <4>1. /\ files'[i].pages \in Seq(Pages) /\ Len(files'[i].pages) = Size
                  /\ \A k \in 1 .. Len(files'[i].pages) : files'[i].pages[k] = Image(writer[w].members)[k]
                BY <1>1, <1>3, <1>4, <2>2, <2>4 DEF TypeOK, FileRecords, SentBy
            <4> QED
                BY <1>2, <1>3, <1>8, <4>1, FinishedIsHeld DEF Stored
        <3>2. Content[w] = writer[w].members
            BY DEF Content
        <3> QED
            BY <1>1, <1>2, <1>3, <1>4, <1>5, <2>3, <3>1, <3>2 DEF Register!Store
    <2>5. CASE writer'[w].sent # Size
        <3>1. Len(files'[i].pages) # Size
            BY <1>4, <2>2, <2>5 DEF SentBy
        <3>2. Stored' = {}
            BY <1>2, <1>8, <3>1, UnfinishedIsNotHeld DEF Stored
        <3> QED
            BY <1>1, <1>2, <1>5, <2>3, <3>2, RegisterStutters
    <2> QED
        BY <2>4, <2>5
<1> QED
    BY <1>6, <1>7, <1>8

\* A writer returns when its record is there, and with the power on it is the only one.
LEMMA SyncReturns ==
    ASSUME StoreInv, WritingIsHere, [Next]_vars, NEW w \in Writers, Sync(w)
    PROVE  Register!Return(w)
<1> DEFINE i == writer[w].inode
<1>1. TypeOK /\ Content' = Content /\ Answered' = Answered
    BY WritersKeepContent, OthersKeepAnswer DEF StoreInv, WriterStep
<1>2. /\ UNCHANGED <<entry, files, outages, meddles>> /\ WriterTo(w, "saved")
      /\ writer[w].pc = "write" /\ writer[w].sent = Size
    BY DEF Sync, OfWriter
<1>3. Stored' = Stored
    BY <1>2, PathStays
<1>4. w \notin Saved /\ Saved' = Saved \cup {w}
    <2>1. writer'[w].pc = "saved" /\ \A v \in Writers : v # w => writer'[v] = writer[v]
        BY <1>1, <1>2, PcOnly
    <2> QED
        BY <1>2, <2>1 DEF Saved
<1>5. i # None /\ i \in Inodes /\ writer[w].members \in Records /\ Content[w] = writer[w].members
    <2>1. WriterIsOrderly(w)
        BY DEF StoreInv
    <2>2. i # None /\ writer[w].members \in Records
        BY <1>2, <2>1 DEF WriterIsOrderly
    <2> QED
        BY <1>1, <2>2, WriterIsTyped DEF Content
<1>6. ASSUME meddles = 0 PROVE Stored = {writer[w].members}
    <2>1. entry = i /\ i \notin spoiled
        BY <1>2, <1>6 DEF WritingIsHere, StoreInv, PathIsOurs
    <2>2. SentBy(w, files[i].pages)
        BY <1>2, <1>5, <2>1 DEF StoreInv, ContentIsSent
    <2>3. /\ files[i].pages \in Seq(Pages) /\ Len(files[i].pages) = Size
          /\ \A k \in 1 .. Len(files[i].pages) : files[i].pages[k] = Image(writer[w].members)[k]
        BY <1>1, <1>2, <1>5, <2>2 DEF TypeOK, FileRecords, SentBy
    <2> QED
        BY <1>5, <2>1, <2>3, FinishedIsHeld DEF Stored
<1>7. ASSUME meddles = 0, outages = 0, NEW v \in Saved PROVE FALSE
    <2>1. v \in Writers /\ writer[v].pc = "saved" /\ writer[v].inode # None
        BY DEF Saved, StoreInv, WriterIsOrderly
    <2>2. entry = writer[v].inode /\ entry = i
        BY <1>5, <1>7, <2>1 DEF StoreInv, PathIsOurs
    <2>3. v = w
        BY <2>1, <2>2 DEF StoreInv, InodesAreOwn
    <2> QED
        BY <1>2, <2>1, <2>3
<1>8. meddles \in Nat /\ outages \in Nat
    BY <1>1 DEF TypeOK
<1>9. meddles > 0 \/ Stored = {Content[w]}
    BY <1>5, <1>6, <1>8
<1>10. meddles > 0 \/ outages > 0 \/ Saved = {}
    BY <1>7, <1>8
<1> HIDE DEF i
<1> QED
    BY <1>1, <1>2, <1>3, <1>4, <1>5, <1>9, <1>10 DEF Register!Return

\* The identity of the last lstat is that of the first, so what was read is at the path still.
LEMMA DecodeAnswers ==
    ASSUME StoreInv, ReaderIsOrderly, [Next]_vars, Decode, reader'.pc = "returned"
    PROVE  Register!Answer
<1>1. TypeOK /\ reader.pc = "path" /\ OfReader
    BY DEF StoreInv, Decode
<1>2. /\ entry \in Inodes /\ Stat(entry) = reader.before /\ Decodes(reader.pages)
      /\ reader'.pages = reader.pages
    <2>1. entry \in Inodes \cup {None, Link} /\ (entry \in Inodes => entry # None /\ entry # Link) /\ None # Link
        BY <1>1, RecordStoreAssumption DEF TypeOK
    <2>2. PICK pc : ReaderTo(pc)
        BY DEF Decode
    <2>3. pc = "returned" /\ reader'.pages = reader.pages
        BY <1>1, <2>2, ReaderTurns
    <2>4. CASE entry \in Inodes /\ Stat(entry) = reader.before /\ Decodes(reader.pages)
        BY <2>3, <2>4
    <2>5. ASSUME NEW other, other # "returned", ReaderTo(other) PROVE FALSE
        BY <1>1, <2>5, ReaderTurns
    <2>6. CASE entry \in Inodes /\ Stat(entry) = reader.before /\ ~Decodes(reader.pages)
        BY <2>1, <2>5, <2>6 DEF Decode
    <2>7. CASE entry \in Inodes /\ Stat(entry) # reader.before
        BY <2>1, <2>5, <2>7 DEF Decode
    <2>8. CASE entry = None
        BY <2>1, <2>5, <2>8 DEF Decode
    <2>9. CASE entry = Link
        BY <2>1, <2>5, <2>9 DEF Decode
    <2> QED
        BY <2>1, <2>4, <2>6, <2>7, <2>8, <2>9
<1>3. /\ reader.inode = reader.before.inode
      /\ Same(reader.inode) => Prefix(reader.pages, files[reader.inode].pages)
      /\ Same(reader.inode) => Len(reader.pages) = Len(files[reader.inode].pages)
    BY <1>1 DEF ReaderIsOrderly
<1>4. reader.inode = entry /\ Same(entry)
    BY <1>1, <1>2, <1>3, StatIsTyped DEF Same
<1>5. reader.pages = files[entry].pages
    BY <1>1, <1>2, <1>3, <1>4, ReaderIsTyped, WholePrefix
<1>6. Stored = {Decoded(reader.pages)}
    BY <1>2, <1>5 DEF Stored, Held
<1>7. Answered = {} /\ Answered' = {Decoded(reader.pages)}
    BY <1>1, <1>2 DEF Answered
<1>8. Content' = Content /\ Stored' = Stored /\ Saved' = Saved /\ UNCHANGED <<outages, meddles>>
    BY <1>1, PathStays DEF OfReader, Content, Saved
<1> QED
    BY <1>6, <1>7, <1>8 DEF Register!Answer

\* Any other step of a read.
LEMMA ReaderStutters ==
    ASSUME StoreInv, ReaderStep, reader'.pc # "returned"
    PROVE  UNCHANGED Register!registerVars
<1>1. UNCHANGED <<entry, files, writer, outages, meddles>> /\ reader.pc # "returned"
    BY DEF ReaderStep, Before, Open, Opened, Read, Probe, After, Decode, FailRead,
           OpenInput, StatInput, ReadInput, AfterInput, OfReader
<1>2. Answered' = Answered
    BY <1>1 DEF Answered
<1> QED
    BY <1>1, <1>2, PathStays, RegisterStutters DEF Content, Saved

\* Only Decode returns a record.
LEMMA OnlyDecodeReturns ==
    ASSUME TypeOK, ReaderStep, reader'.pc = "returned"
    PROVE  Decode
<1>1. reader \in ReaderRecords
    BY DEF TypeOK
<1>2. CASE Before
    <2>1. \A pc, stat : Began(pc, stat) => reader'.pc = pc
        BY BeganTurns
    <2> QED
        BY <1>2, <2>1, BeforeBegins DEF Gone
<1>3. CASE Open
    BY <1>1, <1>3 DEF Open, ReaderRecords
<1>4. CASE Opened \/ Probe \/ After \/ FailRead \/ AfterInput
    BY <1>4, ReaderTurns DEF Opened, Probe, After, FailRead, AfterInput
<1>5. CASE Read
    BY <1>1, <1>5, ReaderTurns DEF Read, ReaderRecords
<1>6. CASE OpenInput
    <2>1. CASE reader' = [reader EXCEPT !.pc = "opened", !.inode = entry]
        BY <1>1, <1>6, <2>1 DEF ReaderRecords
    <2>2. CASE \E pc \in Gone : ReaderTo(pc)
        BY <2>2, ReaderTurns DEF Gone
    <2> QED
        BY <1>6, <2>1, <2>2 DEF OpenInput, Gone
<1>7. CASE StatInput
    BY <1>1, <1>7 DEF StatInput, ReaderRecords
<1>8. CASE ReadInput
    BY <1>1, <1>8, ReaderTurns DEF ReadInput, ReaderRecords
<1> QED
    BY <1>2, <1>3, <1>4, <1>5, <1>6, <1>7, <1>8 DEF ReaderStep

\* Other programs do as they like.
LEMMA MeddlingMeddles ==
    ASSUME StoreInv, [Next]_vars, Overwrite \/ Replace \/ Unlink
    PROVE  Register!Meddle
<1>1. meddles' > 0 /\ outages' = outages
    BY DEF StoreInv, TypeOK, Overwrite, Replace, Unlink, Meddled
<1>2. Stored' \in Register!AnyState
    BY HeldIsAState DEF Stored, Register!AnyState
<1> QED
    BY <1>1, <1>2, WritersKeepContent, OthersKeepSaved, OthersKeepAnswer DEF OtherStep, Register!Meddle

\* A power loss leaves the record as it was or nothing that is read as one.
LEMMA PowerLossEmpties ==
    ASSUME StoreInv, [Next]_vars, LosePower
    PROVE  Register!LosePower
<1>1. TypeOK /\ outages' > 0 /\ meddles' = meddles
    BY DEF StoreInv, TypeOK, LosePower
<1>2. Stored' \in Register!AnyState
    BY HeldIsAState DEF Stored, Register!AnyState
<1>3. ASSUME meddles = 0 PROVE Stored' \in {Stored, {}}
    <2>1. CASE entry' = None
        BY <2>1, RecordStoreAssumption DEF Stored, Held
    <2>2. CASE entry \in Inodes /\ UNCHANGED entry
        <3>1. PICK kept \in Survivors(entry) :
                files' = [files EXCEPT ![entry] = IF kept = @.pages THEN @ ELSE Modified(entry, kept)]
            BY <2>2, RecordStoreAssumption DEF LosePower
        <3>2. files'[entry].pages = kept
            BY <1>1, <2>2, <3>1 DEF TypeOK, Modified
        <3>3. Len(files[entry].pages) <= Size
            <4>1. PICK w \in Writers : writer[w].inode = entry
                BY <1>3, <2>2 DEF StoreInv, PathIsOurs
            <4>2. LeftBy(w, files[entry].pages) /\ writer[w].sent <= Size
                BY <1>3, <2>2, <4>1, RecordStoreAssumption DEF StoreInv, PathIsOurs, ContentIsSent, WriterIsOrderly
            <4>3. Len(files[entry].pages) \in Nat /\ writer[w].sent \in Nat /\ Size \in Nat
                BY <1>1, <2>2, ReaderIsTyped, WriterIsTyped, RecordStoreAssumption DEF Size
            <4> QED
                BY <4>2, <4>3 DEF LeftBy
        <3>4. Decodes(kept) => kept = files[entry].pages
            BY <1>1, <2>2, <3>3, ReaderIsTyped, SurvivorsArePages, SurvivorIsOldOrUnreadable
        <3> QED
            BY <2>2, <3>2, <3>4 DEF Stored, Held
    <2> QED
        BY <2>1, <2>2 DEF LosePower
<1>4. meddles > 0 \/ Stored' \in {Stored, {}}
    BY <1>1, <1>3 DEF TypeOK
<1> QED
    BY <1>1, <1>2, <1>4, WritersKeepContent, OthersKeepSaved, OthersKeepAnswer
       DEF OtherStep, Register!LosePower

LEMMA StepsAreRegisterSteps ==
    ASSUME Inv, Inv', WritingIsHere, [Next]_vars
    PROVE  [Register!Next]_Register!registerVars
<1>1. StoreInv /\ StoreInv' /\ TypeOK /\ ReaderIsOrderly
    BY DEF Inv, StoreInv, ReaderInv
<1>2. CASE WriterStep
    <2> PICK w \in Writers : BuildImage(w) \/ Create(w) \/ Write(w) \/ Sync(w) \/ FailWrite(w)
        BY <1>2 DEF WriterStep
    <2>1. CASE BuildImage(w) \/ Create(w) \/ FailWrite(w)
        BY <1>1, <2>1, QuietWriterStutters
    <2>2. CASE Write(w)
        BY <1>1, <2>2, WriteStores DEF Register!Next
    <2>3. CASE Sync(w)
        BY <1>1, <2>3, SyncReturns DEF Register!Next
    <2> QED
        BY <2>1, <2>2, <2>3
<1>3. CASE ReaderStep
    <2>1. CASE reader'.pc = "returned"
        BY <1>1, <1>3, <2>1, OnlyDecodeReturns, DecodeAnswers DEF Register!Next
    <2>2. CASE reader'.pc # "returned"
        BY <1>1, <1>3, <2>2, ReaderStutters
    <2> QED
        BY <2>1, <2>2
<1>4. CASE OtherStep
    BY <1>1, <1>4, MeddlingMeddles, PowerLossEmpties DEF OtherStep, Register!Next
<1>5. CASE UNCHANGED vars
    <2>1. UNCHANGED <<entry, files, writer, reader, outages, meddles>>
        BY <1>5 DEF vars
    <2> QED
        BY <2>1, PathStays, RegisterStutters DEF Content, Saved, Answered
<1> QED
    BY <1>2, <1>3, <1>4, <1>5, StepsByActor

\* The files of the workflow are a register that is written once, for any number of writers,
\* inodes, members and incidents: whole or empty at every moment, the record of the one
\* writer that returned, read as it is when the read ends, emptied by a power loss at most
\* (write_record, read_record).
THEOREM StoreImplementsRegister == Spec => ImplementsRegister
<1>1. Init => Register!Init
    <2> SUFFICES ASSUME Init PROVE Register!Init
        OBVIOUS
    <2>1. Stored = {}
        BY RecordStoreAssumption DEF Init, Stored, Held
    <2>2. PICK call \in Calls :
            /\ writer = [w \in Writers |->
                    [pc |-> "start", members |-> call.writer[w].members,
                     limit |-> call.writer[w].limit, inode |-> None, sent |-> 0]]
            /\ reader.pc = "start"
        BY DEF Init
    <2>3. Saved = {} /\ Answered = {}
        BY <2>2 DEF Saved, Answered
    <2>4. Content \in [Writers -> CalledWith]
        BY <2>2 DEF Content, CalledWith
    <2>5. ~(outages > 0) /\ ~(meddles > 0)
        BY DEF Init
    <2> QED
        BY <2>1, <2>3, <2>4, <2>5 DEF Register!Init
<1>2. Spec => Register!Init /\ [][Register!Next]_Register!registerVars
    BY <1>1, InvAlways, WritingHereAlways, StepsAreRegisterSteps, PTL DEF Spec
<1> QED
    BY <1>2 DEF ImplementsRegister, Register!Spec
=============================================================================
