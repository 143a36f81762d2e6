---------------------------- MODULE RecordStore ----------------------------
(***************************************************************************)
(* The files of the workflow: exclusive writers and the snapshot reader of *)
(* a terminal record (workflow_store.py), the snapshot reader of a         *)
(* configuration or an input (input_resources.py), and the rest of the     *)
(* machine.                                                                *)
(*                                                                         *)
(* One path.  A file is a sequence of pages: a header page and a page for  *)
(* each member.  A modification gives a file a new version, standing for   *)
(* its times; an inode is never used twice.                                *)
(***************************************************************************)
EXTENDS Naturals, FiniteSets, SequencesExt

CONSTANTS
    Writers,    \* calls of write_record
    Inodes,     \* inodes of the file system
    Names,      \* the member names in sorted order
    Payloads,   \* nonempty payloads of one page
    Garbage,    \* a page with neither a header nor a row whose digest matches
    None, Link, \* nothing at the path; a symbolic link or other nonregular item
    Calls,      \* members and max_bytes of each writer, kind and limit of the reader, in pages
    MaxIncidents \* bound on steps of other programs, failed calls and power losses together

Records == [Range(Names) -> Payloads]

Size == 1 + Len(Names)

ASSUME RecordStoreAssumption ==
    /\ Names \in Seq(STRING) /\ IsInjective(Names) /\ Names # <<>>
    /\ None \notin Inodes \cup Writers /\ Link \notin Inodes /\ None # Link
    /\ Garbage \notin Payloads \cup {"v1", "v2"}
    /\ \A call \in Calls : \A w \in Writers : call.writer[w].limit \in Nat
    /\ \A call \in Calls : call.kind \in {"record", "input"} /\ call.reader \in Nat
    /\ MaxIncidents \in Nat

VARIABLES
    entry,   \* what the path names: an inode, None or Link
    files,   \* pages and version of each inode; version 0 is a free inode
    synced,  \* inodes whose pages are on the device
    writer,  \* pc, members, limit, inode and pages written of each writer
    reader,  \* one call of read_record, or of read_regular_file_snapshot
    meddles, \* steps of other programs at the path
    faults,  \* failed system calls and killed calls
    outages, \* power losses
    moment,  \* history: the records the path, or the contents the opened file, has held
             \*          since the read began
    spoiled  \* history: inodes other programs wrote to

vars == <<entry, files, synced, writer, reader, meddles, faults, outages, moment, spoiled>>

-----------------------------------------------------------------------------
\* The image of a record

Image(record) == <<"v1">> \o [i \in 1 .. Len(Names) |-> record[Names[i]]]

\* _read_members: version, exact schema, length of whole pages, the four names and digests.
Decodes(pages) ==
    /\ Len(pages) = Size
    /\ Head(pages) = "v1"
    /\ \A i \in 2 .. Size : pages[i] \in Payloads

Decoded(pages) ==
    [name \in Range(Names) |-> LET i == CHOOSE k \in 1 .. Len(Names) : Names[k] = name
                               IN  IF i < Len(pages) THEN pages[i + 1] ELSE Garbage]

\* The record at a path that names an inode, if it holds one.
Held(at, fs) == IF at \in Inodes /\ Decodes(fs[at].pages) THEN {Decoded(fs[at].pages)} ELSE {}

\* Mutant of Stat: the times are left out.
StatWithoutTimes(i) == [inode |-> i, size |-> Len(files[i].pages), version |-> 1]

\* _identity: device and inode, size, times.
Stat(i) == [inode |-> i, size |-> Len(files[i].pages), version |-> files[i].version]

Modified(i, pages) == [pages |-> pages, version |-> files[i].version + 1]

\* A write at an offset; a gap that another program's truncation left reads as zeros.
Put(pages, k, page) ==
    [j \in 1 .. (IF k > Len(pages) THEN k ELSE Len(pages)) |->
        CASE j = k -> page [] j # k /\ j <= Len(pages) -> pages[j] [] OTHER -> Garbage]

NoFile == [pages |-> <<>>, version |-> 0]

\* The inodes that no file has had; a file system never runs out of them here.
FreeInodes == {i \in Inodes : files[i].version = 0}

NewInode == CHOOSE i \in FreeInodes : TRUE

\* What happened beside the calls of this code.
Incidents == meddles + faults + outages

NoStat == [inode |-> None, size |-> 0, version |-> 0]

Init ==
    /\ entry \in {None, Link}
    /\ files = [i \in Inodes |-> NoFile]
    /\ synced = {} /\ spoiled = {} /\ moment = {}
    /\ meddles = 0 /\ faults = 0 /\ outages = 0
    /\ \E call \in Calls :
        /\ writer = [w \in Writers |->
                [pc |-> "start", members |-> call.writer[w].members,
                 limit |-> call.writer[w].limit, inode |-> None, sent |-> 0]]
        /\ reader = [pc |-> "start", kind |-> call.kind, limit |-> call.reader, before |-> NoStat, inode |-> None,
                     pages |-> <<>>, found |-> None, from |-> 0]

\* The history variable follows what a read could have seen.
Running(pc) == pc \in {"open", "write", "opened", "read", "after", "path"}

Seen(at, fs) ==
    CASE reader.kind = "record" -> Held(at, fs)
      [] reader.kind = "input" -> {fs[reader.inode].pages}

Witness == moment' = IF Running(reader.pc) THEN moment \cup Seen(entry', files') ELSE moment

-----------------------------------------------------------------------------
\* write_record

WriterTo(w, pc) == writer' = [writer EXCEPT ![w].pc = pc]

OfWriter == UNCHANGED <<reader, meddles, outages, spoiled>>

\* Mutant of Refusal: the image is not compared with the limit.
RefusalOfPayload(members, limit) ==
    CASE limit = 0 -> "INVALID_LIMIT"
      [] limit > 0 /\ members \notin Records -> "INVALID_MEMBERS"
      [] limit > 0 /\ members \in Records /\ Len(Names) > limit -> "LIMIT_EXCEEDED"
      [] OTHER -> "open"

\* The checks made before the file system is touched.
Refusal(members, limit) ==
    CASE limit = 0 -> "INVALID_LIMIT"
      [] limit > 0 /\ members \notin Records -> "INVALID_MEMBERS"
      [] limit > 0 /\ members \in Records /\ Size > limit -> "LIMIT_EXCEEDED"
      [] OTHER -> "open"

BuildImage(w) ==
    /\ writer[w].pc = "start"
    /\ WriterTo(w, Refusal(writer[w].members, writer[w].limit))
    /\ OfWriter /\ UNCHANGED <<entry, files, synced, faults, moment>>

\* Mutant of Create: a new file is renamed over the path.
CreateReplacing(w) ==
    /\ writer[w].pc = "open"
    /\ entry' = NewInode
    /\ files' = [files EXCEPT ![NewInode] = Modified(NewInode, <<>>)]
    /\ writer' = [writer EXCEPT ![w].pc = "write", ![w].inode = NewInode]
    /\ OfWriter /\ UNCHANGED <<synced, faults>> /\ Witness

\* open with O_CREAT and O_EXCL.
Create(w) ==
    /\ writer[w].pc = "open"
    /\ IF entry # None
       THEN WriterTo(w, "FileExistsError") /\ UNCHANGED <<entry, files>>
       ELSE /\ FreeInodes # {}
            /\ entry' = NewInode
            /\ files' = [files EXCEPT ![NewInode] = Modified(NewInode, <<>>)]
            /\ writer' = [writer EXCEPT ![w].pc = "write", ![w].inode = NewInode]
    /\ OfWriter /\ UNCHANGED <<synced, faults>> /\ Witness

\* The next page reaches the file.
Write(w) ==
    /\ writer[w].pc = "write" /\ writer[w].sent < Size
    /\ LET i == writer[w].inode
           k == writer[w].sent + 1
       IN  files' = [files EXCEPT ![i] = Modified(i, Put(@.pages, k, Image(writer[w].members)[k]))]
    /\ writer' = [writer EXCEPT ![w].sent = @ + 1]
    /\ OfWriter /\ UNCHANGED <<entry, synced, faults>> /\ Witness

\* Mutant of Sync: flush only.
FlushOnly(w) ==
    /\ writer[w].pc = "write" /\ writer[w].sent = Size
    /\ WriterTo(w, "saved")
    /\ OfWriter /\ UNCHANGED <<entry, files, synced, faults, moment>>

\* fsync and the return.
Sync(w) ==
    /\ writer[w].pc = "write" /\ writer[w].sent = Size
    /\ synced' = synced \cup {writer[w].inode}
    /\ WriterTo(w, "saved")
    /\ OfWriter /\ UNCHANGED <<entry, files, faults, moment>>

\* A failed system call, or the end of the process: what was created stays.
FailWrite(w) ==
    /\ writer[w].pc \in {"open", "write"} /\ Incidents < MaxIncidents
    /\ faults' = faults + 1
    /\ WriterTo(w, "OSError")
    /\ OfWriter /\ UNCHANGED <<entry, files, synced, moment>>

-----------------------------------------------------------------------------
\* read_record

OfReader == UNCHANGED <<entry, files, synced, writer, meddles, outages, spoiled>>

ReaderTo(pc) == reader' = [reader EXCEPT !.pc = pc]

\* The writer whose finished record the path names.
SavedHere == {w \in Writers : writer[w].pc = "saved" /\ writer[w].inode = entry}

Before ==
    /\ reader.pc = "start" /\ reader.kind = "record"
    /\ LET found == IF entry \in spoiled \/ SavedHere = {} THEN None ELSE CHOOSE w \in SavedHere : TRUE
           to(pc, stat) == reader' = [reader EXCEPT !.pc = pc, !.before = stat, !.found = found,
                                                    !.from = Incidents]
       IN  CASE reader.limit = 0 -> to("INVALID_LIMIT", NoStat)
             [] reader.limit > 0 /\ entry = None -> to("OSError", NoStat)
             [] reader.limit > 0 /\ entry = Link -> to("NONREGULAR_INPUT", NoStat)
             [] reader.limit > 0 /\ entry \in Inodes ->
                    IF Stat(entry).size > reader.limit THEN to("LIMIT_EXCEEDED", NoStat)
                                                       ELSE to("open", Stat(entry))
    /\ OfReader /\ moment' = Held(entry, files) /\ UNCHANGED faults

\* open with O_NOFOLLOW.
Open ==
    /\ reader.pc = "open"
    /\ reader' = IF entry \in Inodes THEN [reader EXCEPT !.pc = "opened", !.inode = entry]
                                     ELSE [reader EXCEPT !.pc = "OSError"]
    /\ OfReader /\ UNCHANGED <<faults, moment>>

Opened ==
    /\ reader.pc = "opened" /\ reader.kind = "record"
    /\ ReaderTo(IF Stat(reader.inode) = reader.before THEN "read" ELSE "INPUT_CHANGED")
    /\ OfReader /\ UNCHANGED <<faults, moment>>

Read ==
    /\ reader.pc = "read" /\ reader.kind = "record" /\ Len(reader.pages) < reader.before.size
    /\ LET k == Len(reader.pages) + 1
           pages == files[reader.inode].pages
       IN  IF k <= Len(pages) THEN reader' = [reader EXCEPT !.pages = Append(@, pages[k])]
                              ELSE ReaderTo("INPUT_CHANGED")
    /\ OfReader /\ UNCHANGED <<faults, moment>>

\* One more byte would mean that the file grew.
Probe ==
    /\ reader.pc = "read" /\ reader.kind = "record" /\ Len(reader.pages) = reader.before.size
    /\ ReaderTo(IF Len(files[reader.inode].pages) > Len(reader.pages) THEN "INPUT_CHANGED" ELSE "after")
    /\ OfReader /\ UNCHANGED <<faults, moment>>

After ==
    /\ reader.pc = "after" /\ reader.kind = "record"
    /\ ReaderTo(IF Stat(reader.inode) = reader.before THEN "path" ELSE "INPUT_CHANGED")
    /\ OfReader /\ UNCHANGED <<faults, moment>>

\* Mutant of Decode: the path is not looked at again.
DecodeOpened ==
    /\ reader.pc = "path"
    /\ ReaderTo(IF Decodes(reader.pages) THEN "returned" ELSE "INVALID_RECORD")
    /\ OfReader /\ UNCHANGED <<faults, moment>>

\* The last lstat; the rest works on the snapshot.
Decode ==
    /\ reader.pc = "path"
    /\ ReaderTo(CASE entry = None -> "OSError"
                  [] entry = Link -> "INPUT_CHANGED"
                  [] entry \in Inodes /\ Stat(entry) # reader.before -> "INPUT_CHANGED"
                  [] entry \in Inodes /\ Stat(entry) = reader.before ->
                        CASE Decodes(reader.pages) -> "returned"
                          [] ~Decodes(reader.pages) /\ reader.pages # <<>> /\ Head(reader.pages) = "v2" ->
                                "UNSUPPORTED_VERSION"
                          [] OTHER -> "INVALID_RECORD")
    /\ OfReader /\ UNCHANGED <<faults, moment>>

FailRead ==
    /\ reader.pc \in {"open", "opened", "read", "after", "path"} /\ Incidents < MaxIncidents
    /\ faults' = faults + 1
    /\ ReaderTo("OSError")
    /\ OfReader /\ UNCHANGED moment

-----------------------------------------------------------------------------
\* read_regular_file_snapshot

\* The path is looked up once, by open, which follows a link to a file outside this model.
OpenInput ==
    /\ reader.pc = "start" /\ reader.kind = "input"
    /\ \/ entry = None /\ ReaderTo("OSError")
       \/ entry = Link /\ \E pc \in {"NONREGULAR_INPUT", "elsewhere"} : ReaderTo(pc)
       \/ entry \in Inodes /\ reader' = [reader EXCEPT !.pc = "opened", !.inode = entry]
    /\ OfReader /\ UNCHANGED <<faults, moment>>

StatInput ==
    /\ reader.pc = "opened" /\ reader.kind = "input"
    /\ reader' = [reader EXCEPT !.pc = "read", !.before = Stat(reader.inode)]
    /\ moment' = {files[reader.inode].pages}
    /\ OfReader /\ UNCHANGED faults

\* Reads go on to the end of the file, or one page past the limit.
ReadInput ==
    /\ reader.pc = "read" /\ reader.kind = "input"
    /\ LET k == Len(reader.pages) + 1
           pages == files[reader.inode].pages
       IN  CASE k > Len(pages) -> ReaderTo("after")
             [] k <= Len(pages) /\ k > reader.limit -> ReaderTo("LIMIT_EXCEEDED")
             [] OTHER -> reader' = [reader EXCEPT !.pages = Append(@, pages[k])]
    /\ OfReader /\ UNCHANGED <<faults, moment>>

AfterInput ==
    /\ reader.pc = "after" /\ reader.kind = "input"
    /\ ReaderTo(IF Stat(reader.inode) = reader.before THEN "snapshot" ELSE "INPUT_CHANGED")
    /\ OfReader /\ UNCHANGED <<faults, moment>>

-----------------------------------------------------------------------------
\* The rest of the machine

Meddled ==
    /\ Incidents < MaxIncidents
    /\ meddles' = meddles + 1
    /\ UNCHANGED <<writer, reader, faults, outages>>

Overwritten(pages) ==
    {Append(pages, Garbage)}
    \cup {SubSeq(pages, 1, k) : k \in 0 .. Len(pages) - 1}
    \cup {Put(pages, k, page) : k \in 2 .. Len(pages), page \in Payloads \cup {Garbage}}
    \cup {Put(pages, 1, page) : page \in IF pages = <<>> THEN {} ELSE {"v1", "v2", Garbage}}

\* The file at the path is written in place.
Overwrite ==
    /\ Meddled
    /\ entry \in Inodes
    /\ \E pages \in Overwritten(files[entry].pages) :
        files' = [files EXCEPT ![entry] = Modified(entry, pages)]
    /\ synced' = synced \ {entry}
    /\ spoiled' = spoiled \cup {entry}
    /\ UNCHANGED entry
    /\ Witness

\* A finished record of another program is renamed over the path.
Replace ==
    /\ Meddled
    /\ FreeInodes # {}
    /\ entry' = NewInode
    /\ \E record \in Records : files' = [files EXCEPT ![NewInode] = Modified(NewInode, Image(record))]
    /\ synced' = synced \cup {NewInode}
    /\ spoiled' = spoiled \cup {NewInode}
    /\ Witness

Unlink ==
    /\ Meddled
    /\ entry # None
    /\ entry' \in {None, Link}
    /\ UNCHANGED <<files, synced, spoiled>>
    /\ Witness

\* Power loss ends every call.  Pages not synced may be lost or garbled, and so may the
\* directory entry: the directory is not synced.
Survivors(i) ==
    LET pages == files[i].pages
    IN  IF i \in synced THEN {pages}
        ELSE UNION {{[k \in 1 .. m |-> IF k \in lost THEN Garbage ELSE pages[k]] :
                        lost \in SUBSET (1 .. m)} : m \in 0 .. Len(pages)}

LosePower ==
    /\ Incidents < MaxIncidents
    /\ outages' = outages + 1
    /\ \/ entry' = None /\ UNCHANGED files
       \/ /\ entry \in Inodes
          /\ \E kept \in Survivors(entry) :
                files' = [files EXCEPT ![entry] = IF kept = @.pages THEN @ ELSE Modified(entry, kept)]
          /\ UNCHANGED entry
    /\ writer' = [w \in Writers |->
                    IF Running(writer[w].pc) THEN [writer[w] EXCEPT !.pc = "OSError"] ELSE writer[w]]
    /\ reader' = IF Running(reader.pc) THEN [reader EXCEPT !.pc = "OSError"] ELSE reader
    /\ UNCHANGED <<synced, meddles, faults, moment, spoiled>>

Ended ==
    /\ \A w \in Writers : writer[w].pc # "start" /\ ~Running(writer[w].pc)
    /\ reader.pc # "start" /\ ~Running(reader.pc)
    /\ UNCHANGED vars

Next ==
    \/ \E w \in Writers : BuildImage(w) \/ Create(w) \/ Write(w) \/ Sync(w) \/ FailWrite(w)
    \/ Before \/ Open \/ Opened \/ Read \/ Probe \/ After \/ Decode \/ FailRead
    \/ OpenInput \/ StatInput \/ ReadInput \/ AfterInput
    \/ Overwrite \/ Replace \/ Unlink \/ LosePower
    \/ Ended

Spec == Init /\ [][Next]_vars

-----------------------------------------------------------------------------
\* Properties

\* Nothing this code does removes or replaces a saved record: while no other program touches
\* the path and the power stays, the path names the file of every writer that returned, so
\* two writers never both return (write_record).
SavedRecordStays ==
    meddles = 0 /\ outages = 0 =>
        \A w \in Writers : writer[w].pc = "saved" => entry = writer[w].inode

\* What a returned writer wrote is on the device: no crash or failure garbles it later, and
\* no other writer writes to it (write_record, fsync before the return).
SavedRecordIsDurable ==
    \A w \in Writers : writer[w].pc = "saved" /\ writer[w].inode \notin spoiled =>
        files[writer[w].inode].pages = Image(writer[w].members)

\* A read is one moment: the members a record read returns were together at the path, and
\* the bytes an input read returns together in the file it opened, at some moment of the
\* read, whatever writers and other programs did between its system calls (_snapshot,
\* read_regular_file_snapshot).
ReadIsOneMoment ==
    /\ reader.pc = "returned" => Decoded(reader.pages) \in moment
    /\ reader.pc = "snapshot" => reader.pages \in moment

\* A record that was saved under a limit is read back under that limit or a larger one,
\* unless somebody meddles or something fails meanwhile (write_record, read_record).
SavedRecordIsReadable ==
    reader.found # None /\ ~Running(reader.pc) /\ Incidents = reader.from
            /\ reader.limit >= writer[reader.found].limit =>
        reader.pc = "returned" /\ Decoded(reader.pages) = writer[reader.found].members

\* Whatever a failed write or a power loss leaves at the path, a read returns only a record
\* that a writer had written to its end (write_record, _read_members).
PartialRecordIsRefused ==
    reader.pc = "returned" /\ meddles = 0 =>
        \E w \in Writers : writer[w].sent = Size /\ writer[w].members = Decoded(reader.pages)
=============================================================================
