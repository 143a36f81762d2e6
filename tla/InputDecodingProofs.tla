-------------------------- MODULE InputDecodingProofs --------------------------
(***************************************************************************)
(* What load_csv and load_npz return and refuse, for every file, every     *)
(* choice of the limits and every behaviour of the decompressor.           *)
(***************************************************************************)
EXTENDS InputDecoding, TLAPS

\* What the preflight leaves behind for the extraction.
Preflighted ==
    /\ input \in Archives
    /\ Delimited(input)
    /\ input.directory <= MaxDirectory
    /\ EntriesAreSound(input)
    /\ DeclaredSizesFit(input)

\* The data of an entry are what its headers say, up to the values of the array.
Intact(e) ==
    /\ e.crc
    /\ IF e.method = "stored"
       THEN e.csize = e.usize
       ELSE e.stream.clean /\ e.stream.length = e.csize /\ e.stream.output = e.usize
    /\ e.npy.axis /\ e.npy.real
    /\ e.npy.header + e.npy.elements = e.usize
    /\ e.npy.header <= MaxHeader /\ e.npy.elements <= MaxElements

HasRead(s) ==
    /\ Intact(EntryOf(input, s))
    /\ arrays[s] = [from |-> s, length |-> EntryOf(input, s).npy.elements]

\* The whole of a member has been extracted, by its method.
Extracted(e) ==
    IF e.method = "stored"
    THEN e.csize = e.usize /\ observed = e.csize
    ELSE e.stream.clean /\ e.stream.length = e.csize /\ observed = e.stream.output

\* The header of a text and the rows before the place have been accepted.
RowsRead ==
    /\ input \in Texts
    /\ {input.columns[1], input.columns[2]} = Series
    /\ place.taken = 0
    /\ place.line \in 2 .. Len(input.lines) + 1
    /\ input.lines[1].cells = "names" /\ input.lines[1].chars <= MaxRecord
    /\ place.line - 2 <= MaxRows
    /\ \A i \in 2 .. place.line - 1 :
        input.lines[i].cells = "numbers" /\ input.lines[i].chars \in 1 .. MaxRecord
    /\ arrays = [s \in Series |-> IF place.line = 2 THEN NoArray
                                  ELSE [from |-> s, length |-> place.line - 2]]

Places ==
    {"preflight", "extract", "inflate", "verify", "header", "row", "pair", "loaded", "raised"}

Typed ==
    /\ input \in Inputs
    /\ pc \in Places
    /\ reading \in Series
    /\ {cursor, pending, consumed, observed} \subseteq Nat
    /\ place \in [line : Nat \ {0}, taken : Nat]
    /\ arrays = [s \in Series |-> arrays[s]]

\* What each step finds.
AtStep ==
    /\ pc = "preflight" => input \in Archives /\ reading = "source"
    /\ pc \in {"extract", "inflate", "verify"} =>
           Preflighted /\ (reading = "target" => HasRead("source"))
    /\ pc = "inflate" =>
           /\ Member.method = "deflated"
           /\ consumed + pending = cursor
           /\ cursor <= Member.csize
           /\ consumed <= Member.stream.length
    /\ pc = "verify" => Extracted(Member)
    /\ pc = "header" => input \in Texts /\ place = [line |-> 1, taken |-> 0]
                        /\ arrays = [s \in Series |-> NoArray]
    /\ pc = "row" => RowsRead
    /\ pc = "pair" =>
           \/ Preflighted /\ HasRead("source") /\ HasRead("target")
           \/ RowsRead /\ place.line = Len(input.lines) + 1 /\ Len(input.lines) >= 2

IInv == Typed /\ AtStep /\ LimitsHold /\ LoadedIsDescribed

-----------------------------------------------------------------------------
\* Entries

LEMMA FormatsDiffer ==
    /\ \A a \in Archives : a.format = "npz"
    /\ \A t \in Texts : t.format = "csv"
PROOF
  BY DEF Archives, Texts

\* Two entries that name both series name one each.
LEMMA EntryOfNames ==
    ASSUME NEW a \in Archives, Delimited(a), EntriesAreSound(a)
    PROVE  /\ DOMAIN a.entries = {1, 2}
           /\ \A i \in {1, 2} : /\ a.entries[i] \in Entries
                                /\ a.entries[i].name \in Series
                                /\ EntryOf(a, a.entries[i].name) = a.entries[i]
           /\ \A s \in Series : \E i \in {1, 2} :
                  a.entries[i].name = s /\ EntryOf(a, s) = a.entries[i]
PROOF
  <1>1. a.entries \in Seq(Entries) /\ Len(a.entries) = 2
    BY DEF Archives, Delimited
  <1>2. DOMAIN a.entries = {1, 2} /\ \A i \in {1, 2} : a.entries[i] \in Entries
    BY <1>1
  <1>3. {a.entries[1].name, a.entries[2].name} = Series
    BY <1>2 DEF EntriesAreSound
  <1>4. a.entries[1].name # a.entries[2].name
    BY <1>3 DEF Series
  <1>5. ASSUME NEW i \in {1, 2}
        PROVE  EntryOf(a, a.entries[i].name) = a.entries[i]
    <2>1. \A j \in DOMAIN a.entries : a.entries[j].name = a.entries[i].name => j = i
      BY <1>2, <1>4
    <2> QED
      BY <1>2, <2>1 DEF EntryOf
  <1>6. \A s \in Series : \E i \in {1, 2} : a.entries[i].name = s
    BY <1>3
  <1> QED
    BY <1>2, <1>3, <1>5, <1>6

\* What an entry exceeds is exceeded by its archive.
LEMMA MemberExceeds ==
    ASSUME Preflighted, NEW s \in Series,
           LET e == EntryOf(input, s)
           IN  \/ e.method = "stored" /\ e.csize > MaxMember
               \/ e.method = "deflated" /\ e.stream.output > MaxMember
               \/ e.npy.header > MaxHeader
               \/ e.npy.elements > MaxElements
    PROVE  ExceedsLimit(input)
PROOF
  <1>1. PICK i \in {1, 2} : EntryOf(input, s) = input.entries[i]
    BY EntryOfNames DEF Preflighted
  <1>2. input.format = "npz"
    BY FormatsDiffer DEF Preflighted
  <1> QED
    BY <1>1, <1>2 DEF ExceedsLimit

\* Even an empty member has its header.
LEMMA RangeIsNotEmpty ==
    ASSUME NEW e \in Entries
    PROVE  /\ MemberRange(e).from \in Nat /\ MemberRange(e).to \in Nat
           /\ MemberRange(e).from < MemberRange(e).to
PROOF
  <1>1. e.at \in Nat /\ e.csize \in Nat
    BY DEF Entries
  <1>2. HeaderSize \in Nat /\ HeaderSize > 0
    BY InputAssumption
  <1> QED
    BY <1>1, <1>2 DEF MemberRange

\* Member ranges that are apart in the order of their first bytes share no byte.
LEMMA RangesShareNothing ==
    ASSUME NEW a \in Archives, Delimited(a), EntriesAreSound(a)
    PROVE  Bytes(a.entries[1]) \cap Bytes(a.entries[2]) = {}
PROOF
  <1> DEFINE first == MemberRange(a.entries[1])
             second == MemberRange(a.entries[2])
  <1>1. DOMAIN a.entries = {1, 2} /\ a.entries[1] \in Entries /\ a.entries[2] \in Entries
    BY EntryOfNames
  <1>2. /\ first.from \in Nat /\ first.to \in Nat /\ first.from < first.to
        /\ second.from \in Nat /\ second.to \in Nat /\ second.from < second.to
    BY <1>1, RangeIsNotEmpty
  <1>3. /\ first.from < second.from \/ (first.from = second.from /\ first.to <= second.to)
               => first.to <= second.from
        /\ second.from < first.from \/ (second.from = first.from /\ second.to <= first.to)
               => second.to <= first.from
    BY <1>1 DEF EntriesAreSound, RangesAreApart
  <1>4. first.to <= second.from \/ second.to <= first.from
    <2> HIDE DEF first, second
    <2> QED
      BY <1>2, <1>3
  <1>5. Bytes(a.entries[1]) = first.from .. first.to - 1
        /\ Bytes(a.entries[2]) = second.from .. second.to - 1
    BY DEF Bytes
  <1> HIDE DEF first, second
  <1> QED
    BY <1>2, <1>4, <1>5

-----------------------------------------------------------------------------
\* Initial states and archives

LEMMA InitEstablishes ==
    Init => IInv
PROOF
  <1> SUFFICES ASSUME Init
               PROVE  IInv
    OBVIOUS
  <1>1. Typed
    BY DEF Init, Typed, Places, Series
  <1>2. AtStep
    BY InputAssumption, FormatsDiffer DEF Init, AtStep
  <1>3. LimitsHold /\ LoadedIsDescribed
    BY InputAssumption DEF Init, LimitsHold, LoadedIsDescribed
  <1> QED
    BY <1>1, <1>2, <1>3 DEF IInv

LEMMA PreflightKeeps ==
    ASSUME IInv, Preflight
    PROVE  IInv'
PROOF
  <1>1. /\ pc = "preflight" /\ input \in Archives /\ reading = "source" /\ Typed /\ LimitsHold
        /\ UNCHANGED <<input, reading, cursor, pending, consumed, observed, place, arrays>>
    BY DEF IInv, AtStep, Preflight, deflating
  <1>2. \/ pc' = "extract" /\ error' = error /\ Preflighted
        \/ pc' = "raised" /\ error' = "malformed"
        \/ pc' = "raised" /\ error' = "resource" /\ Delimited(input)
           /\ (input.directory > MaxDirectory \/ ~DeclaredSizesFit(input))
    <2>1. input.directory \in Nat /\ MaxDirectory \in Nat
      BY <1>1, InputAssumption DEF Archives
    <2> QED
      BY <1>1, <2>1 DEF Preflight, Require, Raise, Goto, Preflighted
  <1>3. Typed'
    BY <1>1, <1>2 DEF Typed, Places
  <1>4. AtStep'
    BY <1>1, <1>2 DEF AtStep, Preflighted, Series
  <1>5. LimitsHold'
    <2>1. CASE pc' = "raised" /\ error' = "resource" /\ Delimited(input)
               /\ (input.directory > MaxDirectory \/ ~DeclaredSizesFit(input))
      <3>1. input.format = "npz"
        BY <1>1, FormatsDiffer
      <3>2. input.entries \in Seq(Entries) /\ Len(input.entries) = 2
        BY <1>1, <2>1 DEF Archives, Delimited
      <3>3. DOMAIN input.entries = {1, 2} /\ \A i \in {1, 2} : input.entries[i] \in Entries
        BY <3>2
      <3>4. \A i \in {1, 2} : input.entries[i].usize \in Nat
        BY <3>3 DEF Entries
      <3>5. ExceedsLimit(input)
        <4> DEFINE u == input.entries[1].usize
                   v == input.entries[2].usize
        <4>1. u \in Nat /\ v \in Nat /\ MaxTotal \in Nat /\ MaxMember \in Nat
          BY <3>4, InputAssumption
        <4>2. CASE input.directory > MaxDirectory
          BY <3>1, <4>2 DEF ExceedsLimit
        <4>3. CASE ~DeclaredSizesFit(input)
          <5>1. ~(u + v <= MaxTotal) \/ ~(u <= MaxMember) \/ ~(v <= MaxMember)
            BY <3>3, <4>3 DEF DeclaredSizesFit
          <5>2. u + v > MaxTotal \/ \E i \in {1, 2} : input.entries[i].usize > MaxMember
            BY <4>1, <5>1
          <5> QED
            BY <3>1, <5>2 DEF ExceedsLimit
        <4> QED
          BY <2>1, <4>2, <4>3
      <3> QED
        BY <1>1, <2>1, <3>5 DEF LimitsHold
    <2> QED
      BY <1>1, <1>2, <2>1 DEF LimitsHold
  <1>6. LoadedIsDescribed'
    BY <1>2 DEF LoadedIsDescribed
  <1> QED
    BY <1>3, <1>4, <1>5, <1>6 DEF IInv
-----------------------------------------------------------------------------
\* Members

\* What the steps of the extraction know of the member.
LEMMA MemberIsPreflighted ==
    ASSUME Typed, Preflighted
    PROVE  /\ Member = EntryOf(input, reading)
           /\ Member.method \in {"stored", "deflated"}
           /\ {Member.csize, Member.usize, Member.stream.length, Member.stream.output} \subseteq Nat
           /\ {Member.npy.header, Member.npy.elements} \subseteq Nat
PROOF
  <1>1. Member \in Entries
    BY EntryOfNames DEF Member, Preflighted, Typed
  <1> QED
    BY <1>1 DEF Entries, Member

LEMMA ExtractStoredKeeps ==
    ASSUME IInv, ExtractStored
    PROVE  IInv'
PROOF
  <1>1. /\ pc = "extract" /\ Typed /\ Preflighted /\ LimitsHold /\ Member.method = "stored"
        /\ reading = "target" => HasRead("source")
        /\ UNCHANGED <<input, reading, cursor, pending, consumed, place, arrays>>
    BY DEF IInv, AtStep, ExtractStored
  <1>2. Member.csize \in Nat /\ MaxMember \in Nat
    BY <1>1, MemberIsPreflighted, InputAssumption
  <1>3. \/ /\ pc' = "verify" /\ error' = error
           /\ Member.csize <= MaxMember /\ Member.csize = Member.usize /\ observed' = Member.csize
        \/ pc' = "raised" /\ observed' = observed
           /\ (error' = "malformed" \/ (error' = "resource" /\ Member.csize > MaxMember))
    BY <1>2 DEF ExtractStored, Require, Raise, Goto
  <1>4. Typed'
    BY <1>1, <1>2, <1>3 DEF Typed, Places
  <1>5. Preflighted' /\ Member' = Member /\ (HasRead("source") => HasRead("source")')
    BY <1>1 DEF Preflighted, Member, HasRead
  <1>6. AtStep'
    BY <1>1, <1>3, <1>5 DEF AtStep, Extracted
  <1>7. LimitsHold'
    <2>1. Member.csize > MaxMember => ExceedsLimit(input)
      BY <1>1, MemberExceeds DEF Member, Typed
    <2> QED
      BY <1>1, <1>2, <1>3, <2>1 DEF LimitsHold
  <1>8. LoadedIsDescribed'
    BY <1>3 DEF LoadedIsDescribed
  <1> QED
    BY <1>4, <1>6, <1>7, <1>8 DEF IInv

LEMMA OpenDeflatedKeeps ==
    ASSUME IInv, OpenDeflated
    PROVE  IInv'
PROOF
  <1>1. /\ Typed /\ Preflighted /\ LimitsHold /\ Member.method = "deflated"
        /\ reading = "target" => HasRead("source")
        /\ UNCHANGED <<input, reading, place, arrays>>
        /\ pc' = "inflate" /\ error' = error
        /\ cursor' = 0 /\ pending' = 0 /\ consumed' = 0 /\ observed' = 0
    BY DEF IInv, AtStep, OpenDeflated, Goto
  <1>2. Preflighted' /\ Member' = Member /\ (HasRead("source") => HasRead("source")')
    BY <1>1 DEF Preflighted, Member, HasRead
  <1>3. Typed'
    BY <1>1 DEF Typed, Places
  <1>4. AtStep'
    BY <1>1, <1>2, MemberIsPreflighted DEF AtStep
  <1>5. LimitsHold' /\ LoadedIsDescribed'
    BY <1>1, InputAssumption DEF LimitsHold, LoadedIsDescribed
  <1> QED
    BY <1>3, <1>4, <1>5 DEF IInv

\* One call of the decompressor, whatever it takes and returns.
LEMMA InflateKeeps ==
    ASSUME IInv, Inflate
    PROVE  IInv'
PROOF
  <1> DEFINE offered == IF pending > 0 THEN pending ELSE Smaller(Chunk, Member.csize - cursor)
             read == IF pending > 0 THEN cursor ELSE cursor + offered
             most == Smaller(offered, Member.stream.length - consumed)
  <1>1. /\ pc = "inflate" /\ Typed /\ Preflighted /\ LimitsHold /\ Member.method = "deflated"
        /\ reading = "target" => HasRead("source")
        /\ consumed + pending = cursor /\ cursor <= Member.csize
        /\ consumed <= Member.stream.length
        /\ UNCHANGED <<input, reading, place, arrays>>
    BY DEF IInv, AtStep, Inflate
  <1>2. PICK taken \in 0 .. most, given \in 0 .. Room :
            /\ observed + given <= Available(Member.stream, consumed + taken)
            /\ AfterInflating(offered, read, taken, given)
            /\ cursor' = read
            /\ pending' = offered - taken
            /\ consumed' = consumed + taken
            /\ observed' = observed + given
    BY DEF Inflate
  <1>3. /\ {cursor, pending, consumed, observed} \subseteq Nat
        /\ {Member.csize, Member.stream.length, Member.stream.output} \subseteq Nat
        /\ Chunk \in Nat /\ MaxMember \in Nat /\ observed <= MaxMember + 1
        /\ pending > 0 \/ cursor < Member.csize
    BY <1>1, MemberIsPreflighted, InputAssumption DEF Typed, LimitsHold, Inflate
  <1>4. /\ offered \in Nat /\ read \in Nat /\ read <= Member.csize
        /\ consumed + offered = read
    BY <1>1, <1>3 DEF Smaller
  <1> HIDE DEF offered, read
  <1>5. taken \in Nat /\ taken <= offered /\ consumed + taken <= Member.stream.length
    BY <1>1, <1>2, <1>3, <1>4 DEF Smaller
  <1>6. given \in Nat /\ observed + given <= MaxMember + 1
    BY <1>2, <1>3 DEF Room
  <1>7. observed + given <= Member.stream.output
    BY <1>2, <1>3, <1>5 DEF Available, Smaller
  <1>8. \/ /\ pc' = "verify" /\ error' = error
           /\ StreamEnds(taken, given) /\ taken = offered /\ read = Member.csize
        \/ pc' = "inflate" /\ error' = error
        \/ pc' = "raised" /\ error' = "malformed"
        \/ pc' = "raised" /\ error' = "resource" /\ observed + given > MaxMember
    BY <1>2, <1>3, <1>6 DEF AfterInflating, Require, Raise, Goto
  <1>9. cursor' \in Nat /\ pending' \in Nat /\ consumed' \in Nat /\ observed' \in Nat
    BY <1>2, <1>3, <1>4, <1>5, <1>6
  <1>10. Typed'
    BY <1>1, <1>8, <1>9 DEF Typed, Places
  <1>11. Preflighted' /\ Member' = Member /\ (HasRead("source") => HasRead("source")')
    BY <1>1 DEF Preflighted, Member, HasRead
  <1>12. pc' = "verify" => Extracted(Member)'
    <2>1. CASE pc' = "verify"
      <3>1. StreamEnds(taken, given) /\ taken = offered /\ read = Member.csize
        BY <1>8, <2>1
      <3>2. Member.stream.clean /\ Member.stream.length = Member.csize
            /\ observed' = Member.stream.output
        BY <1>2, <1>3, <1>4, <3>1 DEF StreamEnds
      <3> QED
        BY <1>1, <1>11, <3>2 DEF Extracted
    <2> QED
      BY <2>1
  <1>13. consumed' + pending' = cursor' /\ cursor' <= Member.csize
         /\ consumed' <= Member.stream.length
    BY <1>2, <1>3, <1>4, <1>5
  <1>14. AtStep'
    BY <1>1, <1>8, <1>11, <1>12, <1>13 DEF AtStep
  <1>15. LimitsHold'
    <2>1. observed + given > MaxMember => ExceedsLimit(input)
      <3>1. observed + given > MaxMember => Member.stream.output > MaxMember
        BY <1>3, <1>6, <1>7
      <3> QED
        BY <1>1, <3>1, MemberExceeds DEF Member, Typed
    <2> QED
      BY <1>1, <1>2, <1>6, <1>8, <2>1 DEF LimitsHold
  <1>16. LoadedIsDescribed'
    BY <1>8 DEF LoadedIsDescribed
  <1> QED
    BY <1>10, <1>14, <1>15, <1>16 DEF IInv

\* A step that only raises a malformed input keeps everything.
LEMMA RaisingKeeps ==
    ASSUME IInv, pc' = "raised", error' = "malformed",
           UNCHANGED <<input, reading, cursor, pending, consumed, observed, place, arrays>>
    PROVE  IInv'
PROOF
  BY DEF IInv, Typed, AtStep, LimitsHold, LoadedIsDescribed, Places

LEMMA LoadMemberKeeps ==
    ASSUME IInv, LoadMember
    PROVE  IInv'
PROOF
  <1>1. /\ pc = "verify" /\ Typed /\ Preflighted /\ LimitsHold /\ Extracted(Member)
        /\ reading = "target" => HasRead("source")
        /\ UNCHANGED <<input, cursor, pending, consumed, observed, place>>
    BY DEF IInv, AtStep, LoadMember, deflating
  <1> DEFINE npy == Member.npy
  <1>2. /\ npy.header \in Nat /\ npy.elements \in Nat /\ MaxHeader \in Nat /\ MaxElements \in Nat
        /\ Member.usize \in Nat /\ Member = EntryOf(input, reading)
    BY <1>1, MemberIsPreflighted, InputAssumption
  <1>3. \/ /\ pc' = IF reading = "source" THEN "extract" ELSE "pair"
           /\ error' = error
           /\ observed = Member.usize /\ Member.crc
           /\ npy.header <= MaxHeader /\ npy.axis /\ npy.elements <= MaxElements /\ npy.real
           /\ npy.header + npy.elements = observed
        \/ pc' = "raised" /\ error' = "malformed"
        \/ pc' = "raised" /\ error' = "resource"
           /\ (npy.header > MaxHeader \/ npy.elements > MaxElements)
    BY <1>2 DEF LoadMember, Require, Raise, Goto
  <1>4. Preflighted'
    BY <1>1 DEF Preflighted
  <1>5. CASE pc' = "raised" /\ error' = "malformed"
    <2>1. UNCHANGED <<reading, arrays>>
      BY <1>5 DEF LoadMember
    <2> QED
      BY <1>1, <1>5, <2>1, RaisingKeeps
  <1>6. CASE pc' = "raised" /\ error' = "resource"
             /\ (npy.header > MaxHeader \/ npy.elements > MaxElements)
    <2>1. UNCHANGED <<reading, arrays>>
      BY <1>6 DEF LoadMember
    <2>2. ExceedsLimit(input)
      BY <1>1, <1>2, <1>6, MemberExceeds DEF Typed
    <2> QED
      BY <1>1, <1>6, <2>1, <2>2
      DEF IInv, Typed, AtStep, LimitsHold, LoadedIsDescribed, Places
  <1>7. CASE /\ pc' = IF reading = "source" THEN "extract" ELSE "pair"
             /\ error' = error
             /\ observed = Member.usize /\ Member.crc
             /\ npy.header <= MaxHeader /\ npy.axis /\ npy.elements <= MaxElements /\ npy.real
             /\ npy.header + npy.elements = observed
    <2>1. reading' = "target"
          /\ arrays' = [arrays EXCEPT ![reading] = [from |-> reading, length |-> npy.elements]]
      BY <1>7 DEF LoadMember
    <2>2. Intact(Member)
      BY <1>1, <1>7 DEF Intact, Extracted
    <2>3. DOMAIN arrays = Series /\ reading \in Series
      BY <1>1 DEF Typed
    <2>4. pc' = "extract" => HasRead("source")'
      BY <1>1, <1>2, <1>7, <2>1, <2>2, <2>3 DEF HasRead
    <2>5. pc' = "pair" => HasRead("source")' /\ HasRead("target")'
      BY <1>1, <1>2, <1>7, <2>1, <2>2, <2>3 DEF HasRead, Series
    <2>6. Typed'
      BY <1>1, <1>7, <2>1 DEF Typed, Places, Series
    <2>7. AtStep'
      BY <1>4, <1>7, <2>4, <2>5 DEF AtStep
    <2>8. LimitsHold' /\ LoadedIsDescribed'
      BY <1>1, <1>7 DEF LimitsHold, LoadedIsDescribed
    <2> QED
      BY <2>6, <2>7, <2>8 DEF IInv
  <1> QED
    BY <1>3, <1>5, <1>6, <1>7

-----------------------------------------------------------------------------
\* Texts

\* The place is on a line of the text, or behind the last one.
LEMMA TextShape ==
    ASSUME NEW t \in Inputs \cap Texts
    PROVE  /\ Len(t.lines) \in Nat
           /\ \A i \in 1 .. Len(t.lines) : t.lines[i].chars \in Nat
           /\ DOMAIN t.lines = 1 .. Len(t.lines)
           /\ Len(t.lines) > 0 => t.terminated \/ t.lines[Len(t.lines)].chars > 0
           /\ \A i \in {1, 2} : t.columns[i] \in Series
PROOF
  <1>1. t.lines \in Seq(PhysicalLines)
    BY DEF Texts
  <1>2. t.columns \in [1 .. 2 -> Series]
    BY DEF Texts
  <1>3. /\ Len(t.lines) \in Nat /\ DOMAIN t.lines = 1 .. Len(t.lines)
        /\ t.lines = <<>> <=> Len(t.lines) = 0
    BY <1>1
  <1>4. \A i \in 1 .. Len(t.lines) : t.lines[i].chars \in Nat
    <2>1. \A i \in 1 .. Len(t.lines) : t.lines[i] \in PhysicalLines
      BY <1>1, <1>3
    <2> QED
      BY <2>1 DEF PhysicalLines
  <1>5. t.lines # <<>> => t.terminated \/ t.lines[Len(t.lines)].chars > 0
    BY InputAssumption
  <1>6. \A i \in {1, 2} : t.columns[i] \in Series
    BY <1>2
  <1> QED
    BY <1>3, <1>4, <1>5, <1>6

\* A record within the limit is a whole line; one over it is of a line over it.
LEMMA RecordIsALine ==
    ASSUME input \in Inputs \cap Texts, place \in [line : Nat \ {0}, taken : Nat],
           place.line \in 1 .. Len(input.lines), place.taken = 0, Advance
    PROVE  /\ Record <= MaxRecord =>
                  /\ Record = input.lines[place.line].chars
                  /\ place' = [line |-> place.line + 1, taken |-> 0]
           /\ ~(Record <= MaxRecord) => input.lines[place.line].chars > MaxRecord
           /\ place' \in [line : Nat \ {0}, taken : Nat]
PROOF
  <1>1. input.lines[place.line].chars \in Nat /\ MaxRecord \in Nat
        /\ place.line \in Nat /\ place.line > 0
    BY TextShape, InputAssumption
  <1>2. Rest = input.lines[place.line].chars /\ Newline \in {0, 1} /\ Bound = MaxRecord + 1
    BY <1>1 DEF Rest, Lines, Newline, Bound
  <1>3. CASE Rest + Newline <= Bound
    <2>1. Record = Rest /\ place' = [line |-> place.line + 1, taken |-> 0]
      BY <1>3 DEF Record, Advance
    <2>2. Rest <= Bound
      BY <1>1, <1>2, <1>3
    <2> QED
      BY <1>1, <1>2, <2>1, <2>2
  <1>4. CASE ~(Rest + Newline <= Bound)
    <2>1. Record = Bound /\ place' = [place EXCEPT !.taken = @ + Bound]
      BY <1>4 DEF Record, Advance
    <2>2. Rest > MaxRecord /\ Bound \in Nat /\ ~(Bound <= MaxRecord)
      BY <1>1, <1>2, <1>4
    <2>3. place' \in [line : Nat \ {0}, taken : Nat]
      BY <2>1, <2>2
    <2> QED
      BY <1>2, <2>1, <2>2, <2>3
  <1> QED
    BY <1>3, <1>4

LEMMA ReadHeaderKeeps ==
    ASSUME IInv, ReadHeader
    PROVE  IInv'
PROOF
  <1>1. /\ pc = "header" /\ Typed /\ LimitsHold /\ input \in Inputs \cap Texts
        /\ place = [line |-> 1, taken |-> 0] /\ arrays = [s \in Series |-> NoArray]
        /\ UNCHANGED <<input, reading, cursor, pending, consumed, observed, arrays>>
    BY DEF IInv, Typed, AtStep, ReadHeader, deflating
  <1>2. CASE EndOfText /\ Raise("malformed") /\ UNCHANGED place
    BY <1>1, <1>2, RaisingKeeps DEF Raise
  <1>3. CASE ~EndOfText /\ Advance
    <2> DEFINE cells == Lines[1].cells
    <2>1. 1 \in 1 .. Len(input.lines)
      BY <1>1, <1>3, TextShape DEF EndOfText, Lines
    <2>2. /\ Record <= MaxRecord => Record = input.lines[1].chars
                                    /\ place' = [line |-> 2, taken |-> 0]
          /\ ~(Record <= MaxRecord) => input.lines[1].chars > MaxRecord
          /\ place' \in [line : Nat \ {0}, taken : Nat]
      BY <1>1, <1>3, <2>1, RecordIsALine DEF Typed
    <2>3. \/ /\ pc' = "row" /\ error' = error /\ Record <= MaxRecord /\ cells = "names"
             /\ {input.columns[1], input.columns[2]} = Series
          \/ pc' = "raised" /\ error' = "malformed"
          \/ /\ pc' = "raised" /\ error' = "resource"
             /\ ~(Record <= MaxRecord) \/ cells = "long"
      BY <1>1, <1>3 DEF ReadHeader, Require, Raise, Goto
    <2>4. Typed'
      BY <1>1, <2>2, <2>3 DEF Typed, Places
    <2>5. pc' = "row" => RowsRead'
      <3> SUFFICES ASSUME pc' = "row"
                   PROVE  RowsRead'
        OBVIOUS
      <3>1. /\ input \in Texts /\ input' = input /\ place' = [line |-> 2, taken |-> 0]
            /\ {input.columns[1], input.columns[2]} = Series
            /\ input.lines[1].cells = "names" /\ input.lines[1].chars <= MaxRecord
            /\ arrays' = [s \in Series |-> NoArray]
        BY <1>1, <2>2, <2>3 DEF Lines
      <3>2. place'.taken = 0 /\ place'.line = 2
        BY <3>1
      <3>3. 2 \in 2 .. Len(input.lines) + 1 /\ 2 - 2 <= MaxRows /\ 2 .. 2 - 1 = {}
        BY <1>1, <2>1, TextShape, InputAssumption
      <3> QED
        BY <3>1, <3>2, <3>3 DEF RowsRead
    <2>6. AtStep'
      BY <2>3, <2>5 DEF AtStep
    <2>7. LimitsHold'
      <3>1. ~(Record <= MaxRecord) \/ cells = "long" => ExceedsLimit(input)
        BY <1>1, <2>1, <2>2, FormatsDiffer DEF ExceedsLimit, Lines
      <3> QED
        BY <1>1, <2>3, <3>1 DEF LimitsHold
    <2>8. LoadedIsDescribed'
      BY <2>3 DEF LoadedIsDescribed
    <2> QED
      BY <2>4, <2>6, <2>7, <2>8 DEF IInv
  <1> QED
    BY <1>2, <1>3 DEF ReadHeader

\* The number of rows is the place of the reader.
LEMMA RowsAreCounted ==
    ASSUME RowsRead
    PROVE  Rows = place.line - 2 /\ Rows \in Nat
PROOF
  <1>1. place.line \in Nat /\ place.line >= 2
    BY DEF RowsRead
  <1>2. CASE place.line = 2
    BY <1>2 DEF RowsRead, Rows, Series
  <1>3. CASE place.line # 2
    <2>1. arrays["source"] = [from |-> "source", length |-> place.line - 2]
      BY <1>3 DEF RowsRead, Series
    <2>2. arrays["source"] # NoArray
      BY <1>1, <2>1, InputAssumption DEF Series
    <2> QED
      BY <1>1, <2>1, <2>2 DEF Rows
  <1> QED
    BY <1>2, <1>3

\* Whatever the order of the columns, each series is filled from the column of its name.
LEMMA ColumnsKeepTheirNames ==
    ASSUME input \in Inputs \cap Texts, {input.columns[1], input.columns[2]} = Series,
           NEW s \in Series
    PROVE  ColumnOf(s) = s
PROOF
  BY TextShape DEF ColumnOf, Series

LEMMA ReadRowKeeps ==
    ASSUME IInv, ReadRow
    PROVE  IInv'
PROOF
  <1>1. /\ pc = "row" /\ Typed /\ LimitsHold /\ RowsRead /\ input \in Inputs \cap Texts
        /\ ~EndOfText /\ Advance
        /\ UNCHANGED <<input, reading, cursor, pending, consumed, observed>>
    BY DEF IInv, Typed, AtStep, RowsRead, ReadRow, deflating
  <1>2. /\ place.line \in 2 .. Len(input.lines) /\ place.taken = 0 /\ Len(input.lines) \in Nat
        /\ MaxRows \in Nat /\ MaxRecord \in Nat /\ input.lines[place.line].chars \in Nat
    <2>1. place.line \in 2 .. Len(input.lines) + 1 /\ place.taken = 0
      BY <1>1 DEF RowsRead
    <2>2. Len(input.lines) \in Nat /\ \A i \in 1 .. Len(input.lines) : input.lines[i].chars \in Nat
      BY <1>1, TextShape
    <2>3. place.line <= Len(input.lines)
      BY <1>1, <2>1, <2>2 DEF EndOfText, Lines
    <2> QED
      <3>1. MaxRows \in Nat /\ MaxRecord \in Nat
        BY InputAssumption
      <3>2. place.line \in 2 .. Len(input.lines) /\ place.line \in 1 .. Len(input.lines)
        BY <2>1, <2>2, <2>3
      <3> QED
        BY <2>1, <2>2, <3>1, <3>2
  <1>3. Rows = place.line - 2 /\ Rows \in Nat
    BY <1>1, RowsAreCounted
  <1>4. /\ Record <= MaxRecord => Record = input.lines[place.line].chars
                                  /\ place' = [line |-> place.line + 1, taken |-> 0]
        /\ ~(Record <= MaxRecord) => input.lines[place.line].chars > MaxRecord
        /\ place' \in [line : Nat \ {0}, taken : Nat]
    BY <1>1, <1>2, RecordIsALine DEF Typed
  <1> DEFINE cells == Lines[place.line].cells
  <1>5. \/ /\ pc' = "row" /\ error' = error /\ Rows < MaxRows /\ Record <= MaxRecord /\ Record > 0
           /\ cells = "numbers"
        \/ pc' = "raised" /\ error' = "malformed"
        \/ /\ pc' = "raised" /\ error' = "resource"
           /\ ~(Rows < MaxRows) \/ ~(Record <= MaxRecord) \/ cells = "long"
    BY DEF ReadRow, Require, Raise, Goto
  <1>6. CASE pc' = "raised"
    <2>1. arrays' = arrays
      BY <1>6 DEF ReadRow
    <2>2. error' = "resource" => ExceedsLimit(input)
      <3>1. input.format # "npz" /\ DOMAIN input.lines = 1 .. Len(input.lines)
        BY <1>1, FormatsDiffer, TextShape
      <3>2. ~(Rows < MaxRows) => Len(input.lines) - 1 > MaxRows
        BY <1>2, <1>3
      <3>3. error' = "resource" =>
                \/ Len(input.lines) - 1 > MaxRows
                \/ input.lines[place.line].chars > MaxRecord
                \/ input.lines[place.line].cells = "long"
        BY <1>4, <1>5, <1>6, <3>2 DEF Lines
      <3>4. place.line \in DOMAIN input.lines
        BY <1>2, <3>1
      <3> QED
        BY <3>1, <3>3, <3>4 DEF ExceedsLimit
    <2> QED
      BY <1>1, <1>4, <1>5, <1>6, <2>1, <2>2
      DEF IInv, Typed, AtStep, LimitsHold, LoadedIsDescribed, Places
  <1>7. CASE /\ pc' = "row" /\ error' = error /\ Rows < MaxRows /\ Record <= MaxRecord /\ Record > 0
             /\ cells = "numbers"
    <2>1. arrays' = [s \in Series |-> [from |-> s, length |-> Rows + 1]]
      <3>1. arrays' = [s \in Series |-> [from |-> ColumnOf(s), length |-> Rows + 1]]
        BY <1>7 DEF ReadRow
      <3> QED
        BY <1>1, <3>1, ColumnsKeepTheirNames DEF RowsRead
    <2>2. place'.line = place.line + 1 /\ place'.taken = 0
      BY <1>4, <1>7
    <2>3. input.lines[place.line].cells = "numbers"
          /\ input.lines[place.line].chars \in 1 .. MaxRecord
      BY <1>2, <1>4, <1>7 DEF Lines
    <2>4. RowsRead'
      <3>1. \A i \in 2 .. place.line :
                input.lines[i].cells = "numbers" /\ input.lines[i].chars \in 1 .. MaxRecord
        <4>1. \A i \in 2 .. place.line : i \in 2 .. place.line - 1 \/ i = place.line
          BY <1>2
        <4> QED
          BY <1>1, <2>3, <4>1 DEF RowsRead
      <3>2. arrays' = [s \in Series |-> [from |-> s, length |-> place'.line - 2]]
            /\ place'.line # 2
        BY <1>2, <1>3, <2>1, <2>2
      <3>3. /\ place'.taken = 0 /\ place'.line \in 2 .. Len(input.lines) + 1
            /\ place'.line - 2 <= MaxRows /\ place'.line - 1 = place.line
        <4>1. place.line \in Nat /\ place.line >= 2 /\ place.line <= Len(input.lines)
          BY <1>2
        <4>2. Len(input.lines) \in Nat /\ MaxRows \in Nat
          BY <1>2
        <4> QED
          BY <1>3, <1>7, <2>2, <4>1, <4>2
      <3>4. /\ input \in Texts /\ {input.columns[1], input.columns[2]} = Series /\ input' = input
            /\ input.lines[1].cells = "names" /\ input.lines[1].chars <= MaxRecord
        BY <1>1 DEF RowsRead
      <3> QED
        BY <3>1, <3>2, <3>3, <3>4 DEF RowsRead
    <2>5. Typed'
      BY <1>1, <1>4, <1>7, <2>1 DEF Typed, Places
    <2>6. AtStep'
      BY <1>7, <2>4 DEF AtStep
    <2>7. LimitsHold' /\ LoadedIsDescribed'
      BY <1>1, <1>7 DEF LimitsHold, LoadedIsDescribed
    <2> QED
      BY <2>5, <2>6, <2>7 DEF IInv
  <1> QED
    BY <1>5, <1>6, <1>7

LEMMA CloseTextKeeps ==
    ASSUME IInv, CloseText
    PROVE  IInv'
PROOF
  <1>1. /\ pc = "row" /\ Typed /\ LimitsHold /\ RowsRead /\ input \in Inputs \cap Texts /\ EndOfText
        /\ UNCHANGED <<input, reading, cursor, pending, consumed, observed, place, arrays>>
    BY DEF IInv, Typed, AtStep, RowsRead, CloseText, deflating
  <1>2. Rows = place.line - 2 /\ Rows \in Nat
    BY <1>1, RowsAreCounted
  <1>3. \/ pc' = "pair" /\ error' = error /\ Rows > 0
        \/ pc' = "raised" /\ error' = "malformed"
    BY DEF CloseText, Require, Raise, Goto
  <1>4. CASE pc' = "raised" /\ error' = "malformed"
    BY <1>1, <1>4, RaisingKeeps
  <1>5. CASE pc' = "pair" /\ error' = error /\ Rows > 0
    <2>1. place.line = Len(input.lines) + 1
      <3>1. place.line \in 2 .. Len(input.lines) + 1 /\ place.taken = 0
        BY <1>1 DEF RowsRead
      <3>2. /\ Len(input.lines) \in Nat
            /\ Len(input.lines) > 0 => input.terminated \/ input.lines[Len(input.lines)].chars > 0
            /\ \A i \in 1 .. Len(input.lines) : input.lines[i].chars \in Nat
        BY <1>1, TextShape
      <3>3. CASE place.line = Len(input.lines)
        <4>1. input.terminated \/ Rest > 0
          BY <3>1, <3>2, <3>3 DEF Rest, Lines
        <4>2. Rest \in Nat /\ Rest + Newline = 0
          BY <1>1, <3>1, <3>2, <3>3 DEF EndOfText, Rest, Lines
        <4> QED
          BY <4>1, <4>2 DEF Newline
      <3> QED
        BY <1>1, <3>1, <3>2, <3>3 DEF EndOfText, Lines
    <2>2. Len(input.lines) >= 2
      BY <1>1, <1>2, <1>5, <2>1, TextShape
    <2>3. RowsRead'
      BY <1>1 DEF RowsRead
    <2> QED
      BY <1>1, <1>5, <2>1, <2>2, <2>3
      DEF IInv, Typed, AtStep, LimitsHold, LoadedIsDescribed, Places
  <1> QED
    BY <1>3, <1>4, <1>5

-----------------------------------------------------------------------------
\* The pair

LEMMA ArchiveIsDescribed ==
    ASSUME Preflighted, HasRead("source"), HasRead("target"),
           \A s \in Series : EntryOf(input, s).npy.exact
    PROVE  ArchiveHolds(input)
PROOF
  <1>1. /\ DOMAIN input.entries = {1, 2}
        /\ \A i \in {1, 2} : /\ input.entries[i] \in Entries
                             /\ input.entries[i].name \in Series
                             /\ EntryOf(input, input.entries[i].name) = input.entries[i]
        /\ \A s \in Series : \E i \in {1, 2} : input.entries[i].name = s
    BY EntryOfNames DEF Preflighted
  <1>2. \A i \in {1, 2} : Intact(input.entries[i]) /\ input.entries[i].npy.exact
    BY <1>1 DEF HasRead, Series
  <1>3. \A i \in {1, 2} : input.entries[i].sound /\ input.entries[i].usize <= MaxMember
    BY <1>1 DEF Preflighted, EntriesAreSound, DeclaredSizesFit
  <1>4. \A i \in {1, 2} : IsWhole(input.entries[i])
    BY <1>2, <1>3 DEF Intact, IsWhole
  <1>5. \A i \in {1, 2} : \A b \in Bytes(input.entries[i]) : b < input.central
    <2>1. \A i \in {1, 2} : MemberRange(input.entries[i]).to <= input.central
      BY <1>1 DEF Preflighted, EntriesAreSound
    <2>2. \A i \in {1, 2} : MemberRange(input.entries[i]).to \in Nat
                            /\ MemberRange(input.entries[i]).from \in Nat
      BY <1>1, RangeIsNotEmpty
    <2>3. input.central \in Nat
      BY DEF Preflighted, Archives
    <2> QED
      BY <2>1, <2>2, <2>3 DEF Bytes
  <1>6. Bytes(input.entries[1]) \cap Bytes(input.entries[2]) = {}
    BY RangesShareNothing DEF Preflighted
  <1>7. Delimited(input) /\ input.directory <= MaxDirectory
        /\ input.entries[1].usize + input.entries[2].usize <= MaxTotal
    BY DEF Preflighted, DeclaredSizesFit
  <1> QED
    BY <1>1, <1>4, <1>5, <1>6, <1>7 DEF ArchiveHolds

LEMMA MakePairKeeps ==
    ASSUME IInv, MakePair
    PROVE  IInv'
PROOF
  <1>1. /\ pc = "pair" /\ Typed /\ LimitsHold
        /\ UNCHANGED <<input, reading, cursor, pending, consumed, observed, place, arrays>>
    BY DEF IInv, MakePair, deflating
  <1>2. \/ pc' = "raised" /\ error' = "malformed"
        \/ /\ pc' = "loaded" /\ error' = error
           /\ input.format = "npz" => \A s \in Series : EntryOf(input, s).npy.exact
           /\ arrays["source"].length = arrays["target"].length
           /\ arrays["source"].length > MaxLag
    BY DEF MakePair, Require, Raise, Goto
  <1>3. CASE pc' = "raised" /\ error' = "malformed"
    BY <1>1, <1>3, RaisingKeeps
  <1>4. CASE /\ pc' = "loaded" /\ error' = error
             /\ input.format = "npz" => \A s \in Series : EntryOf(input, s).npy.exact
             /\ arrays["source"].length = arrays["target"].length
             /\ arrays["source"].length > MaxLag
    <2>1. /\ IF input.format = "npz" THEN ArchiveHolds(input) ELSE TextHolds(input)
          /\ \A s \in Series : arrays[s] = [from |-> s, length |-> LengthOf(input, s)]
      <3>1. CASE Preflighted /\ HasRead("source") /\ HasRead("target")
        <4>1. input.format = "npz"
          BY <3>1, FormatsDiffer DEF Preflighted
        <4>2. ArchiveHolds(input)
          BY <1>4, <3>1, <4>1, ArchiveIsDescribed
        <4> QED
          BY <3>1, <4>1, <4>2 DEF HasRead, LengthOf, Series
      <3>2. CASE RowsRead /\ place.line = Len(input.lines) + 1 /\ Len(input.lines) >= 2
        <4>1. input.format # "npz" /\ Len(input.lines) \in Nat
          BY <1>1, <3>2, FormatsDiffer, TextShape DEF RowsRead, Typed
        <4>2. TextHolds(input)
          <5>1. /\ place.line - 2 <= MaxRows /\ place.line - 1 = Len(input.lines)
                /\ MaxRows \in Nat
            BY <3>2, <4>1, InputAssumption DEF RowsRead
          <5>2. Len(input.lines) \in 2 .. MaxRows + 1
            BY <3>2, <4>1, <5>1
          <5> QED
            BY <3>2, <5>1, <5>2 DEF RowsRead, TextHolds
        <4>3. \A s \in Series : arrays[s] = [from |-> s, length |-> Len(input.lines) - 1]
          BY <3>2, <4>1 DEF RowsRead
        <4> QED
          BY <4>1, <4>2, <4>3 DEF LengthOf
      <3> QED
        BY <1>1, <3>1, <3>2 DEF IInv, AtStep
    <2>2. arrays = [s \in Series |-> [from |-> s, length |-> LengthOf(input, s)]]
      <3>1. arrays = [s \in Series |-> arrays[s]]
        BY <1>1 DEF Typed
      <3> QED
        BY <2>1, <3>1
    <2>3. LoadedIsDescribed'
      BY <1>1, <1>4, <2>1, <2>2 DEF LoadedIsDescribed, Describes, Series
    <2> QED
      BY <1>1, <1>4, <2>3 DEF IInv, Typed, AtStep, LimitsHold, Places
  <1> QED
    BY <1>2, <1>3, <1>4

-----------------------------------------------------------------------------
\* Every reachable state

LEMMA NextKeeps ==
    IInv /\ [Next]_vars => IInv'
PROOF
  <1> SUFFICES ASSUME IInv, [Next]_vars
               PROVE  IInv'
    OBVIOUS
  <1>1. CASE RefuseStream
    BY <1>1, RaisingKeeps DEF RefuseStream, Raise, deflating
  <1>2. CASE Truncated
    BY <1>2, RaisingKeeps DEF Truncated, Raise, deflating
  <1>3. CASE UNCHANGED vars
    BY <1>3 DEF vars, deflating, IInv, Typed, AtStep, LimitsHold, LoadedIsDescribed, Preflighted,
                HasRead, Extracted, RowsRead, Member
  <1> QED
    BY <1>1, <1>2, <1>3, PreflightKeeps, ExtractStoredKeeps, OpenDeflatedKeeps, InflateKeeps,
       LoadMemberKeeps, ReadHeaderKeeps, ReadRowKeeps, CloseTextKeeps, MakePairKeeps
    DEF Next, Stopped

LEMMA SpecKeepsIInv ==
    Spec => []IInv
PROOF
  BY InitEstablishes, NextKeeps, PTL DEF Spec

\* A pair that load_npz or load_csv returns is the one the file describes: each series from
\* the member or the column of its name, whole, checked against its headers, from bytes that
\* belong to no other member.
THEOREM LoadedPairIsDescribed ==
    Spec => []LoadedIsDescribed
PROOF
  <1>1. IInv => LoadedIsDescribed
    BY DEF IInv
  <1> QED
    BY <1>1, SpecKeepsIInv, PTL

\* However the decompressor behaves, no more than one byte over the limit is ever held, and
\* only a file that exceeds a limit is refused for one.
THEOREM LimitsAreKept ==
    Spec => []LimitsHold
PROOF
  <1>1. IInv => LimitsHold
    BY DEF IInv
  <1> QED
    BY <1>1, SpecKeepsIInv, PTL

-----------------------------------------------------------------------------
\* How long a decoding takes

\* What follows the member that is read: the other one.
StepsLater ==
    IF reading = "source" THEN EntryOf(input, "target").csize + MaxMember + 5 ELSE 0

\* A member is opened, inflated by at least a byte a turn, and verified.
MemberSteps == Member.csize + MaxMember + 5 + StepsLater

\* The most that can follow, as the limits and the sizes in the headers bound it.
StepsLeft ==
    CASE pc = "preflight" ->
            IF Delimited(input) /\ EntriesAreSound(input) THEN MemberSteps + 1 ELSE 1
      [] pc = "extract" -> MemberSteps
      [] pc = "inflate" -> MemberSteps - 1 - consumed - observed
      [] pc = "verify" -> 2 + StepsLater
      [] pc = "header" -> Len(input.lines) + 3
      [] pc = "row" -> Len(input.lines) + 3 - place.line
      [] pc = "pair" -> 1
      [] OTHER -> 0

\* The sizes a bound is made of, once the directory is sound.
LEMMA MembersHaveSizes ==
    ASSUME Typed, input \in Archives, Delimited(input), EntriesAreSound(input)
    PROVE  /\ Member.csize \in Nat /\ MaxMember \in Nat /\ StepsLater \in Nat
           /\ reading = "source" =>
                  StepsLater = EntryOf(input, "target").csize + MaxMember + 5
           /\ reading = "target" => StepsLater = 0
           /\ MemberSteps \in Nat /\ MemberSteps >= 5 + StepsLater
PROOF
  <1>1. \A s \in Series : EntryOf(input, s) \in Entries
    BY EntryOfNames
  <1>2. \A s \in Series : EntryOf(input, s).csize \in Nat
    BY <1>1 DEF Entries
  <1>3. EntryOf(input, "target").csize \in Nat /\ Member.csize \in Nat /\ MaxMember \in Nat
    BY <1>2, InputAssumption DEF Member, Typed, Series
  <1>4. reading \in {"source", "target"}
    BY DEF Typed, Series
  <1> QED
    BY <1>3, <1>4 DEF StepsLater, MemberSteps

\* What is left of a deflated member: the bytes neither taken nor returned yet.
LEMMA InflatingIsBounded ==
    ASSUME IInv, pc = "inflate"
    PROVE  /\ {consumed, observed, StepsLater, MemberSteps} \subseteq Nat
           /\ StepsLeft = MemberSteps - 1 - consumed - observed
           /\ StepsLeft \in Nat /\ StepsLeft >= 3 + StepsLater
PROOF
  <1>1. /\ Typed /\ Preflighted /\ consumed + pending = cursor /\ cursor <= Member.csize
        /\ observed <= MaxMember + 1
    BY DEF IInv, AtStep, LimitsHold
  <1>2. {cursor, pending, consumed, observed} \subseteq Nat
    BY <1>1 DEF Typed
  <1>3. Member.csize \in Nat /\ MaxMember \in Nat /\ StepsLater \in Nat /\ MemberSteps \in Nat
    BY <1>1, MembersHaveSizes DEF Preflighted
  <1>4. StepsLeft = MemberSteps - 1 - consumed - observed
    BY DEF StepsLeft
  <1>5. consumed <= Member.csize
    BY <1>1, <1>2, <1>3
  <1> QED
    BY <1>1, <1>2, <1>3, <1>4, <1>5 DEF MemberSteps

\* There is always a number of them, and one at least before the end.
LEMMA StepsAreCounted ==
    ASSUME IInv
    PROVE  /\ StepsLeft \in Nat
           /\ pc \notin {"loaded", "raised"} => StepsLeft >= 1
           /\ pc \in {"header", "row"} => Len(input.lines) \in Nat
PROOF
  <1>1. Typed /\ pc \in Places
    BY DEF IInv, Typed
  <1>2. CASE pc = "preflight"
    <2>1. input \in Archives
      BY <1>2 DEF IInv, AtStep
    <2>2. Delimited(input) /\ EntriesAreSound(input) => MemberSteps \in Nat
      BY <1>1, <2>1, MembersHaveSizes
    <2> QED
      BY <1>2, <2>2 DEF StepsLeft
  <1>3. CASE pc \in {"extract", "verify"}
    <2>1. MemberSteps \in Nat /\ StepsLater \in Nat /\ MemberSteps >= 5 + StepsLater
      BY <1>1, <1>3, MembersHaveSizes DEF IInv, AtStep, Preflighted
    <2> QED
      BY <1>3, <2>1 DEF StepsLeft
  <1>4. CASE pc = "inflate"
    BY <1>4, InflatingIsBounded
  <1>5. CASE pc \in {"header", "row"}
    <2>1. input \in Inputs \cap Texts
      BY <1>1, <1>5 DEF IInv, AtStep, RowsRead, Typed
    <2>2. Len(input.lines) \in Nat
      BY <2>1, TextShape
    <2>3. pc = "row" => place.line \in 2 .. Len(input.lines) + 1
      BY DEF IInv, AtStep, RowsRead
    <2> QED
      BY <1>5, <2>2, <2>3 DEF StepsLeft
  <1>6. CASE pc \in {"pair", "loaded", "raised"}
    BY <1>6 DEF StepsLeft
  <1> QED
    BY <1>1, <1>2, <1>3, <1>4, <1>5, <1>6 DEF Places

\* A step that ends the decoding leaves none.
LEMMA EndingLeavesNone ==
    ASSUME IInv, pc \notin {"loaded", "raised"}, pc' \in {"loaded", "raised"}
    PROVE  StepsLeft' < StepsLeft
PROOF
  <1>1. StepsLeft' = 0
    BY DEF StepsLeft
  <1> QED
    BY <1>1, StepsAreCounted

\* A directory that is accepted has two members to extract.
LEMMA PreflightIsForward ==
    ASSUME IInv, Preflight
    PROVE  StepsLeft' < StepsLeft
PROOF
  <1>1. /\ pc = "preflight" /\ Typed /\ input \in Archives
        /\ UNCHANGED <<input, reading>>
    BY DEF IInv, AtStep, Preflight
  <1>2. \/ pc' = "raised"
        \/ pc' = "extract" /\ Delimited(input) /\ EntriesAreSound(input)
    BY DEF Preflight, Require, Raise, Goto
  <1>3. CASE pc' = "extract" /\ Delimited(input) /\ EntriesAreSound(input)
    <2>1. MemberSteps \in Nat
      BY <1>1, <1>3, MembersHaveSizes
    <2>2. MemberSteps' = MemberSteps
      BY <1>1 DEF MemberSteps, Member, StepsLater
    <2> QED
      BY <1>1, <1>3, <2>1, <2>2 DEF StepsLeft
  <1> QED
    BY <1>1, <1>2, <1>3, EndingLeavesNone

\* A member is opened once.
LEMMA OpeningIsForward ==
    ASSUME IInv, ExtractStored \/ OpenDeflated
    PROVE  StepsLeft' < StepsLeft
PROOF
  <1>1. pc = "extract" /\ UNCHANGED <<input, reading>>
    BY DEF ExtractStored, OpenDeflated
  <1>2. \/ pc' \in {"raised", "verify"}
        \/ pc' = "inflate" /\ consumed' = 0 /\ observed' = 0
    BY DEF ExtractStored, OpenDeflated, Require, Raise, Goto
  <1>3. MemberSteps' = MemberSteps /\ StepsLater' = StepsLater
    BY <1>1 DEF MemberSteps, Member, StepsLater
  <1>4. MemberSteps \in Nat /\ StepsLater \in Nat /\ MemberSteps >= 5 + StepsLater
    BY <1>1, MembersHaveSizes DEF IInv, AtStep, Preflighted
  <1>5. CASE pc' # "raised"
    BY <1>1, <1>2, <1>3, <1>4, <1>5 DEF StepsLeft
  <1> QED
    BY <1>1, <1>5, EndingLeavesNone

\* A turn that is followed by another one has taken or returned a byte.
LEMMA TurnsProgress ==
    ASSUME IInv, Inflate
    PROVE  \/ pc' \in {"raised", "verify"}
           \/ pc' = "inflate" /\ consumed' + observed' > consumed + observed
PROOF
  <1>1. /\ {cursor, pending, consumed, observed} \subseteq Nat
        /\ consumed <= Member.stream.length /\ observed <= MaxMember + 1
        /\ cursor <= Member.csize /\ Typed /\ Preflighted
    BY DEF IInv, Typed, AtStep, LimitsHold, Inflate
  <1>2. Member.csize \in Nat /\ Member.stream.length \in Nat /\ MaxMember \in Nat /\ Chunk \in Nat
    BY <1>1, MemberIsPreflighted, InputAssumption
  <1> DEFINE offered == IF pending > 0 THEN pending ELSE Smaller(Chunk, Member.csize - cursor)
             read == IF pending > 0 THEN cursor ELSE cursor + offered
             most == Smaller(offered, Member.stream.length - consumed)
  <1>3. PICK taken \in 0 .. most, given \in 0 .. Room :
            /\ AfterInflating(offered, read, taken, given)
            /\ consumed' = consumed + taken
            /\ observed' = observed + given
    BY DEF Inflate
  <1>4. offered \in Nat /\ most \in Nat /\ Room \in Nat
    BY <1>1, <1>2 DEF Smaller, Room
  <1> HIDE DEF offered, read, most
  <1>5. taken \in Nat /\ given \in Nat
    BY <1>3, <1>4
  <1>6. pc' \in {"raised", "verify"} \/ (pc' = "inflate" /\ (taken > 0 \/ given > 0))
    BY <1>3 DEF AfterInflating, Require, Raise, Goto
  <1> QED
    BY <1>1, <1>3, <1>5, <1>6

\* So each turn leaves fewer bytes to take or to return.
LEMMA InflateIsForward ==
    ASSUME IInv, Inflate
    PROVE  StepsLeft' < StepsLeft
PROOF
  <1>1. pc = "inflate" /\ UNCHANGED <<input, reading>>
    BY DEF Inflate
  <1>2. MemberSteps' = MemberSteps /\ StepsLater' = StepsLater
    BY <1>1 DEF MemberSteps, Member, StepsLater
  <1>3. IInv'
    BY InflateKeeps
  <1>4. /\ consumed' \in Nat /\ observed' \in Nat
        /\ \/ pc' \in {"raised", "verify"}
           \/ pc' = "inflate" /\ consumed' + observed' > consumed + observed
    BY <1>3, TurnsProgress DEF IInv, Typed
  <1>5. {consumed, observed} \subseteq Nat /\ MemberSteps \in Nat /\ StepsLater \in Nat
        /\ StepsLeft = MemberSteps - 1 - consumed - observed
        /\ StepsLeft \in Nat /\ StepsLeft >= 3 + StepsLater
    BY <1>1, InflatingIsBounded
  <1>6. CASE pc' = "verify"
    <2>1. StepsLeft' = 2 + StepsLater
      BY <1>2, <1>6 DEF StepsLeft
    <2> QED
      BY <1>5, <2>1
  <1>7. CASE pc' = "inflate" /\ consumed' + observed' > consumed + observed
    <2>1. StepsLeft' = MemberSteps - 1 - consumed' - observed'
      BY <1>2, <1>7 DEF StepsLeft
    <2> QED
      BY <1>4, <1>5, <1>7, <2>1
  <1> QED
    BY <1>1, <1>4, <1>6, <1>7, EndingLeavesNone

\* The source is followed by the target, the target by the pair.
LEMMA LoadingIsForward ==
    ASSUME IInv, LoadMember
    PROVE  StepsLeft' < StepsLeft
PROOF
  <1>1. pc = "verify" /\ Typed /\ Preflighted /\ input' = input
    BY DEF IInv, AtStep, LoadMember
  <1>2. /\ Member.csize \in Nat /\ MaxMember \in Nat /\ StepsLater \in Nat
        /\ reading = "source" => StepsLater = EntryOf(input, "target").csize + MaxMember + 5
        /\ StepsLeft = 2 + StepsLater
    BY <1>1, MembersHaveSizes DEF Preflighted, StepsLeft
  <1>3. \/ pc' = "raised"
        \/ pc' = "extract" /\ reading = "source" /\ reading' = "target"
        \/ pc' = "pair"
    BY DEF LoadMember, Require, Raise, Goto
  <1>4. CASE pc' = "extract" /\ reading = "source" /\ reading' = "target"
    <2>1. StepsLeft' = Member'.csize + MaxMember + 5 + StepsLater'
      BY <1>4 DEF StepsLeft, MemberSteps
    <2>2. StepsLater' = 0
      BY <1>4 DEF StepsLater
    <2>3. Member' = EntryOf(input, "target")
      BY <1>1, <1>4 DEF Member
    <2>4. EntryOf(input, "target").csize \in Nat
      <3>1. EntryOf(input, "target") \in Entries
        BY <1>1, EntryOfNames DEF Preflighted, Series
      <3> QED
        BY <3>1 DEF Entries
    <2> QED
      BY <1>2, <1>4, <2>1, <2>2, <2>3, <2>4
  <1>5. CASE pc' = "pair"
    BY <1>2, <1>5 DEF StepsLeft
  <1> QED
    BY <1>1, <1>3, <1>4, <1>5, EndingLeavesNone

\* The header and every accepted row are whole lines.
LEMMA ReadingIsForward ==
    ASSUME IInv, ReadHeader \/ ReadRow
    PROVE  StepsLeft' < StepsLeft
PROOF
  <1>1. pc \in {"header", "row"} /\ input' = input
    BY DEF ReadHeader, ReadRow
  <1>2. Len(input.lines) \in Nat
    BY <1>1, StepsAreCounted
  <1>3. pc' \in {"raised", "row"}
    BY DEF ReadHeader, ReadRow, Require, Raise, Goto
  <1>4. CASE pc = "header" /\ pc' = "row"
    <2>1. IInv'
      BY <1>4, ReadHeaderKeeps, ReadRowKeeps
    <2>2. place'.line \in 2 .. Len(input.lines) + 1
      BY <1>1, <1>4, <2>1 DEF IInv, AtStep, RowsRead
    <2> QED
      BY <1>1, <1>2, <1>4, <2>2 DEF StepsLeft
  <1>5. CASE pc = "row" /\ pc' = "row"
    <2>1. /\ input \in Inputs \cap Texts /\ place \in [line : Nat \ {0}, taken : Nat]
          /\ place.taken = 0 /\ place.line \in 2 .. Len(input.lines) + 1
      BY <1>5 DEF IInv, Typed, AtStep, RowsRead
    <2>2. ~EndOfText /\ Advance /\ Record <= MaxRecord
      BY <1>5 DEF ReadHeader, ReadRow, Require, Raise, Goto
    <2>3. place.line \in 1 .. Len(input.lines)
      BY <1>2, <2>1, <2>2 DEF EndOfText, Lines
    <2>4. place'.line = place.line + 1
      BY <2>1, <2>2, <2>3, RecordIsALine
    <2> QED
      BY <1>1, <1>2, <1>5, <2>3, <2>4 DEF StepsLeft
  <1> QED
    BY <1>1, <1>3, <1>4, <1>5, EndingLeavesNone

\* The other steps end the decoding, or the reading of the text.
LEMMA ClosingIsForward ==
    ASSUME IInv, RefuseStream \/ Truncated \/ CloseText \/ MakePair
    PROVE  StepsLeft' < StepsLeft
PROOF
  <1>1. /\ pc \notin {"loaded", "raised"}
        /\ pc' \in {"loaded", "raised"} \/ (pc = "row" /\ pc' = "pair")
    BY DEF RefuseStream, Truncated, CloseText, MakePair, Require, Raise, Goto
  <1>2. CASE pc = "row" /\ pc' = "pair"
    <2>1. Len(input.lines) \in Nat /\ place.line \in 2 .. Len(input.lines) + 1
      BY <1>2, StepsAreCounted DEF IInv, AtStep, RowsRead
    <2> QED
      BY <1>2, <2>1 DEF StepsLeft
  <1> QED
    BY <1>1, <1>2, EndingLeavesNone

\* Decoding is bounded by the file and the limits, whatever the decompressor does: every step
\* leaves fewer to come, since a turn without progress is the last one
\* (_extract_deflated_member, load_csv).
THEOREM DecodingIsBounded ==
    Spec => /\ [](StepsLeft \in Nat)
            /\ [][StepsLeft' < StepsLeft]_vars
PROOF
  <1>1. IInv => StepsLeft \in Nat
    BY StepsAreCounted
  <1>2. ASSUME IInv, [Next]_vars, ~UNCHANGED vars
        PROVE  StepsLeft' < StepsLeft
    BY <1>2, PreflightIsForward, OpeningIsForward, InflateIsForward, LoadingIsForward,
       ReadingIsForward, ClosingIsForward DEF Next, Stopped
  <1>3. IInv /\ [Next]_vars => [StepsLeft' < StepsLeft]_vars
    BY <1>2
  <1> QED
    BY <1>1, <1>3, SpecKeepsIInv, PTL DEF Spec
=============================================================================
