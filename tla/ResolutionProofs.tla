-------------------------- MODULE ResolutionProofs --------------------------
(***************************************************************************)
(* Resolver ownership for any number of objects, addresses, concurrent     *)
(* resolves and changes by other code.                                     *)
(*                                                                         *)
(* The argument: a live weak reference has its record at the address of    *)
(* its object, because addresses of living objects differ; what that       *)
(* record holds is what the resolution was when it was returned, because   *)
(* an object is registered once; and while nobody changes anything, it is  *)
(* that still.                                                             *)
(***************************************************************************)
EXTENDS Resolution, TLAPS

-----------------------------------------------------------------------------
\* Types

AtWork == {"build", "construct", "snapshot", "confirm"}

Phases == {"start", "returned", "raised"} \cup AtWork

CallRecords ==
    [phase : Phases, request : Requests \cup {None}, step : {None, "statistic", "null"},
     object : Objects \cup {None}, seen : Statistics \cup {None}, snapshot : Views \cup {None}]

GateRecords ==
    [pc : {"idle", "statistic", "null", "owned", "refused"},
     kind : {None, "pure", "verifier", "public"}, object : Objects \cup {None},
     record : Views \cup {None}, seen : Statistics \cup {None}]

GraphIsTyped ==
    /\ slots \in [Objects -> Slots \cup {None}]
    /\ box \in [Objects -> Boxes \cup {None}]
    /\ value \in [Objects -> Contents \cup {None}]
    /\ world \in [getters : {0, 1}, registry : {0, 1}, entries : {0, 1}]

LivesAreTyped ==
    /\ address \in [Objects -> Addresses \cup {None}]
    /\ weak \in [Objects -> {"none", "live", "cleared"}]
    /\ pending \subseteq [object : Objects, id : Addresses]
    /\ records \in [Addresses -> Entries \cup {None}]
    /\ owned \in [Objects -> Views \cup {None}]

TypeOK ==
    /\ GraphIsTyped
    /\ LivesAreTyped
    /\ call \in [Resolvers -> CallRecords]
    /\ gate \in GateRecords
    /\ meddles \in Nat

-----------------------------------------------------------------------------
\* The invariant of the objects

\* What is referred to exists.
ReferencesHold ==
    /\ \A s \in Objects :
        slots[s] # None => value[slots[s].plan] # None /\ box[slots[s].adapters] # None
    /\ \A b \in Objects :
        box[b] # None => value[box[b].statistic] # None /\ value[box[b].null] # None

UnusedAreBlank ==
    \A s \in Objects : value[s] = None /\ slots[s] = None =>
        address[s] = None /\ weak[s] = "none" /\ owned[s] = None

\* The object a call works on is its own and not registered yet.
CallIsOrderly(c) ==
    LET s == call[c].object
    IN  /\ call[c].phase \notin AtWork => s = None /\ call[c].step = None
        /\ call[c].phase \in AtWork =>
               /\ s \in Objects /\ value[s] # None /\ weak[s] = "none" /\ owned[s] = None
               /\ call[c].step # None
        /\ call[c].phase \in {"start", "build"} => call[c].request # None
        /\ call[c].phase = "build" => slots[s] = None /\ address[s] = None
        /\ call[c].phase \in AtWork \ {"build"} => slots[s] # None /\ address[s] # None
        /\ call[c].phase = "confirm" => call[c].snapshot # None

CallsAreApart ==
    \A c, d \in Resolvers : call[c].object # None /\ call[c].object = call[d].object => c = d

\* Two objects that live do so at different addresses.
AddressesAreOwn ==
    \A s, t \in Objects : address[s] # None /\ address[s] = address[t] => s = t

\* A live reference has its record under the id of its object, and the record holds what the
\* resolution was when it was returned.
LiveAreRecorded ==
    \A s \in Objects : weak[s] = "live" =>
        /\ address[s] # None /\ slots[s] # None /\ owned[s] # None
        /\ records[address[s]] = [reference |-> s, snapshot |-> owned[s]]

\* A record without its reference waits for a callback.
RecordsAreDue ==
    \A a \in Addresses : records[a] # None =>
        LET s == records[a].reference
        IN  \/ weak[s] = "live" /\ address[s] = a
            \/ [object |-> s, id |-> a] \in pending

PendingAreCleared == \A dead \in pending : weak[dead.object] = "cleared"

OwnedWereMade == \A s \in Objects : owned[s] # None => slots[s] # None /\ weak[s] # "none"

GateIsOrderly ==
    gate.pc \in {"statistic", "null"} =>
        /\ gate.kind = "public" /\ gate.object \in Objects
        /\ slots[gate.object] # None /\ owned[gate.object] # None
        /\ gate.record = owned[gate.object]

LivesInv == LiveAreRecorded /\ RecordsAreDue /\ PendingAreCleared /\ AddressesAreOwn

CallsInv == (\A c \in Resolvers : CallIsOrderly(c)) /\ CallsAreApart

ResolutionInv ==
    /\ TypeOK
    /\ ReferencesHold /\ UnusedAreBlank /\ OwnedWereMade
    /\ CallsInv
    /\ LivesInv
    /\ GateIsOrderly

-----------------------------------------------------------------------------
\* The invariant of a run in which nobody changes anything

\* A resolution as its resolve made it for a request.
MadeFor(s, r) ==
    /\ slots[s] = [plan |-> s, adapters |-> s]
    /\ box[s] = [statistic |-> s, null |-> s]
    /\ value[s] = [plan |-> r, statistic |-> r.statistic, null |-> r.null]

CallIsHonest(c) ==
    LET s == call[c].object
        r == call[c].request
    IN  /\ call[c].phase # "raised"
        /\ call[c].phase = "build" =>
               /\ value[s].statistic = r.statistic
               /\ call[c].step = "null" => value[s].null = r.null
        /\ call[c].phase \in AtWork \ {"build"} => r \in Requests /\ MadeFor(s, r)
        /\ call[c].step = "null" => call[c].seen = r.statistic
        /\ call[c].phase = "confirm" => call[c].snapshot = View(s)

OwnedAreHonest ==
    \A s \in Objects : owned[s] # None =>
        (\E r \in Requests : MadeFor(s, r)) /\ owned[s] = View(s)

GateIsHonest == gate.pc = "null" => gate.seen = View(gate.object).statisticBytes

Honest ==
    meddles = 0 =>
        /\ world = Canonical
        /\ \A c \in Resolvers : CallIsHonest(c)
        /\ OwnedAreHonest
        /\ GateIsHonest

-----------------------------------------------------------------------------
\* What is read of a resolution

LEMMA ViewIsTyped ==
    ASSUME GraphIsTyped, ReferencesHold, NEW s \in Objects, slots[s] # None
    PROVE  View(s) \in Views
<1> DEFINE adapters == slots[s].adapters
<1>1. slots[s] \in Slots /\ slots[s].plan \in Objects /\ adapters \in Objects
    BY DEF GraphIsTyped, Slots
<1>2. value[slots[s].plan] # None /\ box[adapters] # None
    BY DEF ReferencesHold
<1>3. box[adapters].statistic \in Objects /\ box[adapters].null \in Objects
    BY <1>1, <1>2 DEF GraphIsTyped, Boxes
<1>4. value[box[adapters].statistic] # None /\ value[box[adapters].null] # None
    BY <1>1, <1>2 DEF ReferencesHold
<1>5. \A t \in Objects : value[t] # None =>
        /\ value[t].plan \in Requests \cup {None} /\ value[t].statistic \in Statistics \cup {None}
        /\ value[t].null \in Nulls \cup {None}
    BY DEF GraphIsTyped, Contents
<1>6. world.getters \in {0, 1}
    BY DEF GraphIsTyped
<1> HIDE DEF adapters
<1> QED
    BY <1>1, <1>2, <1>3, <1>4, <1>5, <1>6 DEF View, Views, adapters

LEMMA FreshIsUnused ==
    ASSUME Unused # {}
    PROVE  Fresh \in Objects /\ value[Fresh] = None /\ slots[Fresh] = None
BY DEF Fresh, Unused

LEMMA CallIsTyped ==
    ASSUME TypeOK, NEW c \in Resolvers
    PROVE  /\ call[c] \in CallRecords
           /\ call[c].phase \in Phases /\ call[c].request \in Requests \cup {None}
           /\ call[c].step \in {None, "statistic", "null"} /\ call[c].object \in Objects \cup {None}
           /\ call[c].seen \in Statistics \cup {None} /\ call[c].snapshot \in Views \cup {None}
           /\ DOMAIN call = Resolvers
BY DEF TypeOK, CallRecords

\* A call at work has an object, which says what the getters of its adapters answer.
LEMMA CallAtWork ==
    ASSUME TypeOK, ReferencesHold, CallsInv, NEW c \in Resolvers, call[c].step # None
    PROVE  /\ call[c].phase \in AtWork
           /\ call[c].object \in Objects /\ value[call[c].object] \in Contents
           /\ value[call[c].object] # None
           /\ slots[call[c].object] # None <=> call[c].phase # "build"
           /\ StatisticOf(call[c].object) \in Statistics \cup {None}
<1> DEFINE s == call[c].object
<1>1. CallIsOrderly(c)
    BY DEF CallsInv
<1>2. call[c].phase \in AtWork
    BY <1>1 DEF CallIsOrderly
<1>3. s \in Objects /\ value[s] # None /\ (slots[s] # None <=> call[c].phase # "build")
    BY <1>1, <1>2 DEF CallIsOrderly, AtWork
<1>4. value[s] \in Contents /\ value[s].statistic \in Statistics \cup {None}
    BY <1>3 DEF TypeOK, GraphIsTyped, Contents
<1>5. slots[s] # None => View(s) \in Views /\ View(s).statisticBytes \in Statistics \cup {None}
    BY <1>3, ViewIsTyped DEF TypeOK, Views
<1> QED
    BY <1>2, <1>3, <1>4, <1>5 DEF StatisticOf

LEMMA TypeInitially == Init => ResolutionInv
<1> SUFFICES ASSUME Init PROVE ResolutionInv
    OBVIOUS
<1>1. /\ address = [s \in Objects |-> None] /\ weak = [s \in Objects |-> "none"] /\ pending = {}
      /\ slots = [s \in Objects |-> None] /\ box = [s \in Objects |-> None]
      /\ value = [s \in Objects |-> None] /\ owned = [s \in Objects |-> None]
      /\ records = [a \in Addresses |-> None] /\ meddles = 0
    BY DEF Init
<1>2. \A c \in Resolvers :
        /\ call[c].phase = "start" /\ call[c].request \in Requests
        /\ call[c].step = None /\ call[c].object = None
        /\ call[c].seen = None /\ call[c].snapshot = None /\ call[c] \in CallRecords
    BY DEF Init, Call, CallRecords, Phases
<1>3. call \in [Resolvers -> CallRecords]
    BY <1>2 DEF Init
<1>4. gate \in GateRecords /\ gate.pc = "idle"
    BY DEF Init, NoGate, GateRecords
<1>5. world \in [getters : {0, 1}, registry : {0, 1}, entries : {0, 1}]
    BY DEF Init, Canonical
<1>6. TypeOK
    BY <1>1, <1>3, <1>4, <1>5 DEF TypeOK, GraphIsTyped, LivesAreTyped
<1>7. ReferencesHold /\ UnusedAreBlank /\ OwnedWereMade
    BY <1>1 DEF ReferencesHold, UnusedAreBlank, OwnedWereMade
<1>8. CallsInv
    BY <1>2, ResolutionAssumption DEF CallsInv, CallIsOrderly, CallsAreApart, AtWork
<1>9. LivesInv
    BY <1>1 DEF LivesInv, LiveAreRecorded, RecordsAreDue, PendingAreCleared, AddressesAreOwn
<1> QED
    BY <1>4, <1>6, <1>7, <1>8, <1>9 DEF ResolutionInv, GateIsOrderly

-----------------------------------------------------------------------------
\* The steps of a resolve

SameElsewhere(s) ==
    \A t \in Objects : t # s =>
        /\ address'[t] = address[t] /\ weak'[t] = weak[t] /\ owned'[t] = owned[t]
        /\ slots'[t] = slots[t] /\ box'[t] = box[t] /\ value'[t] = value[t]

\* A step that changes one call and one object leaves the other calls in order.
LEMMA OtherCallsStay ==
    ASSUME TypeOK, CallsInv, NEW c \in Resolvers, NEW s \in Objects, SameElsewhere(s),
           \A d \in Resolvers : d # c => call'[d] = call[d] /\ call[d].object # s,
           call'[c].object \in {None, s}, CallIsOrderly(c)'
    PROVE  CallsInv'
<1>1. ASSUME NEW d \in Resolvers, d # c PROVE CallIsOrderly(d)'
    <2> DEFINE t == call[d].object
    <2>1. call'[d] = call[d] /\ t # s /\ t \in Objects \cup {None}
        BY <1>1, CallIsTyped
    <2>2. t \in Objects => value'[t] = value[t] /\ weak'[t] = weak[t] /\ owned'[t] = owned[t]
                           /\ slots'[t] = slots[t] /\ address'[t] = address[t]
        BY <2>1 DEF SameElsewhere
    <2>3. CallIsOrderly(d)
        BY DEF CallsInv
    <2>4. call[d].phase \in AtWork => t \in Objects
        BY <2>3 DEF CallIsOrderly
    <2>5. CASE call[d].phase \in AtWork
        BY <2>1, <2>2, <2>3, <2>4, <2>5 DEF CallIsOrderly
    <2>6. CASE call[d].phase \notin AtWork
        BY <2>1, <2>3, <2>6 DEF CallIsOrderly, AtWork
    <2> QED
        BY <2>5, <2>6
<1>2. CallsAreApart'
    BY DEF CallsInv, CallsAreApart
<1> QED
    BY <1>1, <1>2 DEF CallsInv

\* A step that changes one call only.
LEMMA CallMoves ==
    ASSUME ResolutionInv, NEW c \in Resolvers, NEW new \in CallRecords,
           UNCHANGED <<graph, lives, records, gate, meddles, owned>>,
           call' = [call EXCEPT ![c] = new], new.object \in {None, call[c].object},
           CallIsOrderly(c)'
    PROVE  ResolutionInv'
<1>1. /\ UNCHANGED <<slots, box, value, world, address, weak, pending, records, gate, meddles, owned>>
      /\ TypeOK /\ CallsInv
    BY DEF graph, lives, ResolutionInv
<1>2. /\ call'[c] = new /\ call' \in [Resolvers -> CallRecords]
      /\ \A d \in Resolvers : d # c => call'[d] = call[d]
    BY <1>1 DEF TypeOK
<1>3. TypeOK'
    BY <1>1, <1>2 DEF TypeOK, GraphIsTyped, LivesAreTyped
<1>4. CallsInv'
    <2>1. ASSUME NEW d \in Resolvers, d # c PROVE CallIsOrderly(d)'
        BY <1>1, <1>2, <2>1 DEF CallsInv, CallIsOrderly
    <2>2. CallsAreApart'
        BY <1>1, <1>2 DEF CallsInv, CallsAreApart
    <2> QED
        BY <2>1, <2>2 DEF CallsInv
<1> QED
    BY <1>1, <1>3, <1>4 DEF ResolutionInv, ReferencesHold, UnusedAreBlank, OwnedWereMade, LivesInv,
            LiveAreRecorded, RecordsAreDue, PendingAreCleared, AddressesAreOwn, GateIsOrderly

LEMMA FailedCall ==
    ASSUME ResolutionInv, NEW c \in Resolvers, Fail(c),
           UNCHANGED <<graph, lives, records, gate, meddles, owned>>
    PROVE  ResolutionInv'
<1> DEFINE new == Call("raised", None)
<1>1. new \in CallRecords /\ new.object = None /\ new.phase = "raised" /\ new.step = None
    BY DEF Call, CallRecords, Phases
<1>2. call' = [call EXCEPT ![c] = new] /\ call'[c] = new
    BY DEF Fail, ResolutionInv, TypeOK
<1> HIDE DEF new
<1>3. CallIsOrderly(c)'
    BY <1>1, <1>2 DEF CallIsOrderly, AtWork
<1> QED
    BY <1>1, <1>2, <1>3, CallMoves

LEMMA UnderBuild ==
    ASSUME ResolutionInv, NEW c \in Resolvers, Build(c)
    PROVE  ResolutionInv'
<1>1. CASE Fail(c) /\ UNCHANGED value
    BY <1>1, FailedCall DEF Build, OfResolve, graph, lives
<1>2. CASE ~(Fail(c) /\ UNCHANGED value)
    <2> DEFINE s == Fresh
               new == [plan |-> None, statistic |-> call[c].request.statistic, null |-> None]
    <2>1. /\ call[c].phase = "start" /\ s \in Objects /\ value[s] = None /\ slots[s] = None
          /\ value' = [value EXCEPT ![s] = new]
          /\ call' = [call EXCEPT ![c].phase = "build", ![c].step = "statistic", ![c].object = s]
        BY <1>2, FreshIsUnused DEF Build
    <2>2. UNCHANGED <<slots, box, world, address, weak, pending, records, gate, meddles, owned>>
        BY DEF Build, OfResolve
    <2>3. TypeOK /\ CallIsOrderly(c) /\ call[c] \in CallRecords
        BY CallIsTyped DEF ResolutionInv, CallsInv
    <2>4. new \in Contents /\ new # None
        <3>1. call[c].request \in Requests
            BY <2>1, <2>3 DEF CallIsOrderly, CallRecords
        <3> QED
            BY <3>1, ResolutionAssumption DEF Contents, Statistics
    <2> HIDE DEF s, new
    <2>5. value' \in [Objects -> Contents \cup {None}] /\ value'[s] = new
          /\ \A t \in Objects : t # s => value'[t] = value[t]
        BY <2>1, <2>3, <2>4 DEF TypeOK, GraphIsTyped
    <2>6. /\ call' \in [Resolvers -> CallRecords] /\ call'[c].phase = "build" /\ call'[c].object = s
          /\ call'[c].step = "statistic" /\ call'[c].request = call[c].request
          /\ \A d \in Resolvers : d # c => call'[d] = call[d]
        BY <2>1, <2>3 DEF TypeOK, CallRecords, Phases, AtWork
    <2>7. TypeOK'
        BY <2>2, <2>3, <2>5, <2>6 DEF TypeOK, GraphIsTyped, LivesAreTyped
    <2>8. ReferencesHold' /\ UnusedAreBlank' /\ OwnedWereMade'
        BY <2>2, <2>3, <2>4, <2>5 DEF ResolutionInv, ReferencesHold, UnusedAreBlank, OwnedWereMade,
               TypeOK, GraphIsTyped, Slots, Boxes
    <2>9. address[s] = None /\ weak[s] = "none" /\ owned[s] = None
        BY <2>1 DEF ResolutionInv, UnusedAreBlank
    <2>10. CallIsOrderly(c)'
        BY <2>1, <2>2, <2>3, <2>4, <2>5, <2>6, <2>9, ResolutionAssumption DEF CallIsOrderly, AtWork
    <2>11. \A d \in Resolvers : call[d].object # s
        <3> SUFFICES ASSUME NEW d \in Resolvers, call[d].object = s PROVE FALSE
            OBVIOUS
        <3>1. CallIsOrderly(d) /\ s # None
            BY <2>1, ResolutionAssumption DEF ResolutionInv, CallsInv
        <3> QED
            BY <2>1, <3>1 DEF CallIsOrderly
    <2>12. SameElsewhere(s)
        BY <2>2, <2>5 DEF SameElsewhere
    <2>13. CallsInv'
        BY <2>1, <2>3, <2>6, <2>10, <2>11, <2>12, OtherCallsStay DEF ResolutionInv
    <2> QED
        BY <2>2, <2>7, <2>8, <2>13 DEF ResolutionInv, LivesInv, LiveAreRecorded, RecordsAreDue,
               PendingAreCleared, AddressesAreOwn, GateIsOrderly
<1> QED
    BY <1>1, <1>2

LEMMA UnderReadStatistic ==
    ASSUME ResolutionInv, NEW c \in Resolvers, ReadStatistic(c)
    PROVE  ResolutionInv'
<1> DEFINE s == call[c].object
<1>1. UNCHANGED <<slots, box, world, address, weak, pending, records, gate, meddles, owned>>
      /\ call[c].step = "statistic"
    BY DEF ReadStatistic, OfResolve
<1>2. /\ TypeOK /\ call[c].phase \in AtWork /\ s \in Objects /\ value[s] \in Contents /\ value[s] # None
      /\ StatisticOf(s) \in Statistics \cup {None} /\ CallIsOrderly(c) /\ call[c] \in CallRecords
    <2>1. call[c].step # None
        BY <1>1, ResolutionAssumption
    <2> QED
        BY <2>1, CallAtWork, CallIsTyped DEF ResolutionInv, CallsInv
<1>3. CASE Fail(c) /\ UNCHANGED value
    BY <1>1, <1>3, FailedCall DEF graph, lives
<1>4. CASE ~(Fail(c) /\ UNCHANGED value)
    <2> DEFINE new == [call[c] EXCEPT !.step = "null", !.seen = StatisticOf(s)]
    <2>1. /\ call' = [call EXCEPT ![c].step = "null", ![c].seen = StatisticOf(s)]
          /\ value' = IF call[c].phase = "build"
                      THEN [value EXCEPT ![s].null = call[c].request.null] ELSE value
        BY <1>4 DEF ReadStatistic
    <2>2. /\ new \in CallRecords /\ new.object = s /\ new.step = "null" /\ new.phase = call[c].phase
          /\ new.request = call[c].request /\ new.snapshot = call[c].snapshot
        BY <1>2 DEF CallRecords
    <2>3. call' = [call EXCEPT ![c] = new] /\ call'[c] = new
        BY <1>2, <2>1 DEF TypeOK
    <2> HIDE DEF new
    <2>4. CASE UNCHANGED value
        <3>1. CallIsOrderly(c)'
            BY <1>1, <1>2, <2>2, <2>3, <2>4, ResolutionAssumption DEF CallIsOrderly
        <3> QED
            BY <1>1, <2>2, <2>3, <2>4, <3>1, CallMoves DEF graph, lives
    <2>5. CASE call[c].phase = "build"
        <3> DEFINE content == [value[s] EXCEPT !.null = call[c].request.null]
        <3>1. value' = [value EXCEPT ![s] = content]
            BY <1>2, <2>1, <2>5 DEF TypeOK, GraphIsTyped
        <3>2. content \in Contents /\ content # None
            <4>1. call[c].request \in Requests
                BY <1>2, <2>5 DEF CallIsOrderly, CallRecords
            <4>2. call[c].request.null \in Nulls
                BY <4>1 DEF Nulls
            <4> QED
                BY <1>2, <4>2, ResolutionAssumption DEF Contents
        <3> HIDE DEF content
        <3>3. value' \in [Objects -> Contents \cup {None}] /\ value'[s] = content
              /\ \A t \in Objects : t # s => value'[t] = value[t]
            BY <1>2, <3>1, <3>2 DEF TypeOK, GraphIsTyped
        <3>4. call' \in [Resolvers -> CallRecords] /\ \A d \in Resolvers : d # c => call'[d] = call[d]
            BY <1>2, <2>2, <2>3 DEF TypeOK
        <3>5. TypeOK'
            BY <1>1, <1>2, <3>3, <3>4 DEF TypeOK, GraphIsTyped, LivesAreTyped
        <3>6. ReferencesHold' /\ UnusedAreBlank' /\ OwnedWereMade'
            BY <1>1, <1>2, <3>2, <3>3 DEF ResolutionInv, ReferencesHold, UnusedAreBlank, OwnedWereMade,
                   TypeOK, GraphIsTyped, Slots, Boxes
        <3>7. CallIsOrderly(c)'
            BY <1>1, <1>2, <2>2, <2>3, <2>5, <3>2, <3>3, ResolutionAssumption DEF CallIsOrderly, AtWork
        <3>8. \A d \in Resolvers : d # c => call[d].object # s
            BY <1>2, ResolutionAssumption DEF ResolutionInv, CallsInv, CallsAreApart
        <3>9. SameElsewhere(s)
            BY <1>1, <3>3 DEF SameElsewhere
        <3>10. CallsInv'
            BY <1>2, <2>2, <2>3, <3>4, <3>7, <3>8, <3>9, OtherCallsStay DEF ResolutionInv
        <3> QED
            BY <1>1, <3>5, <3>6, <3>10 DEF ResolutionInv, LivesInv, LiveAreRecorded, RecordsAreDue,
                   PendingAreCleared, AddressesAreOwn, GateIsOrderly
    <2> QED
        BY <2>1, <2>4, <2>5
<1> QED
    BY <1>3, <1>4

\* What a call at the getters of its null has.
LEMMA CallAtNull ==
    ASSUME ResolutionInv, NEW c \in Resolvers, NEW phase \in AtWork, ReadNull(c, phase)
    PROVE  /\ call[c].phase = phase /\ call[c].object \in Objects /\ call[c].object # None
           /\ UNCHANGED <<world, pending, gate, meddles>>
           /\ value[call[c].object] \in Contents /\ value[call[c].object] # None
           /\ CallIsOrderly(c) /\ call[c] \in CallRecords /\ TypeOK
           /\ \A d \in Resolvers : d # c => call[d].object # call[c].object
<1>1. call[c].step = "null" /\ call[c].step # None
    BY ResolutionAssumption DEF ReadNull
<1>2. call[c].object \in Objects /\ value[call[c].object] \in Contents /\ value[call[c].object] # None
    BY <1>1, CallAtWork DEF ResolutionInv
<1>3. \A d \in Resolvers : d # c => call[d].object # call[c].object
    BY <1>2, ResolutionAssumption DEF ResolutionInv, CallsInv, CallsAreApart
<1> QED
    BY <1>2, <1>3, CallIsTyped, ResolutionAssumption DEF ReadNull, OfResolve, ResolutionInv, CallsInv

LEMMA NextPhaseOf ==
    ASSUME TypeOK, NEW c \in Resolvers, NEW phase \in AtWork
    PROVE  \E new \in CallRecords :
                /\ NextPhase(c, phase) = [call EXCEPT ![c] = new]
                /\ new.phase = phase /\ new.step = "statistic" /\ new.object = call[c].object
                /\ new.request = call[c].request /\ new.snapshot = call[c].snapshot
                /\ new.seen = None
<1> DEFINE new == [call[c] EXCEPT !.phase = phase, !.step = "statistic", !.seen = None]
<1>1. /\ new \in CallRecords /\ new.phase = phase /\ new.step = "statistic" /\ new.object = call[c].object
      /\ new.request = call[c].request /\ new.snapshot = call[c].snapshot /\ new.seen = None
    BY CallIsTyped DEF CallRecords, Phases
<1>2. NextPhase(c, phase) = [call EXCEPT ![c] = new]
    BY CallIsTyped DEF NextPhase
<1> HIDE DEF new
<1> QED
    BY <1>1, <1>2

LEMMA UnderConstruct ==
    ASSUME ResolutionInv, NEW c \in Resolvers, Construct(c)
    PROVE  ResolutionInv'
<1> DEFINE s == call[c].object
<1>1. ReadNull(c, "build") /\ UNCHANGED <<weak, records, owned, world, pending, gate, meddles>>
    BY DEF Construct, ReadNull, OfResolve
<1>2. /\ call[c].phase = "build" /\ s \in Objects /\ value[s] \in Contents /\ value[s] # None
      /\ CallIsOrderly(c) /\ TypeOK /\ call[c] \in CallRecords
      /\ \A d \in Resolvers : d # c => call[d].object # s
    BY <1>1, CallAtNull DEF AtWork
<1>3. CASE Fail(c) /\ UNCHANGED <<address, slots, box, value>>
    BY <1>1, <1>3, FailedCall DEF graph, lives
<1>4. CASE ~(Fail(c) /\ UNCHANGED <<address, slots, box, value>>)
    <2>1. PICK a \in FreeAddresses : address' = [address EXCEPT ![s] = a]
        BY <1>4 DEF Construct
    <2>2. /\ slots' = [slots EXCEPT ![s] = [plan |-> s, adapters |-> s]]
          /\ box' = [box EXCEPT ![s] = [statistic |-> s, null |-> s]]
          /\ value' = [value EXCEPT ![s].plan = call[c].request]
          /\ call' = NextPhase(c, "construct")
        BY <1>4 DEF Construct
    <2>3. PICK new \in CallRecords :
                /\ call' = [call EXCEPT ![c] = new]
                /\ new.phase = "construct" /\ new.step = "statistic" /\ new.object = s
                /\ new.request = call[c].request
        BY <1>2, <2>2, NextPhaseOf DEF AtWork
    <2> DEFINE content == [value[s] EXCEPT !.plan = call[c].request]
               slot == [plan |-> s, adapters |-> s]
               pair == [statistic |-> s, null |-> s]
    <2>4. content \in Contents /\ content # None
        <3>1. call[c].request \in Requests
            BY <1>2 DEF CallIsOrderly, CallRecords
        <3> QED
            BY <1>2, <3>1, ResolutionAssumption DEF Contents
    <2>5. slot \in Slots /\ slot # None /\ pair \in Boxes /\ pair # None
        BY <1>2, ResolutionAssumption DEF Slots, Boxes
    <2>6. value' = [value EXCEPT ![s] = content]
        BY <1>2, <2>2 DEF TypeOK, GraphIsTyped
    <2>7. slot.plan = s /\ slot.adapters = s /\ pair.statistic = s /\ pair.null = s
        OBVIOUS
    <2>8. slots' = [slots EXCEPT ![s] = slot] /\ box' = [box EXCEPT ![s] = pair]
        BY <2>2
    <2> HIDE DEF content, slot, pair
    <2>9. /\ value' \in [Objects -> Contents \cup {None}] /\ value'[s] = content
          /\ slots' \in [Objects -> Slots \cup {None}] /\ slots'[s] = slot
          /\ box' \in [Objects -> Boxes \cup {None}] /\ box'[s] = pair
          /\ address' \in [Objects -> Addresses \cup {None}] /\ address'[s] = a /\ a # None
          /\ \A t \in Objects : t # s => /\ value'[t] = value[t] /\ slots'[t] = slots[t]
                                         /\ box'[t] = box[t] /\ address'[t] = address[t]
          /\ \A t \in Objects : address[t] # a
        <3>1. a \in Addresses /\ a # None /\ \A t \in Objects : address[t] # a
            BY ResolutionAssumption DEF FreeAddresses
        <3> QED
            BY <1>2, <2>1, <2>4, <2>5, <2>6, <2>8, <3>1 DEF TypeOK, GraphIsTyped, LivesAreTyped
    <2>10. call' \in [Resolvers -> CallRecords] /\ call'[c] = new
           /\ \A d \in Resolvers : d # c => call'[d] = call[d]
        BY <1>2, <2>3 DEF TypeOK
    <2>11. TypeOK'
        BY <1>1, <1>2, <2>9, <2>10 DEF TypeOK, GraphIsTyped, LivesAreTyped
    <2>12. ReferencesHold'
        BY <1>2, <2>4, <2>5, <2>7, <2>9 DEF ResolutionInv, ReferencesHold, TypeOK, GraphIsTyped, Slots, Boxes
    <2>13. UnusedAreBlank' /\ OwnedWereMade'
        BY <1>1, <1>2, <2>4, <2>5, <2>9 DEF ResolutionInv, UnusedAreBlank, OwnedWereMade
    <2>14. CallIsOrderly(c)'
        BY <1>1, <1>2, <2>3, <2>4, <2>5, <2>9, <2>10, ResolutionAssumption DEF CallIsOrderly, AtWork
    <2>15. SameElsewhere(s)
        BY <1>1, <2>9 DEF SameElsewhere
    <2>16. CallsInv'
        BY <1>2, <2>3, <2>10, <2>14, <2>15, OtherCallsStay DEF ResolutionInv
    <2>17. weak[s] = "none" /\ address[s] = None
        BY <1>2 DEF CallIsOrderly, AtWork
    <2>18. LiveAreRecorded'
        BY <1>1, <1>2, <2>9, <2>17 DEF ResolutionInv, LivesInv, LiveAreRecorded
    <2>19. RecordsAreDue' /\ PendingAreCleared'
        <3>1. \A b \in Addresses : records[b] # None => records[b].reference \in Objects
            BY <1>2 DEF TypeOK, LivesAreTyped, Entries
        <3> QED
            BY <1>1, <1>2, <2>9, <2>17, <3>1 DEF ResolutionInv, LivesInv, RecordsAreDue, PendingAreCleared
    <2>20. AddressesAreOwn'
        BY <1>2, <2>9 DEF ResolutionInv, LivesInv, AddressesAreOwn
    <2>21. GateIsOrderly'
        BY <1>1, <1>2, <2>5, <2>9 DEF ResolutionInv, GateIsOrderly
    <2> QED
        BY <2>11, <2>12, <2>13, <2>16, <2>18, <2>19, <2>20, <2>21 DEF ResolutionInv, LivesInv
<1> QED
    BY <1>3, <1>4

LEMMA UnderPostInit ==
    ASSUME ResolutionInv, NEW c \in Resolvers, PostInit(c)
    PROVE  ResolutionInv'
<1>1. ReadNull(c, "construct") /\ UNCHANGED <<graph, lives, records, gate, meddles, owned>>
    BY DEF PostInit, ReadNull, OfResolve, graph, lives
<1>2. /\ call[c].phase = "construct" /\ CallIsOrderly(c) /\ TypeOK /\ call[c] \in CallRecords
      /\ call[c].object \in Objects
    BY <1>1, CallAtNull DEF AtWork
<1>3. CASE Fail(c)
    BY <1>1, <1>3, FailedCall
<1>4. CASE call' = NextPhase(c, "snapshot")
    <2>1. PICK new \in CallRecords :
                /\ call' = [call EXCEPT ![c] = new]
                /\ new.phase = "snapshot" /\ new.step = "statistic" /\ new.object = call[c].object
        BY <1>2, <1>4, NextPhaseOf DEF AtWork
    <2>2. call'[c] = new
        BY <1>2, <2>1 DEF TypeOK
    <2>3. CallIsOrderly(c)'
        BY <1>1, <1>2, <2>1, <2>2, ResolutionAssumption DEF CallIsOrderly, AtWork, graph, lives
    <2> QED
        BY <1>1, <2>1, <2>3, CallMoves
<1> QED
    BY <1>3, <1>4 DEF PostInit

LEMMA UnderCapture ==
    ASSUME ResolutionInv, NEW c \in Resolvers, Capture(c)
    PROVE  ResolutionInv'
<1> DEFINE s == call[c].object
<1>1. ReadNull(c, "snapshot") /\ UNCHANGED <<graph, lives, records, gate, meddles, owned>>
    BY DEF Capture, ReadNull, OfResolve, graph, lives
<1>2. /\ call[c].phase = "snapshot" /\ CallIsOrderly(c) /\ TypeOK /\ call[c] \in CallRecords
      /\ s \in Objects
    BY <1>1, CallAtNull DEF AtWork
<1>3. CASE Fail(c)
    BY <1>1, <1>3, FailedCall
<1>4. CASE call' = [NextPhase(c, "confirm") EXCEPT ![c].snapshot = View(s)]
    <2>1. PICK next \in CallRecords :
                /\ NextPhase(c, "confirm") = [call EXCEPT ![c] = next]
                /\ next.phase = "confirm" /\ next.step = "statistic" /\ next.object = s
        BY <1>2, NextPhaseOf DEF AtWork
    <2>2. View(s) \in Views /\ View(s) # None
        <3>1. slots[s] # None
            BY <1>2 DEF CallIsOrderly, AtWork
        <3> QED
            BY <1>2, <3>1, ViewIsTyped, ResolutionAssumption DEF ResolutionInv, TypeOK
    <2> DEFINE new == [next EXCEPT !.snapshot = View(s)]
    <2>3. /\ new \in CallRecords /\ new.phase = "confirm" /\ new.step = "statistic" /\ new.object = s
          /\ new.snapshot = View(s)
        BY <2>1, <2>2 DEF CallRecords
    <2>4. call' = [call EXCEPT ![c] = new]
        BY <1>2, <1>4, <2>1 DEF TypeOK
    <2> HIDE DEF new
    <2>5. call'[c] = new
        BY <1>2, <2>4 DEF TypeOK
    <2>6. CallIsOrderly(c)'
        BY <1>1, <1>2, <2>2, <2>3, <2>5, ResolutionAssumption DEF CallIsOrderly, AtWork, graph, lives
    <2> QED
        BY <1>1, <2>3, <2>4, <2>6, CallMoves
<1> QED
    BY <1>3, <1>4 DEF Capture

LEMMA UnderRegister ==
    ASSUME ResolutionInv, NEW c \in Resolvers, Register(c)
    PROVE  ResolutionInv'
<1> DEFINE s == call[c].object
           a == address[s]
           entry == [reference |-> s, snapshot |-> View(s)]
           new == Call("returned", None)
<1>1. ReadNull(c, "confirm") /\ UNCHANGED <<address, slots, box, value, world, pending, gate, meddles>>
    BY DEF Register, ReadNull, OfResolve
<1>2. /\ call[c].phase = "confirm" /\ CallIsOrderly(c) /\ TypeOK /\ call[c] \in CallRecords
      /\ s \in Objects /\ \A d \in Resolvers : d # c => call[d].object # s
    BY <1>1, CallAtNull DEF AtWork
<1>3. CASE Fail(c) /\ UNCHANGED <<weak, records, owned>>
    BY <1>1, <1>3, FailedCall DEF graph, lives
<1>4. CASE ~(Fail(c) /\ UNCHANGED <<weak, records, owned>>)
    <2>1. /\ View(s) = call[c].snapshot
          /\ weak' = [weak EXCEPT ![s] = "live"]
          /\ records' = [records EXCEPT ![a] = entry]
          /\ owned' = [owned EXCEPT ![s] = View(s)]
          /\ call' = [call EXCEPT ![c] = new]
        BY <1>4 DEF Register
    <2>2. slots[s] # None /\ a # None /\ weak[s] = "none" /\ owned[s] = None /\ value[s] # None
        BY <1>2 DEF CallIsOrderly, AtWork
    <2>3. View(s) \in Views /\ View(s) # None /\ a \in Addresses
        BY <1>2, <2>2, ViewIsTyped, ResolutionAssumption DEF ResolutionInv, TypeOK, LivesAreTyped
    <2>4. entry \in Entries /\ entry # None /\ entry.reference = s
        BY <1>2, <2>3, ResolutionAssumption DEF Entries
    <2>5. new \in CallRecords /\ new.object = None /\ new.phase = "returned" /\ new.step = None
        BY DEF Call, CallRecords, Phases
    <2>6. entry = [reference |-> s, snapshot |-> View(s)]
        OBVIOUS
    <2> HIDE DEF entry, new, a
    <2>7. /\ weak' \in [Objects -> {"none", "live", "cleared"}] /\ weak'[s] = "live"
          /\ records' \in [Addresses -> Entries \cup {None}] /\ records'[a] = entry
          /\ owned' \in [Objects -> Views \cup {None}] /\ owned'[s] = View(s)
          /\ \A t \in Objects : t # s => weak'[t] = weak[t] /\ owned'[t] = owned[t]
          /\ \A b \in Addresses : b # a => records'[b] = records[b]
        BY <1>2, <2>1, <2>3, <2>4 DEF TypeOK, LivesAreTyped
    <2>8. call' \in [Resolvers -> CallRecords] /\ call'[c] = new
          /\ \A d \in Resolvers : d # c => call'[d] = call[d]
        BY <1>2, <2>1, <2>5 DEF TypeOK
    <2>9. TypeOK'
        BY <1>1, <1>2, <2>7, <2>8 DEF TypeOK, GraphIsTyped, LivesAreTyped
    <2>10. ReferencesHold' /\ UnusedAreBlank' /\ OwnedWereMade'
        BY <1>1, <1>2, <2>2, <2>7 DEF ResolutionInv, ReferencesHold, UnusedAreBlank, OwnedWereMade
    <2>11. CallIsOrderly(c)'
        BY <2>5, <2>8 DEF CallIsOrderly, AtWork
    <2>12. SameElsewhere(s)
        BY <1>1, <2>7 DEF SameElsewhere
    <2>13. CallsInv'
        BY <1>2, <2>5, <2>8, <2>11, <2>12, OtherCallsStay DEF ResolutionInv
    <2>14. \A t \in Objects : t # s => address[t] # a
        BY <1>2, <2>2 DEF ResolutionInv, LivesInv, AddressesAreOwn, a
    <2>15. LiveAreRecorded'
        <3> SUFFICES ASSUME NEW t \in Objects, weak'[t] = "live"
                     PROVE  /\ address[t] # None /\ slots[t] # None /\ owned'[t] # None
                            /\ records'[address[t]] = [reference |-> t, snapshot |-> owned'[t]]
            BY <1>1 DEF LiveAreRecorded
        <3>1. CASE t = s
            BY <2>2, <2>3, <2>6, <2>7, <3>1 DEF a
        <3>2. CASE t # s
            <4>1. /\ address[t] # None /\ slots[t] # None /\ owned[t] # None
                  /\ records[address[t]] = [reference |-> t, snapshot |-> owned[t]]
                BY <2>7, <3>2 DEF ResolutionInv, LivesInv, LiveAreRecorded
            <4>2. address[t] \in Addresses
                BY <1>2, <4>1 DEF TypeOK, LivesAreTyped
            <4> QED
                BY <2>7, <2>14, <3>2, <4>1, <4>2
        <3> QED
            BY <3>1, <3>2
    <2>16. RecordsAreDue'
        <3> SUFFICES ASSUME NEW b \in Addresses, records'[b] # None
                     PROVE  \/ weak'[records'[b].reference] = "live" /\ address[records'[b].reference] = b
                            \/ [object |-> records'[b].reference, id |-> b] \in pending
            BY <1>1 DEF RecordsAreDue
        <3>1. CASE b = a
            BY <2>4, <2>7, <3>1 DEF a
        <3>2. CASE b # a
            <4> DEFINE t == records[b].reference
            <4>1. records'[b] = records[b] /\ t \in Objects
                BY <1>2, <2>7, <3>2 DEF TypeOK, LivesAreTyped, Entries
            <4>2. (weak[t] = "live" /\ address[t] = b) \/ [object |-> t, id |-> b] \in pending
                BY <4>1 DEF ResolutionInv, LivesInv, RecordsAreDue
            <4> QED
                BY <2>7, <4>1, <4>2
        <3> QED
            BY <3>1, <3>2
    <2>17. PendingAreCleared'
        <3>1. \A dead \in pending : dead.object \in Objects /\ weak[dead.object] = "cleared"
            BY <1>2 DEF TypeOK, LivesAreTyped, ResolutionInv, LivesInv, PendingAreCleared
        <3>2. \A dead \in pending : dead.object # s
            BY <2>2, <3>1
        <3> QED
            BY <1>1, <2>7, <3>1, <3>2 DEF PendingAreCleared
    <2>18. AddressesAreOwn'
        BY <1>1 DEF ResolutionInv, LivesInv, AddressesAreOwn
    <2>19. GateIsOrderly'
        <3>1. gate.pc \in {"statistic", "null"} => gate.object # s /\ gate.object \in Objects
            BY <2>2 DEF ResolutionInv, GateIsOrderly
        <3> QED
            BY <1>1, <2>7, <3>1 DEF ResolutionInv, GateIsOrderly
    <2> QED
        BY <2>9, <2>10, <2>13, <2>15, <2>16, <2>17, <2>18, <2>19 DEF ResolutionInv, LivesInv
<1> QED
    BY <1>3, <1>4

-----------------------------------------------------------------------------
\* The gates

GateStep ==
    \/ \E s \in Objects : CheckPure(s) \/ EnterPublic(s)
    \/ PublicReadStatistic \/ PublicReadNull

LEMMA AnswerIsTyped ==
    ASSUME NEW kind \in {"pure", "verifier", "public"}, NEW s \in Objects, NEW holds \in BOOLEAN,
           Answer(kind, s, holds)
    PROVE  /\ gate' \in GateRecords /\ gate'.kind = kind /\ gate'.object = s
           /\ gate'.pc = IF holds THEN "owned" ELSE "refused"
BY DEF Answer, NoGate, GateRecords

\* A live resolution whose record is its own was returned by its resolve.
LEMMA RegisteredIsOwned ==
    ASSUME ResolutionInv, NEW s \in Objects, Registered(s)
    PROVE  owned[s] # None /\ RecordOf(s) = owned[s]
<1>1. weak[s] = "live"
    BY DEF Registered
<1>2. owned[s] # None /\ records[address[s]] = [reference |-> s, snapshot |-> owned[s]]
    BY <1>1 DEF ResolutionInv, LivesInv, LiveAreRecorded
<1>3. records[address[s]].snapshot = owned[s]
    BY <1>2
<1> QED
    BY <1>2, <1>3 DEF RecordOf

LEMMA UnderGate ==
    ASSUME ResolutionInv, GateStep
    PROVE  ResolutionInv'
<1>1. UNCHANGED <<slots, box, value, world, address, weak, pending, records, call, meddles, owned>>
    BY DEF GateStep, CheckPure, EnterPublic, PublicReadStatistic, PublicReadNull, OfGate, graph, lives
<1>2. TypeOK
    BY DEF ResolutionInv
<1> SUFFICES gate' \in GateRecords /\ GateIsOrderly'
    BY <1>1, <1>2 DEF ResolutionInv, TypeOK, GraphIsTyped, LivesAreTyped, ReferencesHold,
       UnusedAreBlank, OwnedWereMade, CallsInv, CallIsOrderly, CallsAreApart, LivesInv,
       LiveAreRecorded, RecordsAreDue, PendingAreCleared, AddressesAreOwn
<1>3. ASSUME NEW kind \in {"pure", "verifier", "public"}, NEW s \in Objects, NEW holds \in BOOLEAN,
             Answer(kind, s, holds)
      PROVE  gate' \in GateRecords /\ GateIsOrderly'
    BY <1>3, AnswerIsTyped DEF GateIsOrderly
<1>4. ASSUME NEW s \in Objects, CheckPure(s)
      PROVE  gate' \in GateRecords /\ GateIsOrderly'
    <2>1. PureOwned(s) \in BOOLEAN /\ VerifierOwned(s) \in BOOLEAN
        BY DEF PureOwned, VerifierOwned
    <2> QED
        BY <1>3, <1>4, <2>1 DEF CheckPure
<1>5. ASSUME NEW s \in Objects, EnterPublic(s)
      PROVE  gate' \in GateRecords /\ GateIsOrderly'
    <2>1. CASE gate' = [NoGate EXCEPT !.pc = "statistic", !.kind = "public", !.object = s,
                                      !.record = RecordOf(s)] /\ Registered(s)
        <3>1. owned[s] # None /\ RecordOf(s) = owned[s] /\ slots[s] # None /\ owned[s] \in Views
            BY <1>2, <2>1, RegisteredIsOwned DEF ResolutionInv, OwnedWereMade, TypeOK, LivesAreTyped
        <3>2. /\ gate'.kind = "public" /\ gate'.object = s /\ gate'.record = owned[s]
              /\ gate' \in GateRecords
            BY <2>1, <3>1 DEF NoGate, GateRecords
        <3> QED
            BY <1>1, <3>1, <3>2 DEF GateIsOrderly
    <2>2. CASE Answer("public", s, FALSE)
        BY <1>3, <2>2
    <2> QED
        BY <1>5, <2>1, <2>2 DEF EnterPublic
<1>6. CASE PublicReadStatistic
    <2>1. /\ gate.pc = "statistic" /\ gate \in GateRecords /\ gate.object \in Objects
          /\ slots[gate.object] # None /\ gate.kind = "public" /\ owned[gate.object] # None
          /\ gate.record = owned[gate.object]
        BY <1>2, <1>6 DEF PublicReadStatistic, ResolutionInv, GateIsOrderly, TypeOK
    <2>2. View(gate.object).statisticBytes \in Statistics \cup {None}
        BY <1>2, <2>1, ViewIsTyped DEF ResolutionInv, TypeOK, Views
    <2>3. CASE gate' = [gate EXCEPT !.pc = "null", !.seen = View(gate.object).statisticBytes]
        <3>1. /\ gate' \in GateRecords /\ gate'.kind = gate.kind /\ gate'.object = gate.object
              /\ gate'.record = gate.record
            BY <2>1, <2>2, <2>3 DEF GateRecords
        <3> QED
            BY <1>1, <2>1, <3>1 DEF GateIsOrderly
    <2>4. CASE Answer("public", gate.object, FALSE)
        BY <1>3, <2>1, <2>4
    <2> QED
        BY <1>6, <2>3, <2>4 DEF PublicReadStatistic
<1>7. CASE PublicReadNull
    <2>1. gate.object \in Objects
        BY <1>7 DEF PublicReadNull, ResolutionInv, GateIsOrderly
    <2>2. PublicHolds(gate.object) \in BOOLEAN
        BY DEF PublicHolds
    <2> QED
        BY <1>3, <1>7, <2>1, <2>2 DEF PublicReadNull
<1> QED
    BY <1>4, <1>5, <1>6, <1>7 DEF GateStep

-----------------------------------------------------------------------------
\* The life of objects

LEMMA NotInUse ==
    ASSUME TypeOK, NEW s \in Objects, ~InUse(s)
    PROVE  /\ \A c \in Resolvers : call[c].object # s
           /\ gate.pc \in {"statistic", "null"} => gate.object # s
BY DEF InUse

\* The end of a weak reference, with or without that of its object.
LEMMA UnderEnd ==
    ASSUME ResolutionInv, NEW s \in Objects, Drop(s) \/ Revive(s)
    PROVE  ResolutionInv'
<1>1. /\ TypeOK /\ address[s] # None /\ ~InUse(s) /\ address[s] \in Addresses
      /\ UNCHANGED <<slots, box, value, world, call, gate, meddles, owned, records>>
    BY DEF Drop, Revive, OfLife, graph, Alive, ResolutionInv, TypeOK, LivesAreTyped
<1>2. /\ address' \in [Objects -> Addresses \cup {None}] /\ address'[s] \in {None, address[s]}
      /\ \A t \in Objects : t # s => address'[t] = address[t]
    BY <1>1 DEF Drop, Revive, TypeOK, LivesAreTyped
<1>3. /\ weak' \in [Objects -> {"none", "live", "cleared"}]
      /\ weak'[s] = IF weak[s] = "live" THEN "cleared" ELSE weak[s]
      /\ \A t \in Objects : t # s => weak'[t] = weak[t]
    BY <1>1 DEF Drop, Revive, TypeOK, LivesAreTyped
<1>4. pending' = IF weak[s] = "live" THEN pending \cup {[object |-> s, id |-> address[s]]} ELSE pending
    BY DEF Drop, Revive
<1>5. pending' \subseteq [object : Objects, id : Addresses]
    BY <1>1, <1>4 DEF TypeOK, LivesAreTyped
<1>6. TypeOK'
    BY <1>1, <1>2, <1>3, <1>5 DEF TypeOK, GraphIsTyped, LivesAreTyped
<1>7. ReferencesHold' /\ UnusedAreBlank' /\ OwnedWereMade' /\ GateIsOrderly'
    <2>1. ReferencesHold' /\ GateIsOrderly'
        BY <1>1 DEF ResolutionInv, ReferencesHold, GateIsOrderly
    <2>2. UnusedAreBlank'
        BY <1>1, <1>2, <1>3 DEF ResolutionInv, UnusedAreBlank
    <2>3. OwnedWereMade'
        BY <1>1, <1>3 DEF ResolutionInv, OwnedWereMade
    <2> QED
        BY <2>1, <2>2, <2>3
<1>8. CallsInv'
    <2>1. ASSUME NEW c \in Resolvers PROVE CallIsOrderly(c)'
        <3>1. CallIsOrderly(c) /\ call[c].object # s /\ call[c].object \in Objects \cup {None}
            BY <1>1, NotInUse, CallIsTyped DEF ResolutionInv, CallsInv
        <3>2. call[c].phase \in AtWork => call[c].object \in Objects
            BY <3>1 DEF CallIsOrderly
        <3>3. CASE call[c].phase \in AtWork
            BY <1>1, <1>2, <1>3, <3>1, <3>2, <3>3 DEF CallIsOrderly
        <3>4. CASE call[c].phase \notin AtWork
            BY <1>1, <3>1, <3>4 DEF CallIsOrderly, AtWork
        <3> QED
            BY <3>3, <3>4
    <2>2. CallsAreApart'
        BY <1>1 DEF ResolutionInv, CallsInv, CallsAreApart
    <2> QED
        BY <2>1, <2>2 DEF CallsInv
<1>9. LiveAreRecorded'
    BY <1>1, <1>2, <1>3 DEF ResolutionInv, LivesInv, LiveAreRecorded
<1>10. RecordsAreDue'
    <2> SUFFICES ASSUME NEW a \in Addresses, records[a] # None
                 PROVE  \/ weak'[records[a].reference] = "live" /\ address'[records[a].reference] = a
                        \/ [object |-> records[a].reference, id |-> a] \in pending'
        BY <1>1 DEF RecordsAreDue
    <2> DEFINE t == records[a].reference
    <2>1. t \in Objects
        BY <1>1 DEF TypeOK, LivesAreTyped, Entries
    <2>2. (weak[t] = "live" /\ address[t] = a) \/ [object |-> t, id |-> a] \in pending
        BY DEF ResolutionInv, LivesInv, RecordsAreDue
    <2> HIDE DEF t
    <2>3. (weak'[t] = "live" /\ address'[t] = a) \/ [object |-> t, id |-> a] \in pending'
        BY <1>2, <1>3, <1>4, <2>1, <2>2
    <2> QED
        BY <2>3 DEF t
<1>11. PendingAreCleared'
    <2>1. \A dead \in pending : dead.object \in Objects /\ weak[dead.object] = "cleared"
        BY <1>1 DEF TypeOK, LivesAreTyped, ResolutionInv, LivesInv, PendingAreCleared
    <2>2. \A dead \in pending : weak'[dead.object] = "cleared"
        BY <1>3, <2>1
    <2>3. weak[s] = "live" => weak'[s] = "cleared"
        BY <1>3
    <2> QED
        BY <1>4, <2>2, <2>3 DEF PendingAreCleared
<1>12. AddressesAreOwn'
    BY <1>1, <1>2 DEF ResolutionInv, LivesInv, AddressesAreOwn
<1> QED
    BY <1>6, <1>7, <1>8, <1>9, <1>10, <1>11, <1>12 DEF ResolutionInv, LivesInv

LEMMA UnderCallback ==
    ASSUME ResolutionInv, RunCallback
    PROVE  ResolutionInv'
<1>1. UNCHANGED <<slots, box, value, world, call, gate, meddles, owned, address, weak>> /\ TypeOK
    BY DEF RunCallback, OfLife, graph, ResolutionInv
<1>2. PICK dead \in pending : records' = Discarded(dead) /\ pending' = pending \ {dead}
    BY DEF RunCallback
<1>3. dead.object \in Objects /\ dead.id \in Addresses /\ dead = [object |-> dead.object, id |-> dead.id]
    BY <1>1 DEF TypeOK, LivesAreTyped
<1>4. weak[dead.object] = "cleared"
    BY DEF ResolutionInv, LivesInv, PendingAreCleared
<1>5. /\ records' \in [Addresses -> Entries \cup {None}]
      /\ \A a \in Addresses :
            \/ records'[a] = records[a] /\ ~(a = dead.id /\ records[a] # None /\ records[a].reference = dead.object)
            \/ records'[a] = None /\ a = dead.id /\ records[a].reference = dead.object
    BY <1>1, <1>2, <1>3 DEF Discarded, TypeOK, LivesAreTyped
<1>6. TypeOK'
    BY <1>1, <1>2, <1>5 DEF TypeOK, GraphIsTyped, LivesAreTyped
<1>7. LiveAreRecorded'
    <2> SUFFICES ASSUME NEW s \in Objects, weak[s] = "live"
                 PROVE  /\ address[s] # None /\ slots[s] # None /\ owned[s] # None
                        /\ records'[address[s]] = [reference |-> s, snapshot |-> owned[s]]
        BY <1>1 DEF LiveAreRecorded
    <2>1. /\ address[s] # None /\ slots[s] # None /\ owned[s] # None
          /\ records[address[s]] = [reference |-> s, snapshot |-> owned[s]]
        BY DEF ResolutionInv, LivesInv, LiveAreRecorded
    <2>2. address[s] \in Addresses
        BY <1>1, <2>1 DEF TypeOK, LivesAreTyped
    <2>3. records[address[s]].reference = s /\ s # dead.object
        BY <1>4, <2>1
    <2> QED
        BY <1>5, <2>1, <2>2, <2>3
<1>8. RecordsAreDue'
    <2> SUFFICES ASSUME NEW a \in Addresses, records'[a] # None
                 PROVE  \/ weak[records'[a].reference] = "live" /\ address[records'[a].reference] = a
                        \/ [object |-> records'[a].reference, id |-> a] \in pending'
        BY <1>1 DEF RecordsAreDue
    <2>1. records'[a] = records[a] /\ (a # dead.id \/ records[a].reference # dead.object)
        BY <1>5
    <2>2. \/ weak[records[a].reference] = "live" /\ address[records[a].reference] = a
          \/ [object |-> records[a].reference, id |-> a] \in pending
        BY <2>1 DEF ResolutionInv, LivesInv, RecordsAreDue
    <2>3. [object |-> records[a].reference, id |-> a] # dead
        BY <1>3, <2>1
    <2> QED
        BY <1>2, <2>1, <2>2, <2>3
<1>9. PendingAreCleared' /\ AddressesAreOwn'
    BY <1>1, <1>2 DEF ResolutionInv, LivesInv, PendingAreCleared, AddressesAreOwn
<1>10. ReferencesHold' /\ UnusedAreBlank' /\ OwnedWereMade' /\ CallsInv' /\ GateIsOrderly'
    BY <1>1 DEF ResolutionInv, ReferencesHold, UnusedAreBlank, OwnedWereMade, CallsInv, CallIsOrderly,
       CallsAreApart, GateIsOrderly
<1> QED
    BY <1>6, <1>7, <1>8, <1>9, <1>10 DEF ResolutionInv, LivesInv

LEMMA UnderCopy ==
    ASSUME ResolutionInv, NEW o \in Objects, Copy(o)
    PROVE  ResolutionInv'
<1> DEFINE s == Fresh
<1>1. /\ UNCHANGED <<weak, pending, box, value, world, records, call, gate, meddles, owned>>
      /\ TypeOK /\ slots[o] # None /\ slots[o] \in Slots
      /\ s \in Objects /\ value[s] = None /\ slots[s] = None
    BY FreshIsUnused DEF Copy, ResolutionInv, TypeOK, GraphIsTyped
<1>2. PICK a \in FreeAddresses : address' = [address EXCEPT ![s] = a]
    BY DEF Copy
<1>3. slots' = [slots EXCEPT ![s] = slots[o]]
    BY DEF Copy
<1> HIDE DEF s
<1>4. a \in Addresses /\ a # None /\ \A t \in Objects : address[t] # a
    BY ResolutionAssumption DEF FreeAddresses
<1>5. /\ slots' \in [Objects -> Slots \cup {None}] /\ slots'[s] = slots[o]
      /\ address' \in [Objects -> Addresses \cup {None}] /\ address'[s] = a
      /\ \A t \in Objects : t # s => slots'[t] = slots[t] /\ address'[t] = address[t]
    BY <1>1, <1>2, <1>3, <1>4 DEF TypeOK, GraphIsTyped, LivesAreTyped
<1>6. TypeOK'
    BY <1>1, <1>5 DEF TypeOK, GraphIsTyped, LivesAreTyped
<1>7. ReferencesHold' /\ UnusedAreBlank' /\ OwnedWereMade'
    BY <1>1, <1>5 DEF ResolutionInv, ReferencesHold, UnusedAreBlank, OwnedWereMade
<1>8. weak[s] = "none" /\ owned[s] = None /\ address[s] = None
    BY <1>1 DEF ResolutionInv, UnusedAreBlank
<1>9. CallsInv'
    <2>1. ASSUME NEW c \in Resolvers PROVE CallIsOrderly(c)'
        <3>1. CallIsOrderly(c)
            BY DEF ResolutionInv, CallsInv
        <3>2. CASE call[c].phase \in AtWork
            <4>1. call[c].object \in Objects /\ call[c].object # s
                BY <1>1, <3>1, <3>2 DEF CallIsOrderly
            <4> QED
                BY <1>1, <1>5, <3>1, <3>2, <4>1 DEF CallIsOrderly
        <3>3. CASE call[c].phase \notin AtWork
            BY <1>1, <3>1, <3>3 DEF CallIsOrderly, AtWork
        <3> QED
            BY <3>2, <3>3
    <2>2. CallsAreApart'
        BY <1>1 DEF ResolutionInv, CallsInv, CallsAreApart
    <2> QED
        BY <2>1, <2>2 DEF CallsInv
<1>10. LiveAreRecorded'
    BY <1>1, <1>5, <1>8 DEF ResolutionInv, LivesInv, LiveAreRecorded
<1>11. RecordsAreDue' /\ PendingAreCleared'
    <2>1. \A b \in Addresses : records[b] # None => records[b].reference \in Objects
        BY <1>1 DEF TypeOK, LivesAreTyped, Entries
    <2> QED
        BY <1>1, <1>5, <1>8, <2>1 DEF ResolutionInv, LivesInv, RecordsAreDue, PendingAreCleared
<1>12. AddressesAreOwn'
    BY <1>1, <1>4, <1>5 DEF ResolutionInv, LivesInv, AddressesAreOwn
<1>13. GateIsOrderly'
    BY <1>1, <1>5, <1>8 DEF ResolutionInv, GateIsOrderly
<1> QED
    BY <1>6, <1>7, <1>9, <1>10, <1>11, <1>12, <1>13 DEF ResolutionInv, LivesInv

-----------------------------------------------------------------------------
\* Changes by other code

HaveIsThere == \A part : \A s \in Have(part) : s \in Objects /\ value[s] # None

LEMMA MeddlingIsTyped ==
    ASSUME ResolutionInv, Meddle
    PROVE  /\ GraphIsTyped' /\ ReferencesHold'
           /\ \A s \in Objects : /\ value[s] = None <=> value'[s] = None
                                 /\ slots[s] = None <=> slots'[s] = None
                                 /\ box[s] = None <=> box'[s] = None
<1>1. GraphIsTyped /\ ReferencesHold
    BY DEF ResolutionInv, TypeOK
<1>2. HaveIsThere
    BY DEF HaveIsThere, Have
<1>3. CASE UNCHANGED <<slots, box, world>> /\ ~UNCHANGED value
    <2>1. PICK s \in Objects, r \in Requests :
                \/ s \in Have("plan") /\ value' = [value EXCEPT ![s].plan = r]
                \/ s \in Have("statistic") /\ value' = [value EXCEPT ![s].statistic = r.statistic]
                \/ s \in Have("null") /\ value' = [value EXCEPT ![s].null = r.null]
        BY <1>3 DEF Meddle
    <2>2. value[s] # None /\ value[s] \in Contents /\ r.statistic \in Statistics /\ r.null \in Nulls
        BY <1>1, <1>2, <2>1 DEF HaveIsThere, GraphIsTyped, Statistics, Nulls
    <2>3. PICK content \in Contents : value' = [value EXCEPT ![s] = content]
        <3>1. CASE value' = [value EXCEPT ![s].plan = r]
            <4>1. [value[s] EXCEPT !.plan = r] \in Contents
                BY <2>2 DEF Contents
            <4> QED
                BY <1>1, <3>1, <4>1 DEF GraphIsTyped
        <3>2. CASE value' = [value EXCEPT ![s].statistic = r.statistic]
            <4>1. [value[s] EXCEPT !.statistic = r.statistic] \in Contents
                BY <2>2 DEF Contents
            <4> QED
                BY <1>1, <3>2, <4>1 DEF GraphIsTyped
        <3>3. CASE value' = [value EXCEPT ![s].null = r.null]
            <4>1. [value[s] EXCEPT !.null = r.null] \in Contents
                BY <2>2 DEF Contents
            <4> QED
                BY <1>1, <3>3, <4>1 DEF GraphIsTyped
        <3> QED
            BY <2>1, <3>1, <3>2, <3>3
    <2>4. content # None
        BY ResolutionAssumption
    <2>5. /\ value' \in [Objects -> Contents \cup {None}] /\ value'[s] = content
          /\ \A t \in Objects : t # s => value'[t] = value[t]
        BY <1>1, <2>3 DEF GraphIsTyped
    <2>6. \A t \in Objects : value[t] = None <=> value'[t] = None
        BY <2>2, <2>4, <2>5
    <2>7. ReferencesHold'
        BY <1>1, <1>3, <2>6 DEF ReferencesHold, GraphIsTyped, Slots, Boxes
    <2> QED
        BY <1>1, <1>3, <2>5, <2>6, <2>7 DEF GraphIsTyped
<1>4. CASE UNCHANGED <<value, box, world>> /\ ~UNCHANGED slots
    <2>1. PICK s \in Objects : slots[s] # None
                /\ \/ \E p \in Have("plan") : slots' = [slots EXCEPT ![s].plan = p]
                   \/ \E b \in Objects : box[b] # None /\ slots' = [slots EXCEPT ![s].adapters = b]
        BY <1>4 DEF Meddle
    <2>2. slots[s] \in Slots /\ value[slots[s].plan] # None /\ box[slots[s].adapters] # None
        BY <1>1, <2>1 DEF GraphIsTyped, ReferencesHold
    <2>3. PICK slot \in Slots : /\ slots' = [slots EXCEPT ![s] = slot]
                                /\ value[slot.plan] # None /\ box[slot.adapters] # None
        <3>1. ASSUME NEW p \in Have("plan"), slots' = [slots EXCEPT ![s].plan = p]
              PROVE  \E slot \in Slots : /\ slots' = [slots EXCEPT ![s] = slot]
                                         /\ value[slot.plan] # None /\ box[slot.adapters] # None
            <4>1. p \in Objects /\ value[p] # None
                BY <1>2 DEF HaveIsThere
            <4>2. /\ [slots[s] EXCEPT !.plan = p] \in Slots /\ [slots[s] EXCEPT !.plan = p].plan = p
                  /\ [slots[s] EXCEPT !.plan = p].adapters = slots[s].adapters
                BY <2>2, <4>1 DEF Slots
            <4> QED
                BY <1>1, <2>2, <3>1, <4>1, <4>2 DEF GraphIsTyped
        <3>2. ASSUME NEW b \in Objects, box[b] # None, slots' = [slots EXCEPT ![s].adapters = b]
              PROVE  \E slot \in Slots : /\ slots' = [slots EXCEPT ![s] = slot]
                                         /\ value[slot.plan] # None /\ box[slot.adapters] # None
            <4>1. /\ [slots[s] EXCEPT !.adapters = b] \in Slots /\ [slots[s] EXCEPT !.adapters = b].adapters = b
                  /\ [slots[s] EXCEPT !.adapters = b].plan = slots[s].plan
                BY <2>2 DEF Slots
            <4> QED
                BY <1>1, <2>2, <3>2, <4>1 DEF GraphIsTyped
        <3> QED
            BY <2>1, <3>1, <3>2
    <2>4. slot # None
        BY ResolutionAssumption
    <2>5. /\ slots' \in [Objects -> Slots \cup {None}] /\ slots'[s] = slot
          /\ \A t \in Objects : t # s => slots'[t] = slots[t]
        BY <1>1, <2>3 DEF GraphIsTyped
    <2>6. \A t \in Objects : slots[t] = None <=> slots'[t] = None
        BY <2>1, <2>4, <2>5
    <2>7. ReferencesHold'
        BY <1>1, <1>4, <2>3, <2>5 DEF ReferencesHold
    <2> QED
        BY <1>1, <1>4, <2>5, <2>6, <2>7 DEF GraphIsTyped
<1>5. CASE UNCHANGED <<value, slots, world>> /\ ~UNCHANGED box
    <2>1. PICK b \in Objects : box[b] # None
                /\ \/ \E x \in Have("statistic") : box' = [box EXCEPT ![b].statistic = x]
                   \/ \E x \in Have("null") : box' = [box EXCEPT ![b].null = x]
        BY <1>5 DEF Meddle
    <2>2. box[b] \in Boxes /\ value[box[b].statistic] # None /\ value[box[b].null] # None
        BY <1>1, <2>1 DEF GraphIsTyped, ReferencesHold
    <2>3. PICK pair \in Boxes : /\ box' = [box EXCEPT ![b] = pair]
                                /\ value[pair.statistic] # None /\ value[pair.null] # None
        <3>1. ASSUME NEW x \in Have("statistic"), box' = [box EXCEPT ![b].statistic = x]
              PROVE  \E pair \in Boxes : /\ box' = [box EXCEPT ![b] = pair]
                                         /\ value[pair.statistic] # None /\ value[pair.null] # None
            <4>1. x \in Objects /\ value[x] # None
                BY <1>2 DEF HaveIsThere
            <4>2. /\ [box[b] EXCEPT !.statistic = x] \in Boxes /\ [box[b] EXCEPT !.statistic = x].statistic = x
                  /\ [box[b] EXCEPT !.statistic = x].null = box[b].null
                BY <2>2, <4>1 DEF Boxes
            <4> QED
                BY <1>1, <2>2, <3>1, <4>1, <4>2 DEF GraphIsTyped
        <3>2. ASSUME NEW x \in Have("null"), box' = [box EXCEPT ![b].null = x]
              PROVE  \E pair \in Boxes : /\ box' = [box EXCEPT ![b] = pair]
                                         /\ value[pair.statistic] # None /\ value[pair.null] # None
            <4>1. x \in Objects /\ value[x] # None
                BY <1>2 DEF HaveIsThere
            <4>2. /\ [box[b] EXCEPT !.null = x] \in Boxes /\ [box[b] EXCEPT !.null = x].null = x
                  /\ [box[b] EXCEPT !.null = x].statistic = box[b].statistic
                BY <2>2, <4>1 DEF Boxes
            <4> QED
                BY <1>1, <2>2, <3>2, <4>1, <4>2 DEF GraphIsTyped
        <3> QED
            BY <2>1, <3>1, <3>2
    <2>4. pair # None
        BY ResolutionAssumption
    <2>5. /\ box' \in [Objects -> Boxes \cup {None}] /\ box'[b] = pair
          /\ \A t \in Objects : t # b => box'[t] = box[t]
        BY <1>1, <2>3 DEF GraphIsTyped
    <2>6. \A t \in Objects : box[t] = None <=> box'[t] = None
        BY <2>1, <2>4, <2>5
    <2>7. ReferencesHold'
        BY <1>1, <1>5, <2>3, <2>5, <2>6 DEF ReferencesHold, GraphIsTyped, Slots
    <2> QED
        BY <1>1, <1>5, <2>5, <2>6, <2>7 DEF GraphIsTyped
<1>6. CASE UNCHANGED <<value, slots, box>>
    <2>1. world' \in [getters : {0, 1}, registry : {0, 1}, entries : {0, 1}]
        <3>1. CASE UNCHANGED world
            BY <1>1, <3>1 DEF GraphIsTyped
        <3>2. CASE ~UNCHANGED world
            <4>1. PICK part \in DOMAIN world : world' = [world EXCEPT ![part] = 1 - @]
                BY <3>2 DEF Meddle
            <4>2. DOMAIN world = {"getters", "registry", "entries"}
                BY <1>1 DEF GraphIsTyped
            <4>3. \/ world' = [world EXCEPT !.getters = 1 - @]
                  \/ world' = [world EXCEPT !.registry = 1 - @]
                  \/ world' = [world EXCEPT !.entries = 1 - @]
                BY <4>1, <4>2
            <4>4. world.getters \in {0, 1} /\ world.registry \in {0, 1} /\ world.entries \in {0, 1}
                BY <1>1 DEF GraphIsTyped
            <4>5. 1 - world.getters \in {0, 1} /\ 1 - world.registry \in {0, 1} /\ 1 - world.entries \in {0, 1}
                BY <4>4
            <4> QED
                BY <1>1, <4>3, <4>5 DEF GraphIsTyped
        <3> QED
            BY <3>1, <3>2
    <2> QED
        BY <1>1, <1>6, <2>1 DEF GraphIsTyped, ReferencesHold
<1> QED
    BY <1>3, <1>4, <1>5, <1>6 DEF Meddle

LEMMA UnderMeddle ==
    ASSUME ResolutionInv, Meddle
    PROVE  ResolutionInv'
<1>1. UNCHANGED <<address, weak, pending, records, call, gate, owned>> /\ meddles' = meddles + 1
    BY DEF Meddle, lives
<1>2. /\ GraphIsTyped' /\ ReferencesHold'
      /\ \A s \in Objects : (value[s] = None <=> value'[s] = None) /\ (slots[s] = None <=> slots'[s] = None)
    BY MeddlingIsTyped
<1>3. TypeOK'
    BY <1>1, <1>2 DEF ResolutionInv, TypeOK, LivesAreTyped
<1>4. UnusedAreBlank' /\ OwnedWereMade' /\ GateIsOrderly' /\ LivesInv'
    BY <1>1, <1>2 DEF ResolutionInv, UnusedAreBlank, OwnedWereMade, GateIsOrderly, LivesInv,
       LiveAreRecorded, RecordsAreDue, PendingAreCleared, AddressesAreOwn
<1>5. CallsInv'
    <2>1. ASSUME NEW c \in Resolvers PROVE CallIsOrderly(c)'
        <3>1. CallIsOrderly(c)
            BY DEF ResolutionInv, CallsInv
        <3> QED
            BY <1>1, <1>2, <3>1 DEF CallIsOrderly, AtWork
    <2>2. CallsAreApart'
        BY <1>1 DEF ResolutionInv, CallsInv, CallsAreApart
    <2> QED
        BY <2>1, <2>2 DEF CallsInv
<1> QED
    BY <1>2, <1>3, <1>4, <1>5 DEF ResolutionInv

-----------------------------------------------------------------------------
\* The invariant of the objects holds

ResolveStep ==
    \E c \in Resolvers : \/ Build(c) \/ ReadStatistic(c) \/ Construct(c) \/ PostInit(c)
                         \/ Capture(c) \/ Register(c)

LifeStep == (\E s \in Objects : Drop(s) \/ Revive(s) \/ Copy(s)) \/ RunCallback

LEMMA StepsByKind ==
    [Next]_vars => ResolveStep \/ GateStep \/ LifeStep \/ Meddle \/ UNCHANGED vars
BY DEF Next, ResolveStep, GateStep, LifeStep, Finished

LEMMA ResolutionInvStays ==
    ASSUME ResolutionInv, [Next]_vars
    PROVE  ResolutionInv'
<1>1. CASE ResolveStep
    BY <1>1, UnderBuild, UnderReadStatistic, UnderConstruct, UnderPostInit, UnderCapture,
       UnderRegister DEF ResolveStep
<1>2. CASE GateStep
    BY <1>2, UnderGate
<1>3. CASE LifeStep
    BY <1>3, UnderEnd, UnderCopy, UnderCallback DEF LifeStep
<1>4. CASE Meddle
    BY <1>4, UnderMeddle
<1>5. CASE UNCHANGED vars
    BY <1>5 DEF vars, ResolutionInv, TypeOK, GraphIsTyped, LivesAreTyped, ReferencesHold,
       UnusedAreBlank, OwnedWereMade, CallsInv, CallIsOrderly, CallsAreApart, LivesInv,
       LiveAreRecorded, RecordsAreDue, PendingAreCleared, AddressesAreOwn, GateIsOrderly
<1> QED
    BY <1>1, <1>2, <1>3, <1>4, <1>5, StepsByKind

-----------------------------------------------------------------------------
\* While nobody changes anything

LEMMA HonestInitially == Init => Honest
<1> SUFFICES ASSUME Init PROVE Honest
    OBVIOUS
<1>1. \A c \in Resolvers : call[c].phase = "start" /\ call[c].step = None
    BY DEF Init, Call
<1>2. \A c \in Resolvers : CallIsHonest(c)
    BY <1>1, ResolutionAssumption DEF CallIsHonest, AtWork
<1>3. OwnedAreHonest
    BY DEF Init, OwnedAreHonest
<1>4. GateIsHonest
    BY DEF Init, NoGate, GateIsHonest
<1> QED
    BY <1>2, <1>3, <1>4 DEF Init, Honest

LEMMA MadeView ==
    ASSUME NEW s, NEW r, MadeFor(s, r)
    PROVE  View(s) = [plan |-> s, adapters |-> s, statistic |-> s, null |-> s, planBytes |-> r,
                      statisticBytes |-> r.statistic, nullBytes |-> r.null, getters |-> world.getters]
BY DEF MadeFor, View

LEMMA MadeStays ==
    ASSUME NEW s, NEW r, MadeFor(s, r), slots'[s] = slots[s], box'[s] = box[s], value'[s] = value[s],
           world' = world
    PROVE  MadeFor(s, r)' /\ View(s)' = View(s)
<1>1. MadeFor(s, r)'
    BY DEF MadeFor
<1>2. View(s)' = [plan |-> s, adapters |-> s, statistic |-> s, null |-> s, planBytes |-> r,
                  statisticBytes |-> r.statistic, nullBytes |-> r.null, getters |-> world'.getters]
    BY <1>1 DEF MadeFor, View
<1> QED
    BY <1>1, <1>2, MadeView

\* A step that changes neither objects nor calls.
LEMMA ViewsStay ==
    ASSUME UNCHANGED <<slots, box, value, world>>
    PROVE  \A s : View(s)' = View(s) /\ \A r : MadeFor(s, r)' <=> MadeFor(s, r)
<1>1. \A s : View(s)' = View(s)
    BY DEF View
<1>2. \A s, r : MadeFor(s, r)' <=> MadeFor(s, r)
    BY DEF MadeFor
<1> QED
    BY <1>1, <1>2

LEMMA CallsStayHonest ==
    ASSUME UNCHANGED <<slots, box, value, world, call, owned>>
    PROVE  /\ (\A c \in Resolvers : CallIsHonest(c)) => (\A c \in Resolvers : CallIsHonest(c)')
           /\ OwnedAreHonest => OwnedAreHonest'
<1>1. ASSUME NEW c \in Resolvers, CallIsHonest(c) PROVE CallIsHonest(c)'
    BY <1>1 DEF CallIsHonest, MadeFor, View
<1>2. ASSUME OwnedAreHonest PROVE OwnedAreHonest'
    <2>1. ASSUME NEW s \in Objects, owned[s] # None
          PROVE  (\E r \in Requests : MadeFor(s, r)') /\ owned[s] = View(s)'
        BY <1>2, <2>1, ViewsStay DEF OwnedAreHonest
    <2> QED
        BY <2>1 DEF OwnedAreHonest
<1> QED
    BY <1>1, <1>2

LEMMA HonestWhenUntouched ==
    ASSUME Honest, UNCHANGED <<slots, box, value, world, call, owned, gate, meddles>>
    PROVE  Honest'
<1> SUFFICES ASSUME meddles = 0 PROVE Honest'
    BY DEF Honest
<1>1. GateIsHonest'
    BY DEF Honest, GateIsHonest, View
<1> QED
    BY <1>1, CallsStayHonest DEF Honest

\* The calls and resolutions a step does not touch stay honest.
LEMMA OthersStayHonest ==
    ASSUME ResolutionInv, Honest, meddles = 0, NEW s \in Objects, SameElsewhere(s), owned[s] = None,
           world' = world
    PROVE  /\ \A c \in Resolvers :
                call'[c] = call[c] /\ call[c].object # s => CallIsHonest(c)'
           /\ \A t \in Objects : owned[t] # None =>
                (\E r \in Requests : MadeFor(t, r)') /\ owned'[t] = View(t)' /\ View(t)' = View(t)
           /\ UNCHANGED gate => GateIsHonest'
<1>1. ASSUME NEW c \in Resolvers, call'[c] = call[c], call[c].object # s
      PROVE  CallIsHonest(c)'
    <2> DEFINE t == call[c].object
    <2>1. CallIsHonest(c) /\ CallIsOrderly(c)
        BY DEF Honest, ResolutionInv, CallsInv
    <2>2. CASE call[c].phase = "build"
        <3>1. t \in Objects /\ value'[t] = value[t]
            BY <1>1, <2>1, <2>2 DEF CallIsOrderly, AtWork, SameElsewhere
        <3> QED
            BY <1>1, <2>1, <2>2, <3>1 DEF CallIsHonest, AtWork
    <2>3. CASE call[c].phase \in AtWork \ {"build"}
        <3>1. call[c].object \in Objects /\ call[c].request \in Requests
              /\ MadeFor(call[c].object, call[c].request)
            BY <2>1, <2>3 DEF CallIsOrderly, CallIsHonest
        <3>2. PICK o \in Objects, r \in Requests : o = call[c].object /\ r = call[c].request
            BY <3>1
        <3>3. MadeFor(o, r)
            BY <3>1, <3>2
        <3>4. slots'[o] = slots[o] /\ box'[o] = box[o] /\ value'[o] = value[o]
            BY <1>1, <3>2 DEF SameElsewhere
        <3>5. MadeFor(o, r)' /\ View(o)' = View(o)
            BY <3>3, <3>4, MadeStays
        <3>6. /\ call'[c].object = o /\ call'[c].request = r
              /\ MadeFor(call[c].object, call[c].request)' /\ View(call[c].object)' = View(o)
            BY <1>1, <3>2, <3>5 DEF MadeFor, View
        <3>7. /\ call[c].step = "null" => call[c].seen = r.statistic
              /\ call[c].phase = "confirm" => call[c].snapshot = View(o)
              /\ call[c].phase # "raised" /\ call[c].phase # "build"
            BY <2>1, <2>3, <3>2 DEF CallIsHonest, AtWork
        <3> QED
            BY <1>1, <3>6, <3>7 DEF CallIsHonest
    <2>4. CASE call[c].phase \notin AtWork
        BY <1>1, <2>1, <2>4, ResolutionAssumption DEF CallIsOrderly, CallIsHonest, AtWork
    <2> QED
        BY <2>2, <2>3, <2>4
<1>2. ASSUME NEW t \in Objects, owned[t] # None
      PROVE  (\E r \in Requests : MadeFor(t, r)') /\ owned'[t] = View(t)' /\ View(t)' = View(t)
    <2>1. PICK r \in Requests : MadeFor(t, r)
        BY <1>2 DEF Honest, OwnedAreHonest
    <2>2. owned[t] = View(t) /\ t # s
        BY <1>2 DEF Honest, OwnedAreHonest
    <2>3. /\ owned'[t] = owned[t] /\ slots'[t] = slots[t] /\ box'[t] = box[t] /\ value'[t] = value[t]
        BY <2>2 DEF SameElsewhere
    <2>4. MadeFor(t, r)' /\ View(t)' = View(t)
        BY <2>1, <2>3, MadeStays
    <2> QED
        BY <2>2, <2>3, <2>4
<1>3. ASSUME UNCHANGED gate PROVE GateIsHonest'
    <2>1. gate.pc = "null" => gate.object \in Objects /\ owned[gate.object] # None
        BY DEF ResolutionInv, GateIsOrderly
    <2>2. gate.pc = "null" => gate.seen = View(gate.object).statisticBytes
        BY DEF Honest, GateIsHonest
    <2>3. gate.pc = "null" => gate.seen = (View(gate.object)').statisticBytes
        BY <1>2, <1>3, <2>1, <2>2
    <2> QED
        BY <1>3, <2>3 DEF GateIsHonest
<1> QED
    BY <1>1, <1>2, <1>3

\* The same for a step that changes the call of one object and returns nothing.
LEMMA HonestWithOneCall ==
    ASSUME ResolutionInv, Honest, meddles = 0, NEW c \in Resolvers, NEW s \in Objects, SameElsewhere(s),
           owned[s] = None, owned'[s] = None, UNCHANGED <<world, gate>>,
           \A d \in Resolvers : d # c => call'[d] = call[d] /\ call[d].object # s,
           CallIsHonest(c)'
    PROVE  Honest'
<1>1. world' = Canonical
    BY DEF Honest
<1>2. \A d \in Resolvers : CallIsHonest(d)'
    BY OthersStayHonest
<1>3. OwnedAreHonest'
    <2>1. \A t \in Objects : owned'[t] # None => owned[t] # None
        BY DEF SameElsewhere
    <2> QED
        BY <2>1, OthersStayHonest DEF OwnedAreHonest
<1>4. GateIsHonest'
    BY OthersStayHonest
<1> QED
    BY <1>1, <1>2, <1>3, <1>4 DEF Honest

LEMMA CanonicalWorld ==
    ASSUME Honest, meddles = 0
    PROVE  RegistriesAreCanonical /\ EntriesAreCanonical /\ world = Canonical
BY DEF Honest, RegistriesAreCanonical, EntriesAreCanonical, Canonical

LEMMA HonestBuild ==
    ASSUME ResolutionInv, Honest, meddles = 0, NEW c \in Resolvers, Build(c)
    PROVE  Honest'
<1> DEFINE new == [plan |-> None, statistic |-> call[c].request.statistic, null |-> None]
<1>1. PICK s \in Objects : s = Fresh
    BY CanonicalWorld, FreshIsUnused DEF Build
<1>2. /\ call[c].phase = "start" /\ value[s] = None /\ slots[s] = None
      /\ value' = [value EXCEPT ![s] = new]
      /\ call' = [call EXCEPT ![c].phase = "build", ![c].step = "statistic", ![c].object = s]
      /\ UNCHANGED <<slots, box, world, address, weak, gate, owned>>
    BY <1>1, CanonicalWorld, FreshIsUnused DEF Build, OfResolve
<1>3. TypeOK /\ call[c] \in CallRecords /\ value'[s] = new /\ \A t \in Objects : t # s => value'[t] = value[t]
    BY <1>2, CallIsTyped DEF ResolutionInv, TypeOK, GraphIsTyped
<1>4. /\ call'[c].phase = "build" /\ call'[c].step = "statistic" /\ call'[c].object = s
      /\ call'[c].request = call[c].request /\ \A d \in Resolvers : d # c => call'[d] = call[d]
    BY <1>2, <1>3 DEF TypeOK, CallRecords
<1>5. \A d \in Resolvers : call[d].object # s
    <2> SUFFICES ASSUME NEW d \in Resolvers, call[d].object = s PROVE FALSE
        OBVIOUS
    <2>1. CallIsOrderly(d) /\ s # None
        BY ResolutionAssumption DEF ResolutionInv, CallsInv
    <2> QED
        BY <1>2, <2>1 DEF CallIsOrderly
<1>6. SameElsewhere(s) /\ owned[s] = None /\ owned'[s] = None
    BY <1>2, <1>3 DEF SameElsewhere, ResolutionInv, UnusedAreBlank
<1>7. CallIsHonest(c)'
    BY <1>3, <1>4 DEF CallIsHonest, AtWork
<1> QED
    BY <1>2, <1>4, <1>5, <1>6, <1>7, HonestWithOneCall

\* What the getters answer in the call of an honest object.
LEMMA HonestAnswers ==
    ASSUME ResolutionInv, Honest, meddles = 0, NEW c \in Resolvers, call[c].step # None,
           NEW s, s = call[c].object
    PROVE  /\ StatisticOf(s) = call[c].request.statistic
           /\ PlanOf(c).statistic = call[c].request.statistic /\ PlanOf(c).null = call[c].request.null
           /\ call[c].step = "null" => NullOf(s) = call[c].request.null /\ NullIsVerified(c)
           /\ s \in Objects /\ owned[s] = None /\ \A d \in Resolvers : d # c => call[d].object # s
           /\ call[c] \in CallRecords /\ TypeOK /\ call[c].phase \in AtWork
           /\ call[c].phase # "build" => MadeFor(s, call[c].request) /\ call[c].request \in Requests
<1>1. /\ call[c].phase \in AtWork /\ s \in Objects /\ TypeOK
      /\ slots[s] # None <=> call[c].phase # "build"
    BY CallAtWork DEF ResolutionInv
<1>2. CallIsOrderly(c) /\ CallIsHonest(c) /\ call[c] \in CallRecords
    BY CallIsTyped DEF ResolutionInv, CallsInv, Honest
<1>3. owned[s] = None /\ \A d \in Resolvers : d # c => call[d].object # s
    BY <1>1, <1>2, ResolutionAssumption DEF CallIsOrderly, ResolutionInv, CallsInv, CallsAreApart
<1>4. EntriesAreCanonical
    BY CanonicalWorld
<1>5. CASE call[c].phase = "build"
    BY <1>1, <1>2, <1>3, <1>4, <1>5 DEF CallIsHonest, StatisticOf, NullOf, PlanOf, NullIsVerified
<1>6. CASE call[c].phase # "build"
    <2>1. MadeFor(s, call[c].request) /\ call[c].request \in Requests
        BY <1>1, <1>2, <1>6 DEF CallIsHonest
    <2>2. PICK r : r = call[c].request
        OBVIOUS
    <2>3. /\ View(s).statisticBytes = r.statistic /\ View(s).nullBytes = r.null
          /\ View(s).planBytes = r
        BY <2>1, <2>2, MadeView
    <2> QED
        BY <1>1, <1>2, <1>3, <1>4, <1>6, <2>1, <2>2, <2>3
           DEF StatisticOf, NullOf, PlanOf, NullIsVerified
<1> QED
    BY <1>5, <1>6

LEMMA HonestReadStatistic ==
    ASSUME ResolutionInv, Honest, meddles = 0, NEW c \in Resolvers, ReadStatistic(c)
    PROVE  Honest'
<1>1. call[c].step = "statistic" /\ call[c].step # None
      /\ UNCHANGED <<slots, box, world, address, weak, gate, owned>>
    BY ResolutionAssumption DEF ReadStatistic, OfResolve
<1>2. PICK s \in Objects : s = call[c].object
    BY <1>1, HonestAnswers
<1>3. PICK r : r = call[c].request
    OBVIOUS
<1>4. /\ StatisticOf(s) = r.statistic /\ StatisticOf(s) = PlanOf(c).statistic
      /\ owned[s] = None /\ \A d \in Resolvers : d # c => call[d].object # s
      /\ call[c] \in CallRecords /\ TypeOK /\ call[c].phase \in AtWork
      /\ call[c].phase # "build" => MadeFor(s, r) /\ r \in Requests
    BY <1>1, <1>2, <1>3, HonestAnswers
<1>5. /\ call' = [call EXCEPT ![c].step = "null", ![c].seen = r.statistic]
      /\ value' = IF call[c].phase = "build" THEN [value EXCEPT ![s].null = r.null] ELSE value
    BY <1>2, <1>3, <1>4, CanonicalWorld DEF ReadStatistic
<1>6. /\ call'[c].step = "null" /\ call'[c].seen = r.statistic /\ call'[c].phase = call[c].phase
      /\ call'[c].object = s /\ call'[c].request = r /\ call'[c].snapshot = call[c].snapshot
      /\ \A d \in Resolvers : d # c => call'[d] = call[d]
    BY <1>2, <1>3, <1>4, <1>5 DEF TypeOK, CallRecords
<1>7. \A t \in Objects : t # s => value'[t] = value[t]
    BY <1>4, <1>5 DEF TypeOK, GraphIsTyped
<1>8. SameElsewhere(s) /\ owned'[s] = None
    BY <1>1, <1>4, <1>7 DEF SameElsewhere
<1>9. CallIsHonest(c) /\ CallIsOrderly(c)
    BY DEF Honest, ResolutionInv, CallsInv
<1>10. CallIsHonest(c)'
    <2>1. CASE call[c].phase = "build"
        <3>1. value[s] \in Contents /\ value[s].statistic = r.statistic
            BY <1>1, <1>2, <1>3, <1>9, <2>1, CallAtWork DEF ResolutionInv, CallIsHonest
        <3>2. value'[s] = [value[s] EXCEPT !.null = r.null]
            BY <1>4, <1>5, <2>1 DEF TypeOK, GraphIsTyped
        <3>3. value'[s].statistic = r.statistic /\ value'[s].null = r.null
            BY <3>1, <3>2 DEF Contents
        <3> QED
            BY <1>6, <2>1, <3>3 DEF CallIsHonest, AtWork
    <2>2. CASE call[c].phase # "build"
        <3>1. MadeFor(s, r)' /\ View(s)' = View(s)
            BY <1>1, <1>4, <1>5, <2>2, MadeStays
        <3>2. /\ call[c].phase # "raised"
              /\ call[c].phase = "confirm" => call[c].snapshot = View(s)
            BY <1>2, <1>9 DEF CallIsHonest
        <3> QED
            BY <1>4, <1>6, <2>2, <3>1, <3>2 DEF CallIsHonest, MadeFor, View
    <2> QED
        BY <2>1, <2>2
<1> QED
    BY <1>1, <1>4, <1>6, <1>8, <1>10, HonestWithOneCall

LEMMA HonestConstruct ==
    ASSUME ResolutionInv, Honest, meddles = 0, NEW c \in Resolvers, Construct(c)
    PROVE  Honest'
<1>1. call[c].step = "null" /\ call[c].step # None /\ call[c].phase = "build"
      /\ UNCHANGED <<weak, owned, world, gate>>
    BY ResolutionAssumption DEF Construct, ReadNull, OfResolve
<1>2. PICK s \in Objects : s = call[c].object
    BY <1>1, HonestAnswers
<1>3. call[c].request \in Requests
    BY <1>1, CallIsTyped DEF ResolutionInv, CallsInv, CallIsOrderly
<1>4. PICK r \in Requests : r = call[c].request
    BY <1>3
<1>5. /\ NullIsVerified(c) /\ owned[s] = None /\ \A d \in Resolvers : d # c => call[d].object # s
      /\ call[c] \in CallRecords /\ TypeOK
    BY <1>1, <1>2, HonestAnswers
<1>6. /\ slots' = [slots EXCEPT ![s] = [plan |-> s, adapters |-> s]]
      /\ box' = [box EXCEPT ![s] = [statistic |-> s, null |-> s]]
      /\ value' = [value EXCEPT ![s].plan = r]
      /\ call' = NextPhase(c, "construct")
      /\ \E a \in FreeAddresses : address' = [address EXCEPT ![s] = a]
    BY <1>2, <1>4, <1>5, CanonicalWorld DEF Construct
<1>7. PICK new \in CallRecords :
            /\ call' = [call EXCEPT ![c] = new]
            /\ new.phase = "construct" /\ new.step = "statistic" /\ new.object = s /\ new.request = r
    BY <1>2, <1>4, <1>5, <1>6, NextPhaseOf DEF AtWork
<1>8. call'[c] = new /\ \A d \in Resolvers : d # c => call'[d] = call[d]
    BY <1>5, <1>7 DEF TypeOK
<1>9. SameElsewhere(s) /\ owned'[s] = None
    BY <1>1, <1>5, <1>6 DEF SameElsewhere, TypeOK, GraphIsTyped, LivesAreTyped
<1>10. MadeFor(s, r)'
    <2>1. value[s] \in Contents /\ value[s].statistic = r.statistic /\ value[s].null = r.null
        BY <1>1, <1>2, <1>4, CallAtWork DEF ResolutionInv, Honest, CallIsHonest
    <2>2. value'[s] = [value[s] EXCEPT !.plan = r]
        BY <1>5, <1>6 DEF TypeOK, GraphIsTyped
    <2>3. value'[s] = [plan |-> r, statistic |-> r.statistic, null |-> r.null]
        BY <2>1, <2>2 DEF Contents
    <2>4. slots'[s] = [plan |-> s, adapters |-> s] /\ box'[s] = [statistic |-> s, null |-> s]
        BY <1>5, <1>6 DEF TypeOK, GraphIsTyped
    <2> QED
        BY <2>3, <2>4 DEF MadeFor
<1>11. CallIsHonest(c)'
    BY <1>7, <1>8, <1>10 DEF CallIsHonest, AtWork, MadeFor
<1> QED
    BY <1>1, <1>5, <1>8, <1>9, <1>11, HonestWithOneCall

\* The snapshots taken of an honest object agree.
LEMMA HonestCapture ==
    ASSUME Honest, meddles = 0, NEW s, NEW r, MadeFor(s, r), NEW seen, seen = r.statistic
    PROVE  CaptureHolds(s, seen)
<1>1. View(s).statisticBytes = r.statistic /\ View(s).nullBytes = r.null /\ View(s).planBytes = r
    BY MadeView
<1> QED
    BY <1>1, CanonicalWorld DEF CaptureHolds

LEMMA HonestPostInitOrCapture ==
    ASSUME ResolutionInv, Honest, meddles = 0, NEW c \in Resolvers, PostInit(c) \/ Capture(c)
    PROVE  Honest'
<1>1. /\ call[c].step = "null" /\ call[c].step # None /\ call[c].phase \in {"construct", "snapshot"}
      /\ PostInit(c) <=> call[c].phase = "construct"
      /\ UNCHANGED <<address, weak, slots, box, value, owned, world, gate>>
    BY ResolutionAssumption DEF PostInit, Capture, ReadNull, OfResolve
<1>2. PICK s \in Objects : s = call[c].object
    BY <1>1, HonestAnswers
<1>3. PICK r : r = call[c].request
    OBVIOUS
<1>4. /\ NullIsVerified(c) /\ owned[s] = None /\ \A d \in Resolvers : d # c => call[d].object # s
      /\ call[c] \in CallRecords /\ TypeOK /\ MadeFor(s, r) /\ r \in Requests
    BY <1>1, <1>2, <1>3, HonestAnswers
<1>5. call[c].seen = r.statistic
    BY <1>1, <1>3 DEF Honest, CallIsHonest
<1>6. CaptureHolds(s, call[c].seen)
    BY <1>4, <1>5, HonestCapture
<1>7. MadeFor(s, r)' /\ View(s)' = View(s)
    BY <1>1, <1>4, MadeStays
<1>8. /\ CallIsHonest(c)'
      /\ \A d \in Resolvers : d # c => call'[d] = call[d]
    <2>1. CASE PostInit(c)
        <3>1. call' = NextPhase(c, "snapshot")
            BY <1>4, <2>1, CanonicalWorld DEF PostInit
        <3>2. PICK new \in CallRecords :
                    /\ call' = [call EXCEPT ![c] = new]
                    /\ new.phase = "snapshot" /\ new.step = "statistic" /\ new.object = s
                    /\ new.request = r
            BY <1>2, <1>3, <1>4, <3>1, NextPhaseOf DEF AtWork
        <3>3. call'[c] = new /\ \A d \in Resolvers : d # c => call'[d] = call[d]
            BY <1>4, <3>2 DEF TypeOK
        <3> QED
            BY <1>4, <1>7, <3>2, <3>3 DEF CallIsHonest, AtWork, MadeFor
    <2>2. CASE Capture(c)
        <3>1. call' = [NextPhase(c, "confirm") EXCEPT ![c].snapshot = View(s)]
            BY <1>2, <1>6, <2>2 DEF Capture
        <3>2. PICK next \in CallRecords :
                    /\ NextPhase(c, "confirm") = [call EXCEPT ![c] = next]
                    /\ next.phase = "confirm" /\ next.step = "statistic" /\ next.object = s
                    /\ next.request = r
            BY <1>2, <1>3, <1>4, NextPhaseOf DEF AtWork
        <3>3. call'[c] = [next EXCEPT !.snapshot = View(s)]
              /\ \A d \in Resolvers : d # c => call'[d] = call[d]
            BY <1>4, <3>1, <3>2 DEF TypeOK
        <3>4. /\ call'[c].phase = "confirm" /\ call'[c].step = "statistic" /\ call'[c].object = s
              /\ call'[c].request = r /\ call'[c].snapshot = View(s)
            BY <3>2, <3>3 DEF CallRecords
        <3> QED
            BY <1>4, <1>7, <3>3, <3>4 DEF CallIsHonest, AtWork, MadeFor, View
    <2> QED
        BY <1>1, <2>1, <2>2
<1>9. SameElsewhere(s) /\ owned'[s] = None
    BY <1>1, <1>4 DEF SameElsewhere
<1> QED
    BY <1>1, <1>4, <1>8, <1>9, HonestWithOneCall

LEMMA HonestRegister ==
    ASSUME ResolutionInv, Honest, meddles = 0, NEW c \in Resolvers, Register(c)
    PROVE  Honest'
<1>1. /\ call[c].step = "null" /\ call[c].step # None /\ call[c].phase = "confirm"
      /\ UNCHANGED <<address, slots, box, value, world, gate>>
    BY ResolutionAssumption DEF Register, ReadNull, OfResolve
<1>2. PICK s \in Objects : s = call[c].object
    BY <1>1, HonestAnswers
<1>3. PICK r : r = call[c].request
    OBVIOUS
<1>4. /\ owned[s] = None /\ \A d \in Resolvers : d # c => call[d].object # s
      /\ call[c] \in CallRecords /\ TypeOK /\ MadeFor(s, r) /\ r \in Requests
    BY <1>1, <1>2, <1>3, HonestAnswers
<1>5. call[c].seen = r.statistic /\ call[c].snapshot = View(s)
    BY <1>1, <1>2, <1>3 DEF Honest, CallIsHonest
<1>6. CaptureHolds(s, call[c].seen)
    BY <1>4, <1>5, HonestCapture
<1>7. /\ weak' = [weak EXCEPT ![s] = "live"] /\ owned' = [owned EXCEPT ![s] = View(s)]
      /\ call' = [call EXCEPT ![c] = Call("returned", None)]
    BY <1>2, <1>5, <1>6 DEF Register
<1>8. /\ call'[c] = Call("returned", None) /\ owned'[s] = View(s)
      /\ \A d \in Resolvers : d # c => call'[d] = call[d]
      /\ \A t \in Objects : t # s => owned'[t] = owned[t] /\ weak'[t] = weak[t]
    BY <1>4, <1>7 DEF TypeOK, LivesAreTyped
<1>9. SameElsewhere(s)
    BY <1>1, <1>8 DEF SameElsewhere
<1>10. MadeFor(s, r)' /\ View(s)' = View(s)
    BY <1>1, <1>4, MadeStays
<1>11. OwnedAreHonest'
    <2>1. ASSUME NEW t \in Objects, owned'[t] # None
          PROVE  (\E q \in Requests : MadeFor(t, q)') /\ owned'[t] = View(t)'
        <3>1. CASE t = s
            BY <1>4, <1>8, <1>10, <3>1
        <3>2. CASE t # s
            <4>1. owned[t] # None
                BY <1>8, <2>1, <3>2
            <4> QED
                BY <1>1, <1>4, <1>9, <4>1, OthersStayHonest
        <3> QED
            BY <3>1, <3>2
    <2> QED
        BY <2>1 DEF OwnedAreHonest
<1>12. ASSUME NEW d \in Resolvers PROVE CallIsHonest(d)'
    <2>1. CASE d = c
        BY <1>8, <2>1, ResolutionAssumption DEF CallIsHonest, Call, AtWork
    <2>2. CASE d # c
        BY <1>1, <1>4, <1>8, <1>9, <2>2, OthersStayHonest
    <2> QED
        BY <2>1, <2>2
<1>13. GateIsHonest' /\ world' = Canonical
    BY <1>1, <1>4, <1>9, OthersStayHonest DEF Honest
<1> QED
    BY <1>11, <1>12, <1>13 DEF Honest

LEMMA HonestGate ==
    ASSUME ResolutionInv, Honest, meddles = 0, GateStep
    PROVE  Honest'
<1>1. UNCHANGED <<slots, box, value, world, call, meddles, owned>>
    BY DEF GateStep, CheckPure, EnterPublic, PublicReadStatistic, PublicReadNull, OfGate, graph, lives
<1>2. GateIsHonest'
    <2>1. ASSUME NEW kind, NEW s, NEW holds, Answer(kind, s, holds) PROVE gate'.pc # "null"
        BY <2>1 DEF Answer, NoGate
    <2>2. CASE PublicReadStatistic
        <3>1. CASE gate' = [gate EXCEPT !.pc = "null", !.seen = View(gate.object).statisticBytes]
            <4>1. gate \in GateRecords
                BY DEF ResolutionInv, TypeOK
            <4>2. gate'.seen = View(gate.object).statisticBytes /\ gate'.object = gate.object
                BY <3>1, <4>1 DEF GateRecords
            <4> QED
                BY <1>1, <4>2 DEF GateIsHonest, View
        <3> QED
            BY <2>1, <2>2, <3>1 DEF PublicReadStatistic, GateIsHonest
    <2>3. CASE \E s \in Objects : EnterPublic(s)
        <3>1. gate'.pc # "null"
            BY <2>1, <2>3 DEF EnterPublic, NoGate
        <3> QED
            BY <3>1 DEF GateIsHonest
    <2>4. CASE (\E s \in Objects : CheckPure(s)) \/ PublicReadNull
        <3>1. gate'.pc # "null"
            BY <2>1, <2>4 DEF CheckPure, PublicReadNull
        <3> QED
            BY <3>1 DEF GateIsHonest
    <2> QED
        BY <2>2, <2>3, <2>4 DEF GateStep
<1> QED
    BY <1>1, <1>2, CallsStayHonest DEF Honest

LEMMA HonestLife ==
    ASSUME ResolutionInv, Honest, meddles = 0, LifeStep
    PROVE  Honest'
<1>1. CASE \E s \in Objects : Copy(s)
    <2>1. PICK s \in Objects : s = Fresh
        BY <1>1, FreshIsUnused DEF Copy
    <2>2. /\ UNCHANGED <<weak, box, value, world, call, gate, owned>> /\ value[s] = None /\ slots[s] = None
          /\ \E t : slots' = [slots EXCEPT ![s] = t]
          /\ \E a : address' = [address EXCEPT ![s] = a]
        BY <1>1, <2>1, FreshIsUnused DEF Copy
    <2>3. SameElsewhere(s) /\ owned[s] = None
        BY <2>2 DEF SameElsewhere, ResolutionInv, TypeOK, GraphIsTyped, LivesAreTyped, UnusedAreBlank
    <2>4. \A c \in Resolvers : call[c].object # s
        <3> SUFFICES ASSUME NEW c \in Resolvers, call[c].object = s PROVE FALSE
            OBVIOUS
        <3>1. CallIsOrderly(c) /\ s # None
            BY ResolutionAssumption DEF ResolutionInv, CallsInv
        <3> QED
            BY <2>2, <3>1 DEF CallIsOrderly
    <2>5. (\A c \in Resolvers : CallIsHonest(c)') /\ GateIsHonest'
        BY <2>2, <2>3, <2>4, OthersStayHonest
    <2>6. OwnedAreHonest'
        BY <2>2, <2>3, OthersStayHonest DEF OwnedAreHonest
    <2> QED
        BY <2>2, <2>5, <2>6 DEF Honest
<1>2. CASE RunCallback \/ \E s \in Objects : Drop(s) \/ Revive(s)
    <2>1. UNCHANGED <<slots, box, value, world, call, gate, meddles, owned>>
        BY <1>2 DEF RunCallback, Drop, Revive, OfLife, graph
    <2> QED
        BY <2>1, HonestWhenUntouched
<1> QED
    BY <1>1, <1>2 DEF LifeStep

LEMMA HonestStays ==
    ASSUME ResolutionInv, Honest, [Next]_vars
    PROVE  Honest'
<1> SUFFICES ASSUME meddles' = 0 PROVE Honest'
    BY DEF Honest
<1>1. meddles \in Nat
    BY DEF ResolutionInv, TypeOK
<1>2. ~Meddle
    BY <1>1 DEF Meddle
<1>3. CASE ResolveStep
    <2>1. meddles = 0
        BY <1>3 DEF ResolveStep, Build, ReadStatistic, Construct, PostInit, Capture, Register, ReadNull, OfResolve
    <2> QED
        BY <1>3, <2>1, HonestBuild, HonestReadStatistic, HonestConstruct, HonestPostInitOrCapture,
           HonestRegister DEF ResolveStep
<1>4. CASE GateStep
    <2>1. meddles = 0
        BY <1>4 DEF GateStep, CheckPure, EnterPublic, PublicReadStatistic, PublicReadNull, OfGate
    <2> QED
        BY <1>4, <2>1, HonestGate
<1>5. CASE LifeStep
    <2>1. meddles = 0
        BY <1>5 DEF LifeStep, Drop, Revive, Copy, RunCallback, OfLife
    <2> QED
        BY <1>5, <2>1, HonestLife
<1>6. CASE UNCHANGED vars
    BY <1>6, HonestWhenUntouched DEF vars
<1> QED
    BY <1>2, <1>3, <1>4, <1>5, <1>6, StepsByKind

Inv == ResolutionInv /\ Honest

LEMMA InvAlways == Spec => []Inv
<1>1. Init => Inv
    BY TypeInitially, HonestInitially DEF Inv
<1>2. Inv /\ [Next]_vars => Inv'
    BY ResolutionInvStays, HonestStays DEF Inv
<1> QED
    BY <1>1, <1>2, PTL DEF Spec

-----------------------------------------------------------------------------
\* The theorems

\* The registry follows the resolutions, however many resolves, deaths and late callbacks
\* interleave and however ids are used again: a live resolution has its record, and a record
\* of a dead one stays no longer than its callback is due (resolve_plan_v2,
\* discard_identity_record).
THEOREM RecordsFollow == Spec => []RecordsFollowTheirResolutions
<1>1. Inv => RecordsFollowTheirResolutions
    <2> SUFFICES ASSUME Inv PROVE RecordsFollowTheirResolutions
        OBVIOUS
    <2>1. ASSUME NEW s \in Objects, weak[s] = "live"
          PROVE  Alive(s) /\ records[address[s]] # None /\ records[address[s]].reference = s
        <3>1. address[s] # None /\ owned[s] # None
              /\ records[address[s]] = [reference |-> s, snapshot |-> owned[s]]
            BY <2>1 DEF Inv, ResolutionInv, LivesInv, LiveAreRecorded
        <3>2. owned[s] \in Views
            BY <3>1 DEF Inv, ResolutionInv, TypeOK, LivesAreTyped
        <3>3. records[address[s]] \in Entries
            BY <3>1, <3>2 DEF Entries
        <3> QED
            BY <3>1, <3>3, ResolutionAssumption DEF Alive
    <2>2. RecordsAreDue
        BY DEF Inv, ResolutionInv, LivesInv
    <2> QED
        BY <2>1, <2>2 DEF RecordsAreDue, RecordsFollowTheirResolutions
<1> QED
    BY <1>1, InvAlways, PTL

\* A gate accepts only what the resolver returned, in the state it was returned in (the pure
\* gates) or with the contents it was returned with (the public gate), whatever the code
\* called by getters did meanwhile (_require_resolver_owned_resolution_v2 and its variants).
THEOREM AcceptedWasResolved == Spec => AcceptedIsWhatWasResolved
<1>1. ASSUME Inv, [Next]_vars, gate.pc # "owned", gate'.pc = "owned"
      PROVE  LET s == gate'.object
             IN  /\ owned[s] # None
                 /\ EntriesAreCanonical
                 /\ IF gate'.kind = "public"
                    THEN Content(View(s)) = Content(owned[s])
                    ELSE View(s) = owned[s]
    <2>1. GateStep
        <3>1. ~GateStep => UNCHANGED gate
            BY <1>1, StepsByKind DEF ResolveStep, Build, ReadStatistic, Construct, PostInit, Capture,
               Register, ReadNull, OfResolve, LifeStep, Drop, Revive, Copy, RunCallback, OfLife, Meddle, vars
        <3> QED
            BY <1>1, <3>1
    <2>2. CASE \E s \in Objects : CheckPure(s)
        <3>1. PICK s \in Objects : CheckPure(s)
            BY <2>2
        <3>2. PICK kind \in {"pure", "verifier"}, holds \in BOOLEAN :
                    Answer(kind, s, holds) /\ (holds => PureOwned(s) \/ VerifierOwned(s))
            BY <3>1 DEF CheckPure, PureOwned, VerifierOwned
        <3>3. gate'.kind = kind /\ gate'.object = s /\ holds
            BY <1>1, <3>2, AnswerIsTyped
        <3>4. EntriesAreCanonical /\ Registered(s) /\ View(s) = RecordOf(s)
            BY <3>2, <3>3 DEF PureOwned, VerifierOwned
        <3>5. owned[s] # None /\ RecordOf(s) = owned[s]
            BY <1>1, <3>4, RegisteredIsOwned DEF Inv
        <3> QED
            BY <3>3, <3>4, <3>5
    <2>3. CASE \E s \in Objects : EnterPublic(s)
        <3>1. PICK s \in Objects : EnterPublic(s)
            BY <2>3
        <3>2. \/ gate' = [NoGate EXCEPT !.pc = "statistic", !.kind = "public", !.object = s,
                                        !.record = RecordOf(s)]
              \/ Answer("public", s, FALSE)
            BY <3>1 DEF EnterPublic
        <3>3. Answer("public", s, FALSE) => gate'.pc = "refused"
            BY AnswerIsTyped
        <3> QED
            BY <1>1, <3>2, <3>3 DEF NoGate
    <2>4. CASE PublicReadStatistic
        <3>1. gate.object \in Objects /\ gate \in GateRecords
            BY <1>1, <2>4 DEF PublicReadStatistic, Inv, ResolutionInv, GateIsOrderly, TypeOK
        <3>2. \/ gate' = [gate EXCEPT !.pc = "null", !.seen = View(gate.object).statisticBytes]
              \/ Answer("public", gate.object, FALSE)
            BY <2>4 DEF PublicReadStatistic
        <3>3. Answer("public", gate.object, FALSE) => gate'.pc = "refused"
            BY DEF Answer, NoGate
        <3> QED
            BY <1>1, <3>1, <3>2, <3>3 DEF GateRecords
    <2>5. CASE PublicReadNull
        <3>1. PICK s \in Objects : s = gate.object
            BY <1>1, <2>5 DEF PublicReadNull, Inv, ResolutionInv, GateIsOrderly
        <3>2. owned[s] # None /\ gate.record = owned[s]
            BY <1>1, <2>5, <3>1 DEF PublicReadNull, Inv, ResolutionInv, GateIsOrderly
        <3>3. Answer("public", s, PublicHolds(s)) /\ PublicHolds(s) \in BOOLEAN
            BY <2>5, <3>1 DEF PublicReadNull, PublicHolds
        <3>4. gate'.kind = "public" /\ gate'.object = s /\ PublicHolds(s)
            BY <1>1, <3>3, AnswerIsTyped
        <3>5. EntriesAreCanonical /\ Content(View(s)) = Content(owned[s])
            BY <3>2, <3>4 DEF PublicHolds, CaptureHolds
        <3> QED
            BY <3>2, <3>4, <3>5
    <2> QED
        BY <2>1, <2>2, <2>3, <2>4, <2>5 DEF GateStep
<1>2. Inv /\ [Next]_vars =>
        [gate.pc # "owned" /\ gate'.pc = "owned" =>
            LET s == gate'.object
            IN  /\ owned[s] # None
                /\ EntriesAreCanonical
                /\ IF gate'.kind = "public"
                   THEN Content(View(s)) = Content(owned[s])
                   ELSE View(s) = owned[s]]_gate
    BY <1>1
<1> QED
    BY <1>2, InvAlways, PTL DEF Spec, AcceptedIsWhatWasResolved

\* While nobody changes an object, a getter or a registry, no resolve fails and no gate
\* refuses a returned resolution whose reference lives (resolve_plan_v2 and the gates).
THEOREM HonestIsOwned == Spec => HonestResolutionIsOwned
<1>1. ASSUME Inv, [Next]_vars, meddles = 0
      PROVE  /\ \A c \in Resolvers : call'[c].phase # "raised"
             /\ gate.pc # "refused" /\ gate'.pc = "refused" =>
                   owned[gate'.object] = None \/ weak[gate'.object] # "live"
    <2>1. \A c \in Resolvers : call'[c].phase # "raised"
        <3>1. CASE Meddle
            BY <1>1, <3>1 DEF Meddle, Inv, Honest, CallIsHonest
        <3>2. CASE ~Meddle
            <4>1. meddles' = 0
                BY <1>1, <3>2, StepsByKind DEF ResolveStep, Build, ReadStatistic, Construct, PostInit,
                   Capture, Register, ReadNull, OfResolve, GateStep, CheckPure, EnterPublic,
                   PublicReadStatistic, PublicReadNull, OfGate, LifeStep, Drop, Revive, Copy,
                   RunCallback, OfLife, vars
            <4>2. Honest'
                BY <1>1, HonestStays DEF Inv
            <4> QED
                BY <4>1, <4>2 DEF Honest, CallIsHonest
        <3> QED
            BY <3>1, <3>2
    <2>2. ASSUME gate.pc # "refused", gate'.pc = "refused",
                 owned[gate'.object] # None, weak[gate'.object] = "live"
          PROVE  FALSE
        <3>1. GateStep
            <4>1. ~GateStep => UNCHANGED gate
                BY <1>1, StepsByKind DEF ResolveStep, Build, ReadStatistic, Construct, PostInit, Capture,
                   Register, ReadNull, OfResolve, LifeStep, Drop, Revive, Copy, RunCallback, OfLife, Meddle, vars
            <4> QED
                BY <2>2, <4>1
        <3>2. RegistriesAreCanonical /\ EntriesAreCanonical
            BY <1>1, CanonicalWorld DEF Inv
        <3>3. ASSUME NEW s \in Objects, s = gate'.object
              PROVE  /\ Registered(s) /\ RecordOf(s) = owned[s] /\ View(s) = owned[s]
                     /\ \E r \in Requests : MadeFor(s, r)
            <4>1. /\ records[address[s]] = [reference |-> s, snapshot |-> owned[s]]
                  /\ owned[s] \in Views
                BY <1>1, <2>2, <3>3 DEF Inv, ResolutionInv, LivesInv, LiveAreRecorded, TypeOK, LivesAreTyped
            <4>2. records[address[s]] # None /\ records[address[s]].reference = s
                <5>1. records[address[s]] \in Entries
                    BY <4>1 DEF Entries
                <5> QED
                    BY <4>1, <5>1, ResolutionAssumption
            <4>3. Registered(s)
                BY <2>2, <3>3, <4>2 DEF Registered
            <4>4. RecordOf(s) = owned[s]
                BY <1>1, <4>3, RegisteredIsOwned DEF Inv
            <4> QED
                BY <1>1, <2>2, <3>3, <4>3, <4>4 DEF Inv, Honest, OwnedAreHonest
        <3>4. CASE \E s \in Objects : CheckPure(s)
            <4>1. PICK s \in Objects : CheckPure(s)
                BY <3>4
            <4>2. PICK kind \in {"pure", "verifier"}, holds \in BOOLEAN :
                        Answer(kind, s, holds) /\ (~holds => ~PureOwned(s) \/ ~VerifierOwned(s))
                BY <4>1 DEF CheckPure, PureOwned, VerifierOwned
            <4>3. gate'.object = s /\ ~holds
                BY <2>2, <4>2, AnswerIsTyped
            <4>4. PureOwned(s) /\ VerifierOwned(s)
                BY <3>2, <3>3, <4>3 DEF PureOwned, VerifierOwned
            <4> QED
                BY <4>2, <4>3, <4>4
        <3>5. CASE \E s \in Objects : EnterPublic(s)
            <4>1. PICK s \in Objects : EnterPublic(s)
                BY <3>5
            <4>2. gate'.object = s
                BY <4>1, AnswerIsTyped DEF EnterPublic, NoGate
            <4>3. Registered(s) /\ Identity(View(s)) = Identity(RecordOf(s))
                BY <3>3, <4>2
            <4>4. gate'.pc = "statistic"
                BY <3>2, <4>1, <4>3 DEF EnterPublic, NoGate
            <4> QED
                BY <2>2, <4>4
        <3>6. ASSUME gate.pc \in {"statistic", "null"}
              PROVE  /\ gate.object \in Objects /\ owned[gate.object] # None
                     /\ gate.record = owned[gate.object]
                     /\ owned[gate.object] = View(gate.object)
                     /\ \E r \in Requests : MadeFor(gate.object, r)
            BY <1>1, <3>6 DEF Inv, ResolutionInv, GateIsOrderly, Honest, OwnedAreHonest
        <3>7. CASE PublicReadStatistic
            <4>1. PICK s \in Objects, r \in Requests : s = gate.object /\ MadeFor(s, r)
                BY <3>6, <3>7 DEF PublicReadStatistic
            <4>2. View(s).statisticBytes = r.statistic /\ View(s).planBytes = r
                BY <4>1, MadeView
            <4>3. gate' = [gate EXCEPT !.pc = "null", !.seen = View(s).statisticBytes]
                BY <3>2, <3>7, <4>1, <4>2 DEF PublicReadStatistic
            <4>4. gate \in GateRecords
                BY <1>1 DEF Inv, ResolutionInv, TypeOK
            <4> QED
                BY <2>2, <4>3, <4>4 DEF GateRecords
        <3>8. CASE PublicReadNull
            <4>1. PICK s \in Objects, r \in Requests : s = gate.object /\ MadeFor(s, r)
                BY <3>6, <3>8 DEF PublicReadNull
            <4>2. View(s).statisticBytes = r.statistic
                BY <4>1, MadeView
            <4>3. PICK seen : seen = gate.seen
                OBVIOUS
            <4>4. seen = r.statistic
                BY <1>1, <3>8, <4>1, <4>2, <4>3 DEF PublicReadNull, Inv, Honest, GateIsHonest
            <4>5. CaptureHolds(s, gate.seen)
                BY <1>1, <4>1, <4>3, <4>4, HonestCapture DEF Inv
            <4>6. gate.record = View(s)
                BY <3>6, <3>8, <4>1 DEF PublicReadNull
            <4>7. PublicHolds(s)
                BY <4>5, <4>6 DEF PublicHolds
            <4>8. Answer("public", s, TRUE)
                BY <3>8, <4>1, <4>7 DEF PublicReadNull, Answer
            <4> QED
                BY <2>2, <4>8, AnswerIsTyped
        <3> QED
            BY <3>1, <3>4, <3>5, <3>7, <3>8 DEF GateStep
    <2> QED
        BY <2>1, <2>2
<1>2. Inv /\ [Next]_vars =>
        [meddles = 0 =>
            /\ \A c \in Resolvers : call'[c].phase # "raised"
            /\ gate.pc # "refused" /\ gate'.pc = "refused" =>
                  owned[gate'.object] = None \/ weak[gate'.object] # "live"]_<<call, gate>>
    BY <1>1
<1> QED
    BY <1>2, InvAlways, PTL DEF Spec, HonestResolutionIsOwned
=============================================================================
