----------------------------- MODULE Resolution -----------------------------
(***************************************************************************)
(* Resolver ownership (resolution_v2.py): resolve_plan_v2 registers what   *)
(* it built under the id of the resolution object, and every later use of  *)
(* a resolution passes a gate that looks the record up and compares.       *)
(*                                                                         *)
(* The public getters of adapters are callbacks: between two steps of a    *)
(* resolve or of the public gate other code may run, which may call the    *)
(* resolver again, copy, drop or change objects and replace getters or     *)
(* registrations.  Ids are addresses and are used again; the callback of a *)
(* weak reference runs at any time after the object is gone.  The numbers  *)
(* below name objects: number s names the resolution, plan, container of   *)
(* adapters and adapters that resolve s made, or the copy s.               *)
(***************************************************************************)
EXTENDS Naturals

CONSTANTS
    Addresses,
    Objects,    \* the numbers of objects
    Resolvers,  \* concurrent or nested calls of resolve_plan_v2
    Requests,   \* records of a statistic, a null and the rest of a request
    None,
    MaxMeddles  \* bound on changes made by other code

-----------------------------------------------------------------------------
\* What the objects hold

Statistics == {r.statistic : r \in Requests}

Nulls == {r.null : r \in Requests}

Slots == [plan : Objects, adapters : Objects]

Boxes == [statistic : Objects, null : Objects]

Contents ==
    [plan : Requests \cup {None}, statistic : Statistics \cup {None}, null : Nulls \cup {None}]

Views ==
    [plan : Objects, adapters : Objects, statistic : Objects, null : Objects,
     planBytes : Requests \cup {None}, statisticBytes : Statistics \cup {None},
     nullBytes : Nulls \cup {None}, getters : {0, 1}]

Entries == [reference : Objects, snapshot : Views]

ASSUME ResolutionAssumption ==
    /\ \A r \in Requests : DOMAIN r = {"statistic", "null", "rest"}
    /\ None \notin Addresses /\ None \notin Objects /\ None \notin Requests
    /\ None \notin {"statistic", "null"}
    /\ None \notin Slots /\ None \notin Boxes /\ None \notin Contents
    /\ None \notin Views /\ None \notin Entries
    /\ MaxMeddles \in Nat

VARIABLES
    address, \* where each resolution lives; None when it does not
    weak,    \* the registry's weak reference to it: "none", "live" or "cleared"
    pending, \* objects whose weakref callback has yet to run, with their address
    slots,   \* plan and container of each resolution
    box,     \* statistic and null of each container
    value,   \* content of each plan and adapter
    world,   \* getters of the adapter classes, the registries, the registration entries
    records, \* the registry by address
    call,    \* the calls of resolve_plan_v2
    gate,    \* a call of one of the gates
    meddles,
    owned    \* history: what each resolution was when its resolve returned

vars == <<address, weak, pending, slots, box, value, world, records, call, gate, meddles, owned>>

graph == <<slots, box, value, world>>

lives == <<address, weak, pending>>

-----------------------------------------------------------------------------
\* Snapshots

Alive(s) == address[s] # None

Canonical == [getters |-> 0, registry |-> 0, entries |-> 0]

\* What _capture_resolution_snapshot and the pure readers see of a resolution: the four
\* objects, their contents, and the getters of the adapter classes.
View(s) ==
    LET plan      == slots[s].plan
        adapters  == slots[s].adapters
        statistic == box[adapters].statistic
        null      == box[adapters].null
    IN  [plan |-> plan, adapters |-> adapters, statistic |-> statistic, null |-> null,
         planBytes |-> value[plan].plan, statisticBytes |-> value[statistic].statistic,
         nullBytes |-> value[null].null, getters |-> world.getters]

Identity(view) == <<view.plan, view.adapters, view.statistic, view.null>>

Content(view) == <<view.planBytes, view.statisticBytes, view.nullBytes>>

\* The registries and the registration entries are those of module initialisation.
RegistriesAreCanonical == world.registry = 0

EntriesAreCanonical == world.entries = 0

Call(phase, request) ==
    [phase |-> phase, request |-> request, step |-> None, object |-> None, seen |-> None,
     snapshot |-> None]

NoGate == [pc |-> "idle", kind |-> None, object |-> None, record |-> None, seen |-> None]

Init ==
    /\ address = [s \in Objects |-> None] /\ weak = [s \in Objects |-> "none"] /\ pending = {}
    /\ slots = [s \in Objects |-> None] /\ box = [s \in Objects |-> None]
    /\ value = [s \in Objects |-> None]
    /\ world = Canonical
    /\ records = [a \in Addresses |-> None]
    /\ call \in [Resolvers -> {Call("start", r) : r \in Requests}]
    /\ gate = NoGate
    /\ meddles = 0
    /\ owned = [s \in Objects |-> None]

-----------------------------------------------------------------------------
\* resolve_plan_v2

\* The numbers no object has had.
Unused == {s \in Objects : value[s] = None /\ slots[s] = None}

Fresh == CHOOSE s \in Unused : TRUE

FreeAddresses == Addresses \ {address[s] : s \in Objects}

OfResolve == UNCHANGED <<world, pending, gate, meddles>>

Fail(c) == call' = [call EXCEPT ![c] = Call("raised", None)]

\* The statistic is built, and its getters are called.
Build(c) ==
    /\ call[c].phase = "start"
    /\ \/ /\ ~(RegistriesAreCanonical /\ EntriesAreCanonical)
          /\ Fail(c) /\ UNCHANGED value
       \/ /\ RegistriesAreCanonical /\ EntriesAreCanonical
          /\ Unused # {}
          /\ value' = [value EXCEPT ![Fresh] =
                [plan |-> None, statistic |-> call[c].request.statistic, null |-> None]]
          /\ call' = [call EXCEPT ![c].phase = "build", ![c].step = "statistic", ![c].object = Fresh]
    /\ OfResolve /\ UNCHANGED <<address, weak, slots, box, records, owned>>

\* What the getters of the live adapters answer, and what the plan wants them to be.
StatisticOf(s) == IF slots[s] = None THEN value[s].statistic ELSE View(s).statisticBytes

NullOf(s) == IF slots[s] = None THEN value[s].null ELSE View(s).nullBytes

PlanOf(c) ==
    LET s == call[c].object IN IF slots[s] = None THEN call[c].request ELSE View(s).planBytes

\* The getters of the statistic have answered; the null is built if it was not.
ReadStatistic(c) ==
    LET s == call[c].object
    IN  /\ call[c].step = "statistic"
        /\ \/ /\ EntriesAreCanonical /\ StatisticOf(s) = PlanOf(c).statistic
              /\ call[c].phase = "build" => RegistriesAreCanonical
              /\ call' = [call EXCEPT ![c].step = "null", ![c].seen = StatisticOf(s)]
              /\ value' = IF call[c].phase = "build"
                          THEN [value EXCEPT ![s].null = call[c].request.null] ELSE value
           \/ /\ \/ ~EntriesAreCanonical \/ StatisticOf(s) # PlanOf(c).statistic
                 \/ call[c].phase = "build" /\ ~RegistriesAreCanonical
              /\ Fail(c) /\ UNCHANGED value
        /\ OfResolve /\ UNCHANGED <<address, weak, slots, box, records, owned>>

ReadNull(c, phase) == call[c].step = "null" /\ call[c].phase = phase /\ OfResolve

NullIsVerified(c) == EntriesAreCanonical /\ NullOf(call[c].object) = PlanOf(c).null

NextPhase(c, phase) ==
    [call EXCEPT ![c].phase = phase, ![c].step = "statistic", ![c].seen = None]

\* The plan, the container and the sealed resolution are made.
Construct(c) ==
    LET s == call[c].object
    IN  /\ ReadNull(c, "build")
        /\ \/ /\ NullIsVerified(c) /\ RegistriesAreCanonical
              /\ \E a \in FreeAddresses : address' = [address EXCEPT ![s] = a]
              /\ slots' = [slots EXCEPT ![s] = [plan |-> s, adapters |-> s]]
              /\ box' = [box EXCEPT ![s] = [statistic |-> s, null |-> s]]
              /\ value' = [value EXCEPT ![s].plan = call[c].request]
              /\ call' = NextPhase(c, "construct")
           \/ /\ ~(NullIsVerified(c) /\ RegistriesAreCanonical)
              /\ Fail(c) /\ UNCHANGED <<address, slots, box, value>>
        /\ UNCHANGED <<weak, records, owned>>

\* __post_init__ has validated the fields, and the first snapshot begins.
PostInit(c) ==
    /\ ReadNull(c, "construct")
    /\ \/ NullIsVerified(c) /\ RegistriesAreCanonical /\ call' = NextPhase(c, "snapshot")
       \/ ~(NullIsVerified(c) /\ RegistriesAreCanonical) /\ Fail(c)
    /\ UNCHANGED <<address, weak, slots, box, value, records, owned>>

\* The end of _capture_resolution_snapshot: no getter is called any more, and what the
\* getters said before is compared with what the slots hold now.
CaptureHolds(s, seen) ==
    /\ RegistriesAreCanonical /\ EntriesAreCanonical
    /\ View(s).nullBytes = View(s).planBytes.null
    /\ View(s).statisticBytes = seen

Capture(c) ==
    LET s == call[c].object
    IN  /\ ReadNull(c, "snapshot")
        /\ \/ /\ CaptureHolds(s, call[c].seen)
              /\ call' = [NextPhase(c, "confirm") EXCEPT ![c].snapshot = View(s)]
           \/ /\ ~CaptureHolds(s, call[c].seen)
              /\ Fail(c)
        /\ UNCHANGED <<address, weak, slots, box, value, records, owned>>

\* The second snapshot equals the first, which is registered under the id.
Register(c) ==
    LET s         == call[c].object
        confirmed == CaptureHolds(s, call[c].seen) /\ View(s) = call[c].snapshot
    IN  /\ ReadNull(c, "confirm")
        /\ \/ /\ confirmed
              /\ weak' = [weak EXCEPT ![s] = "live"]
              /\ records' = [records EXCEPT ![address[s]] =
                                [reference |-> s, snapshot |-> call[c].snapshot]]
              /\ owned' = [owned EXCEPT ![s] = View(s)]
              /\ call' = [call EXCEPT ![c] = Call("returned", None)]
           \/ /\ ~confirmed
              /\ Fail(c) /\ UNCHANGED <<weak, records, owned>>
        /\ UNCHANGED <<address, slots, box, value>>

-----------------------------------------------------------------------------
\* The gates

OfGate == UNCHANGED <<graph, lives, records, call, meddles, owned>>

\* The record under the id of s is that of s.
Registered(s) ==
    LET record == records[address[s]]
    IN  record # None /\ record.reference = s /\ weak[s] = "live"

RecordOf(s) == records[address[s]].snapshot

Answer(kind, s, holds) ==
    gate' = [NoGate EXCEPT !.pc = IF holds THEN "owned" ELSE "refused", !.kind = kind, !.object = s]

\* _require_resolver_owned_resolution_v2_pure: no getter is called.
PureOwned(s) ==
    /\ RegistriesAreCanonical /\ EntriesAreCanonical
    /\ Registered(s) /\ View(s) = RecordOf(s)

\* resolution_context of the frozen verifier: the module globals that name the registries
\* are not read.
VerifierOwned(s) ==
    /\ EntriesAreCanonical
    /\ Registered(s) /\ View(s) = RecordOf(s)

CheckPure(s) ==
    /\ gate.pc = "idle" /\ Alive(s) /\ slots[s] # None
    /\ \/ Answer("pure", s, PureOwned(s))
       \/ Answer("verifier", s, VerifierOwned(s))
    /\ OfGate

\* _require_resolver_owned_resolution_v2: the objects are compared before the getters are
\* called, the contents after.
EnterPublic(s) ==
    /\ gate.pc = "idle" /\ Alive(s) /\ slots[s] # None
    /\ IF /\ Registered(s) /\ Identity(View(s)) = Identity(RecordOf(s))
          /\ RegistriesAreCanonical /\ EntriesAreCanonical
       THEN gate' = [NoGate EXCEPT !.pc = "statistic", !.kind = "public", !.object = s,
                                   !.record = RecordOf(s)]
       ELSE Answer("public", s, FALSE)
    /\ OfGate

PublicReadStatistic ==
    LET view == View(gate.object)
    IN  /\ gate.pc = "statistic"
        /\ IF EntriesAreCanonical /\ view.statisticBytes = view.planBytes.statistic
           THEN gate' = [gate EXCEPT !.pc = "null", !.seen = view.statisticBytes]
           ELSE Answer("public", gate.object, FALSE)
        /\ OfGate

\* Mutant of PublicHolds: the contents are those the getters reported.
PublicHoldsByGetters(s) ==
    /\ EntriesAreCanonical /\ RegistriesAreCanonical
    /\ View(s).nullBytes = View(s).planBytes.null
    /\ Content([View(s) EXCEPT !.statisticBytes = gate.seen]) = Content(gate.record)

\* A new snapshot has the contents of the registered one.
PublicHolds(s) ==
    /\ CaptureHolds(s, gate.seen)
    /\ Content(View(s)) = Content(gate.record)

PublicReadNull ==
    /\ gate.pc = "null"
    /\ Answer("public", gate.object, PublicHolds(gate.object))
    /\ OfGate

-----------------------------------------------------------------------------
\* The life of objects

OfLife == UNCHANGED <<graph, call, gate, meddles, owned>>

InUse(s) ==
    \/ \E c \in Resolvers : call[c].object = s
    \/ gate.pc \in {"statistic", "null"} /\ gate.object = s

\* The last reference is dropped: weak references are cleared and the address is free.
Drop(s) ==
    /\ Alive(s) /\ ~InUse(s)
    /\ address' = [address EXCEPT ![s] = None]
    /\ weak' = [weak EXCEPT ![s] = IF weak[s] = "live" THEN "cleared" ELSE weak[s]]
    /\ pending' = IF weak[s] = "live" THEN pending \cup {[object |-> s, id |-> address[s]]} ELSE pending
    /\ OfLife /\ UNCHANGED records

\* The collector clears the weak references of a cycle that a finaliser then revives.
Revive(s) ==
    /\ Alive(s) /\ ~InUse(s) /\ weak[s] = "live"
    /\ weak' = [weak EXCEPT ![s] = "cleared"]
    /\ pending' = pending \cup {[object |-> s, id |-> address[s]]}
    /\ OfLife /\ UNCHANGED <<address, records>>

\* Mutant of Discarded: the record under the id is removed whatever it refers to.
DiscardedById(dead) == [records EXCEPT ![dead.id] = None]

\* Mutant of Discarded: the record stays until its id is used again.
DiscardedNever(dead) == records

\* discard_identity_record: only the record of the dead reference is removed.
Discarded(dead) ==
    IF records[dead.id] # None /\ records[dead.id].reference = dead.object
    THEN [records EXCEPT ![dead.id] = None] ELSE records

RunCallback ==
    /\ \E dead \in pending :
        /\ records' = Discarded(dead)
        /\ pending' = pending \ {dead}
    /\ OfLife /\ UNCHANGED <<address, weak>>

\* copy.copy makes an exact PlanResolutionV2 without the resolver.
Copy(s) ==
    /\ Alive(s) /\ slots[s] # None /\ Unused # {}
    /\ \E a \in FreeAddresses : address' = [address EXCEPT ![Fresh] = a]
    /\ slots' = [slots EXCEPT ![Fresh] = slots[s]]
    /\ UNCHANGED <<weak, pending, box, value, world, records, call, gate, meddles, owned>>

-----------------------------------------------------------------------------
\* Changes by other code

Have(part) == {s \in Objects : value[s] # None /\ value[s][part] # None}

Meddle ==
    /\ meddles < MaxMeddles
    /\ meddles' = meddles + 1
    /\ \/ /\ \E s \in Objects, r \in Requests :
                \/ s \in Have("plan") /\ value' = [value EXCEPT ![s].plan = r]
                \/ s \in Have("statistic") /\ value' = [value EXCEPT ![s].statistic = r.statistic]
                \/ s \in Have("null") /\ value' = [value EXCEPT ![s].null = r.null]
          /\ UNCHANGED <<slots, box, world>>
       \/ /\ \E s \in Objects :
                /\ Alive(s) /\ slots[s] # None
                /\ \/ \E p \in Have("plan") : slots' = [slots EXCEPT ![s].plan = p]
                   \/ \E b \in Objects : box[b] # None /\ slots' = [slots EXCEPT ![s].adapters = b]
          /\ UNCHANGED <<value, box, world>>
       \/ /\ \E b \in Objects :
                /\ box[b] # None
                /\ \/ \E x \in Have("statistic") : box' = [box EXCEPT ![b].statistic = x]
                   \/ \E x \in Have("null") : box' = [box EXCEPT ![b].null = x]
          /\ UNCHANGED <<value, slots, world>>
       \/ /\ \E part \in DOMAIN world : world' = [world EXCEPT ![part] = 1 - @]
          /\ UNCHANGED <<value, slots, box>>
    /\ UNCHANGED <<lives, records, call, gate, owned>>

Finished ==
    /\ \A c \in Resolvers : call[c].phase \in {"start", "returned", "raised"}
    /\ UNCHANGED vars

Next ==
    \/ \E c \in Resolvers : \/ Build(c) \/ ReadStatistic(c) \/ Construct(c) \/ PostInit(c)
                            \/ Capture(c) \/ Register(c)
    \/ \E s \in Objects : CheckPure(s) \/ EnterPublic(s) \/ Drop(s) \/ Revive(s) \/ Copy(s)
    \/ PublicReadStatistic \/ PublicReadNull
    \/ RunCallback
    \/ Meddle
    \/ Finished

Spec == Init /\ [][Next]_vars

-----------------------------------------------------------------------------
\* Properties

\* Every resolution the resolver returned has its record under its id for as long as the
\* weak reference lives, whatever callbacks of earlier owners of the id run late; and a
\* record of a dead resolution stays no longer than its callback is due (resolve_plan_v2,
\* discard_identity_record).
RecordsFollowTheirResolutions ==
    /\ \A s \in Objects :
        weak[s] = "live" => Alive(s) /\ records[address[s]] # None /\ records[address[s]].reference = s
    /\ \A a \in Addresses :
        records[a] # None =>
            LET s == records[a].reference
            IN  \/ weak[s] = "live" /\ address[s] = a
                \/ [object |-> s, id |-> a] \in pending

\* A gate lets through what the resolver returned and nothing else: the pure gates only in
\* the very state it was returned in, down to the objects and the getters, the public gate
\* with the same contents, although the getters it called may have changed anything.
AcceptedIsWhatWasResolved ==
    [][gate.pc # "owned" /\ gate'.pc = "owned" =>
        LET s == gate'.object
        IN  /\ owned[s] # None
            /\ EntriesAreCanonical
            /\ IF gate'.kind = "public"
               THEN Content(View(s)) = Content(owned[s])
               ELSE View(s) = owned[s]]_gate

\* When nobody meddles, no resolve fails and no gate refuses a returned resolution that is
\* still alive, in any interleaving with other resolves and the deaths of other objects.
HonestResolutionIsOwned ==
    [][meddles = 0 =>
        /\ \A c \in Resolvers : call'[c].phase # "raised"
        /\ gate.pc # "refused" /\ gate'.pc = "refused" =>
              owned[gate'.object] = None \/ weak[gate'.object] # "live"]_<<call, gate>>
=============================================================================
