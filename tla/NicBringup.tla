----------------------------- MODULE NicBringup -----------------------------
(***************************************************************************)
(* nic_bringup.py: bring the links up, give each bridge its bus numbers,   *)
(* walk the buses again, and enable the first network device found.  The   *)
(* links train and drop on their own while the host reads; a config access *)
(* is answered, faults (the guard then returns a sentinel), is lost or     *)
(* stalls m1n1.                                                            *)
(***************************************************************************)
EXTENDS Naturals, Sequences, SequencesExt, FiniteSets

CONSTANTS
    ActivePorts,  \* the ports whose pci-bridge exists
    Classes,      \* what may sit behind a port: "net", "other", "none"
    MaxTroubles   \* bound: accesses that go wrong and links that drop

ASSUME NicAssumption ==
    /\ ActivePorts \subseteq 0 .. 2 /\ ActivePorts # {}
    /\ Classes \subseteq {"net", "other", "none"} /\ MaxTroubles \in Nat

NicPort == CHOOSE p \in ActivePorts : \A q \in ActivePorts : q <= p

IfActive(p) == IF p \in ActivePorts THEN <<p>> ELSE <<>>
AllPorts == IfActive(0) \o IfActive(1) \o IfActive(2)

\* The sentinel read as a byte: no bridge's bus, and no bridge's header type.
SentinelBus == 21
Widest == 255

\* The sections of main(); most are behind a liveness_gate and in a guarded().
Phases == <<"power", "watch", "busy", "retry", "poll", "kick", "repoll", "root",
            "program", "walk", "descend", "enable", "summary">>

VARIABLES
    phase,     \* the section of main(), or "escaped"
    inside,    \* its gate is passed and its guard is on
    todo,      \* addresses still to be probed, bridges still to be programmed
    field,     \* what is read or written next of the first of them
    info,      \* the record probe_device is filling
    bridges,   \* the bridges the first walk found
    devices,   \* the devices the second walk found
    nic,       \* the chosen device, at most one
    up,        \* what the last poll for LINKSTS.UP returned
    classes,   \* the endpoint behind each port
    link,      \* ports whose link is up
    sec, sub,  \* the bridges' bus number registers
    master,    \* endpoints with MEM and BUSMASTER set
    alive,     \* m1n1 answers
    troubles   \* what went wrong so far

walk == <<todo, field, info>>
found == <<bridges, devices, nic, up>>
registers == <<sec, sub, master>>
hardware == <<classes, link, registers, alive, troubles>>
vars == <<phase, inside, walk, found, hardware>>

Nobody == <<"nobody", 0>>
Sentinel == <<"sentinel", 0>>
Devices == {"bridge", "endpoint"} \X ActivePorts
Buses == {0, SentinelBus, Widest} \cup {p + 1 : p \in ActivePorts}

\* from: the devices that supplied a field (history).
Infos == [at : Buses \X (0 .. 2), class : {"net", "other", "bridge", "?"},
          header : {0, 1}, secondary : Buses, from : SUBSET Devices]
NoInfo(at) == [at |-> at, class |-> "?", header |-> 0, secondary |-> 0, from |-> {}]

TypeOK ==
    /\ phase \in ToSet(Phases) \cup {"escaped"} /\ inside \in BOOLEAN
    /\ todo \in Seq(Buses \X (0 .. 2)) /\ bridges \in Seq(Infos) /\ devices \in Seq(Infos)
    /\ field \in {"vid", "class", "header", "bus", "cmd", "sec", "sub", "bar"}
    /\ info \in Infos /\ nic \subseteq Infos /\ Cardinality(nic) <= 1 /\ up \in BOOLEAN
    /\ classes \in [ActivePorts -> Classes] /\ link \subseteq ActivePorts
    /\ sec \in [ActivePorts -> Buses] /\ sub \in [ActivePorts -> Buses]
    /\ master \subseteq ActivePorts
    /\ alive \in BOOLEAN /\ troubles \in 0 .. MaxTroubles

\* --no-bringup starts after an earlier run, whose bus numbers may still stand.
Init ==
    /\ phase \in {"power", "root"} /\ inside = FALSE
    /\ todo = <<>> /\ field = "vid" /\ info = NoInfo(<<0, 0>>)
    /\ bridges = <<>> /\ devices = <<>> /\ nic = {} /\ up = FALSE
    /\ classes \in [ActivePorts -> Classes]
    /\ \E old \in IF phase = "power" THEN {{}} ELSE SUBSET ActivePorts :
           /\ link = old
           /\ sec = [p \in ActivePorts |-> IF p \in old THEN p + 1 ELSE 0]
           /\ sub = [p \in ActivePorts |-> IF p \in old THEN Widest ELSE 0]
    /\ master = {} /\ alive = TRUE /\ troubles = 0

-----------------------------------------------------------------------------
(* Config space.                                                           *)

\* The bridges whose window holds the bus, and what answers behind one.
Forwarding(bus) == {p \in ActivePorts : sec[p] # 0 /\ sec[p] <= bus /\ bus <= sub[p]}
Behind(p, at) ==
    IF sec[p] = at[1] /\ at[2] = 0 /\ p \in link /\ classes[p] # "none"
    THEN <<"endpoint", p>> ELSE Nobody

\* Several bridges may claim one bus; nobody knows which of them answers.
Answering(at) ==
    IF at[1] = 0 THEN {IF at[2] \in ActivePorts THEN <<"bridge", at[2]>> ELSE Nobody}
    ELSE IF Forwarding(at[1]) = {} THEN {Nobody}
    ELSE {Behind(p, at) : p \in Forwarding(at[1])}

Outcomes ==
    IF ~alive THEN {"lost"}
    ELSE {"ok"} \cup IF troubles < MaxTroubles THEN {"fault", "lost", "stall"} ELSE {}

Raised(o) == o \in {"lost", "stall"}

\* How an access leaves m1n1.
Ends(o) ==
    /\ alive' = (alive /\ o # "stall")
    /\ troubles' = troubles + (IF alive /\ o # "ok" THEN 1 ELSE 0)

\* What a read returns, when it returns.
Returns(at, o) == IF o = "fault" THEN {Sentinel} ELSE Answering(at)

\* An access that is not looked at beyond its raising.
Access(o) == Ends(o) /\ UNCHANGED <<classes, link, registers>>

-----------------------------------------------------------------------------
(* The sections of main().                                                 *)

After(p) == Phases[1 + CHOOSE n \in DOMAIN Phases : Phases[n] = p]
In(p) == phase = p /\ inside
Leave(next) == phase' = next /\ inside' = FALSE

Gated == phase \in {"watch", "poll", "kick", "root", "program", "walk", "enable"}
Ungated == phase \in {"retry", "repoll"}

\* "bridges and ...", "nic is not None and ...", "not up and ...".
Wanted ==
    /\ phase = "kick" => ~up
    /\ phase = "program" => bridges # <<>>
    /\ phase = "enable" => nic # {}

\* Mutant of Skip: main() waits at a gate for m1n1 to come back.
SkipIfAlive ==
    /\ Gated /\ ~inside /\ alive /\ ~Wanted
    /\ Leave(IF phase = "kick" THEN "root" ELSE After(phase))
    /\ UNCHANGED <<walk, found, hardware>>

\* liveness_gate found m1n1 dead, or there is nothing to do.
Skip ==
    /\ Gated /\ ~inside /\ (~alive \/ ~Wanted)
    /\ Leave(IF phase \in {"poll", "kick"} THEN "root"
             ELSE IF phase = "walk" THEN "enable" ELSE After(phase))
    /\ UNCHANGED <<walk, found, hardware>>

Starts == ~inside /\ alive /\ (Gated \/ Ungated) /\ Wanted

\* The work a section begins with.
Enter ==
    /\ Starts /\ inside' = TRUE
    /\ todo' = CASE phase \in {"root", "walk"} -> [n \in DOMAIN AllPorts |-> <<0, AllPorts[n]>>]
                 [] phase = "program" -> [n \in DOMAIN bridges |-> bridges[n].at]
                 [] phase = "enable" -> <<(CHOOSE n \in nic : TRUE).at>>
                 [] OTHER -> <<>>
    /\ field' = IF phase \in {"program", "enable"} THEN "cmd" ELSE "vid"
    /\ UNCHANGED <<phase, info, found, hardware>>

\* set_exc_guard raises at the start of a section, outside every try_; where
\* no gate precedes the section, m1n1 may be dead by then.
EntryRaises ==
    /\ \/ Starts /\ troubles < MaxTroubles /\ troubles' = troubles + 1 /\ alive' \in BOOLEAN
       \/ ~inside /\ Ungated /\ ~alive /\ UNCHANGED <<troubles, alive>>
    /\ Leave("escaped")
    /\ UNCHANGED <<walk, found, classes, link, registers>>

\* SMC, pins and p.pcie_init, each in a try_: the links begin to train.
PowerUp ==
    /\ phase = "power" /\ Leave("watch")
    /\ \E o \in Outcomes : Ends(o)
    /\ link' \in SUBSET ActivePorts
    /\ UNCHANGED <<walk, found, classes, registers>>

\* watch_linksts, and the poll after the kick: they wait and report.
Watch ==
    /\ inside /\ phase \in {"watch", "retry", "repoll"} /\ Leave(After(phase))
    /\ \E o \in Outcomes : Access(o)
    /\ UNCHANGED <<walk, found>>

\* _nic_busy_clear, unguarded, and when it is not clear the NIC is reset once
\* more, which takes its link down.
BusyCheck ==
    /\ phase = "busy"
    /\ \E o \in Outcomes :
           /\ Ends(IF o = "fault" THEN "stall" ELSE o)
           /\ \/ o = "ok" /\ Leave("poll") /\ UNCHANGED link
              \/ ~alive' /\ Leave("poll") /\ UNCHANGED link
              \/ alive' /\ Leave("retry") /\ link' = link \ {NicPort}
    /\ UNCHANGED <<walk, found, classes, registers>>

\* poll_linksts_up, its last read: the sentinel has bit 0 set, which is UP.
Poll ==
    /\ In("poll") /\ Leave("kick")
    /\ \E o \in Outcomes :
           /\ Access(o)
           /\ up' = (o = "fault" \/ (o = "ok" /\ NicPort \in link))
    /\ UNCHANGED <<walk, bridges, devices, nic>>

\* ltssm_kick: four writes, each in a try of its own; the link trains anew.
Kick ==
    /\ In("kick") /\ Leave("repoll")
    /\ \E o \in Outcomes : Ends(o)
    /\ link' = link \ {NicPort}
    /\ UNCHANGED <<walk, found, classes, registers>>

-----------------------------------------------------------------------------
(* probe_device, a config read at a time.                                  *)

Walking == In("root") \/ In("walk") \/ In("descend")
Probing == Walking /\ todo # <<>>
At == Head(todo)
Reading(f) == Probing /\ field = f
NextDevice == todo' = Tail(todo) /\ field' = "vid"
Supplied(who) == {who} \cap Devices

\* Vacant, or the read raised: there is no such device.
ProbeVid ==
    /\ Reading("vid")
    /\ \E o \in Outcomes :
           /\ Access(o)
           /\ \/ Raised(o) /\ NextDevice /\ UNCHANGED info
              \/ /\ ~Raised(o)
                 /\ \E who \in Returns(At, o) :
                      IF who = Nobody THEN NextDevice /\ UNCHANGED info
                      ELSE /\ info' = [NoInfo(At) EXCEPT !.from = Supplied(who)]
                           /\ field' = "class" /\ UNCHANGED todo
    /\ UNCHANGED <<phase, inside, found>>

ClassOf(who) ==
    CASE who[1] = "bridge" -> "bridge"
      [] who[1] = "endpoint" -> classes[who[2]]
      [] OTHER -> "other"

ProbeClass ==
    /\ Reading("class")
    /\ \E o \in Outcomes :
           /\ Access(o)
           /\ IF Raised(o) THEN UNCHANGED info
              ELSE \E who \in Returns(At, o) :
                     info' = [info EXCEPT !.class = ClassOf(who), !.from = @ \cup Supplied(who)]
    /\ field' = "header"
    /\ UNCHANGED <<phase, inside, todo, found>>

\* The record is complete; a walk keeps it, the first one only when a bridge.
Record(rec) ==
    /\ bridges' = IF phase = "root" /\ rec.header = 1 THEN Append(bridges, rec) ELSE bridges
    /\ devices' = IF phase # "root" THEN Append(devices, rec) ELSE devices
    /\ UNCHANGED <<nic, up>>

ProbeHeader ==
    /\ Reading("header")
    /\ \E o \in Outcomes :
           /\ Access(o)
           /\ \E who \in IF Raised(o) THEN {Nobody} ELSE Returns(At, o) :
                LET rec == [info EXCEPT !.header = IF who[1] = "bridge" THEN 1 ELSE 0,
                                        !.from = @ \cup Supplied(who)]
                IN  /\ info' = rec
                    /\ IF rec.header = 1
                       THEN field' = "bus" /\ UNCHANGED <<todo, found>>
                       ELSE NextDevice /\ Record(rec)
    /\ UNCHANGED <<phase, inside>>

ProbeBus ==
    /\ Reading("bus")
    /\ \E o \in Outcomes :
           /\ Access(o)
           /\ LET bus == CASE Raised(o) -> 0
                           [] o = "fault" -> SentinelBus
                           [] OTHER -> sec[At[2]]
                  rec == [info EXCEPT !.secondary = bus]
              IN  info' = rec /\ Record(rec)
    /\ NextDevice
    /\ UNCHANGED <<phase, inside>>

\* Mutant of Below: a bridge without a bus number is walked too.
BelowEach(roots, n) ==
    IF n \in DOMAIN roots
    THEN <<<<roots[n].secondary, 0>>, <<roots[n].secondary, 1>>>> ELSE <<>>

\* Devices 0 and 1 of the bus the n-th root device names, if it names one.
Below(roots, n) ==
    IF n \in DOMAIN roots /\ roots[n].secondary # 0
    THEN <<<<roots[n].secondary, 0>>, <<roots[n].secondary, 1>>>> ELSE <<>>

\* ecam_walk's second half; there is one root device a port.
Downstream(roots) == Below(roots, 1) \o Below(roots, 2) \o Below(roots, 3)

\* The first device of class 0x02, if there is one.
FirstNet ==
    {devices[n] : n \in {k \in DOMAIN devices :
        /\ devices[k].class = "net"
        /\ \A m \in DOMAIN devices : m < k => devices[m].class # "net"}}

\* All of it is probed: ecam_walk goes down, main() picks the first class 0x02.
Walked ==
    /\ Walking /\ todo = <<>>
    /\ IF phase = "walk"
       THEN phase' = "descend" /\ todo' = Downstream(devices) /\ UNCHANGED inside
       ELSE Leave(After(phase)) /\ UNCHANGED todo
    /\ nic' = IF phase = "descend" THEN FirstNet ELSE {}
    /\ UNCHANGED <<field, info, bridges, devices, up, hardware>>

-----------------------------------------------------------------------------
(* program_bridge_bus_numbers and enable_nic.                              *)

\* A write is skipped when it faults; a lost one may have been made.
Made(o) == CASE o = "ok" -> {TRUE} [] o = "lost" -> (IF alive THEN BOOLEAN ELSE {FALSE})
             [] OTHER -> {FALSE}

Programming(f) == In("program") /\ todo # <<>> /\ field = f
NextBridge == todo' = Tail(todo) /\ field' = "cmd"

\* The command register; when it raises the bridge is left alone.
ProgramCmd ==
    /\ Programming("cmd")
    /\ \E o \in Outcomes :
           /\ Access(o)
           /\ IF Raised(o) THEN NextBridge ELSE field' = "sec" /\ UNCHANGED todo
    /\ UNCHANGED <<phase, inside, info, found>>

\* Mutants of SecondaryOf: one bus for all, and every other bus.
OneSecondary(p) == 1
EvenSecondary(p) == 2 * p + 2

SecondaryOf(p) == p + 1

\* Secondary, then subordinate, in one try with their read-backs.
ProgramSec ==
    /\ Programming("sec")
    /\ \E o \in Outcomes : \E made \in Made(o) :
           /\ Ends(o)
           /\ sec' = IF made THEN [sec EXCEPT ![At[2]] = SecondaryOf(At[2])] ELSE sec
           /\ IF Raised(o) THEN NextBridge ELSE field' = "sub" /\ UNCHANGED todo
    /\ UNCHANGED <<phase, inside, info, found, classes, link, sub, master>>

ProgramSub ==
    /\ Programming("sub") /\ NextBridge
    /\ \E o \in Outcomes : \E made \in Made(o) :
           Ends(o) /\ sub' = IF made THEN [sub EXCEPT ![At[2]] = Widest] ELSE sub
    /\ UNCHANGED <<phase, inside, info, found, classes, link, sec, master>>

Programmed ==
    /\ In("program") /\ todo = <<>> /\ Leave("walk")
    /\ UNCHANGED <<walk, found, hardware>>

\* MEM and BUSMASTER for whatever answers at the NIC's address now.  It may have
\* been the read before the write that faulted: the sentinel is then or-ed in.
EnableCmd ==
    /\ In("enable") /\ field = "cmd"
    /\ \E o \in Outcomes : \E made \in (IF o = "fault" THEN BOOLEAN ELSE Made(o)) : \E who \in Answering(At) :
           /\ Ends(o)
           /\ master' = master \cup {p \in ActivePorts : made /\ who = <<"endpoint", p>>}
           /\ IF Raised(o) THEN Leave("summary") /\ UNCHANGED field
              ELSE field' = "bar" /\ UNCHANGED <<phase, inside>>
    /\ UNCHANGED <<todo, info, found, classes, link, sec, sub>>

\* BAR0, and the word it points to.
EnableBar ==
    /\ In("enable") /\ field = "bar" /\ Leave("summary")
    /\ \E o \in Outcomes : Access(o)
    /\ UNCHANGED <<walk, found>>

-----------------------------------------------------------------------------
(* The links, and the whole.                                               *)

Host ==
    \/ Skip \/ Enter \/ EntryRaises \/ PowerUp \/ Watch \/ BusyCheck \/ Poll \/ Kick
    \/ ProbeVid \/ ProbeClass \/ ProbeHeader \/ ProbeBus \/ Walked
    \/ ProgramCmd \/ ProgramSec \/ ProgramSub \/ Programmed \/ EnableCmd \/ EnableBar

LinkTrains(p) ==
    /\ phase \notin {"power", "summary", "escaped"} /\ p \notin link
    /\ link' = link \cup {p}
    /\ UNCHANGED <<phase, inside, walk, found, classes, registers, alive, troubles>>

LinkDrops(p) ==
    /\ p \in link /\ troubles < MaxTroubles /\ phase \notin {"summary", "escaped"}
    /\ link' = link \ {p} /\ troubles' = troubles + 1
    /\ UNCHANGED <<phase, inside, walk, found, classes, registers, alive>>

Next == Host \/ \E p \in ActivePorts : LinkTrains(p) \/ LinkDrops(p)

Spec == Init /\ [][Next]_vars /\ WF_vars(Host)

-----------------------------------------------------------------------------
(* Properties.                                                             *)

\* MEM and BUSMASTER only ever reach a network device, and one at most: what
\* answers at the chosen address is what the walk classified there.
MasterIsNic ==
    /\ \A p \in master : classes[p] = "net"
    /\ Cardinality(master) <= 1

\* All the fields of a record come from one device, however the links and the
\* bridges' windows change while it is read.
NoChimera ==
    \A rec \in ToSet(devices) \cup ToSet(bridges) \cup {info} : Cardinality(rec.from) <= 1

\* "Reading an inactive port's ECAM range faults the fabric": no walk touches
\* the root function of one, and a walk descends to a bus that some bridge has as
\* its secondary number - or, after a read of that number which faulted under the
\* guard, to the bus the sentinel spells (0x15), which no bridge was given.
OnlyActiveProbed ==
    Walking => \A at \in ToSet(todo) :
                  IF at[1] = 0 THEN at[2] \in ActivePorts
                  ELSE at[1] = SentinelBus \/ \E p \in ActivePorts : sec[p] = at[1]

\* Every boot comes to its summary, or out of main().
Terminates == <>(phase \in {"summary", "escaped"})

\* "Milestone M3.5: a real VID:DID class=02.xx.xx for a device behind
\* pci-bridge2": the device of a PASS is the one behind the NIC's port.
PassIsMilestone ==
    phase = "summary" => \A n \in nic : n.from \subseteq {<<"endpoint", NicPort>>}
=============================================================================
