--------------------------- MODULE NicBringupProofs ---------------------------
(***************************************************************************)
(* Theorems about NicBringup, for every set of active ports, whatever sits *)
(* behind them, and any number of faults and links that come and go.       *)
(*                                                                         *)
(* The argument: each bridge is given a bus of its own, so an address can  *)
(* only ever be answered by one device; the walks read an address to the   *)
(* end before they take the next, so a record holds what that device said. *)
(***************************************************************************)
EXTENDS NicBringup, FiniteSetTheorems, SequenceTheorems, TLAPS

\* The one device an address can reach.
Sole(at) == IF at[1] = 0 THEN <<"bridge", at[2]>> ELSE <<"endpoint", at[1] - 1>>

\* A record says what its one device said; "net" only a network device says.
Honest(rec) ==
    /\ rec.from \subseteq {Sole(rec.at)}
    /\ rec.class = "net" => /\ rec.at[1] # 0 /\ rec.at[1] - 1 \in ActivePorts
                            /\ classes[rec.at[1] - 1] = "net"

\* A bridge has no bus number or one of its own.
OwnBuses == \A p \in ActivePorts : sec[p] \in {0, p + 1}

\* A bus that was read from a bridge.
Named(bus) == bus = SentinelBus \/ \E p \in ActivePorts : sec[p] = bus

\* What is still to be walked: active root functions, then named buses.
OnPath ==
    Walking => \A n \in DOMAIN todo :
                  IF todo[n][1] = 0 THEN todo[n][2] \in ActivePorts ELSE Named(todo[n][1])

\* A probe reads one address to the end, and a bus number from bridges alone.
AtHand ==
    Walking /\ field # "vid" =>
        /\ todo # <<>> /\ info.at = Head(todo)
        /\ field # "bus" => info.secondary = 0
        /\ field = "bus" => info.at[1] = 0

\* The second walk begins with no device, and its bridges still say what they said.
DevicesSay ==
    /\ phase \notin {"walk", "descend", "enable", "summary", "escaped"} => devices = <<>>
    /\ phase \in {"walk", "descend"} =>
          \A n \in DOMAIN devices : devices[n].secondary = 0 \/ Named(devices[n].secondary)

Recorded ==
    /\ Honest(info) /\ \A rec \in nic : Honest(rec) /\ rec.class = "net"
    /\ \A r1, r2 \in nic : r1 = r2
    /\ \A n \in DOMAIN bridges : Honest(bridges[n])
    /\ \A n \in DOMAIN devices : Honest(devices[n])

\* The command register that is written is the chosen device's.
EnablesNic ==
    /\ phase \notin {"enable", "summary", "escaped"} => master = {}
    /\ In("enable") => \E rec \in nic : todo = <<rec.at>>
    /\ \A p \in master : \E rec \in nic : rec.at[1] = p + 1

NicInv ==
    /\ TypeOK /\ OwnBuses /\ OnPath /\ AtHand /\ DevicesSay /\ Recorded /\ EnablesNic

-----------------------------------------------------------------------------
(* The sections.                                                           *)

LEMMA PhasesDiffer ==
  ASSUME NEW m \in 1 .. 13, NEW n \in 1 .. 13, Phases[m] = Phases[n]
  PROVE  m = n
<1>1. m \in {1, 2, 3, 4, 5, 6, 7, 8, 9, 10, 11, 12, 13}
  OBVIOUS
<1>2. n \in {1, 2, 3, 4, 5, 6, 7, 8, 9, 10, 11, 12, 13}
  OBVIOUS
<1> QED
  BY <1>1, <1>2 DEF Phases

LEMMA AfterNth ==
  ASSUME NEW n \in 1 .. 12
  PROVE  After(Phases[n]) = Phases[n + 1]
<1>1. DOMAIN Phases = 1 .. 13
  BY DEF Phases
<1> DEFINE c == CHOOSE m \in DOMAIN Phases : Phases[m] = Phases[n]
<1>2. c \in DOMAIN Phases /\ Phases[c] = Phases[n]
  BY <1>1
<1> HIDE DEF c
<1>3. c = n
  BY <1>1, <1>2, PhasesDiffer
<1>4. After(Phases[n]) = Phases[1 + c]
  BY DEF After, c
<1> QED
  BY <1>3, <1>4

LEMMA AfterIs ==
  /\ After("watch") = "busy" /\ After("busy") = "retry" /\ After("retry") = "poll"
  /\ After("poll") = "kick" /\ After("kick") = "repoll" /\ After("repoll") = "root"
  /\ After("root") = "program" /\ After("program") = "walk" /\ After("walk") = "descend"
  /\ After("descend") = "enable" /\ After("enable") = "summary"
<1>1. /\ Phases[2] = "watch" /\ Phases[3] = "busy" /\ Phases[4] = "retry" /\ Phases[5] = "poll"
      /\ Phases[6] = "kick" /\ Phases[7] = "repoll" /\ Phases[8] = "root"
      /\ Phases[9] = "program" /\ Phases[10] = "walk" /\ Phases[11] = "descend"
      /\ Phases[12] = "enable" /\ Phases[13] = "summary"
  BY DEF Phases
<1> QED
  BY <1>1, AfterNth

LEMMA PhasesAre ==
  ToSet(Phases) = {"power", "watch", "busy", "retry", "poll", "kick", "repoll", "root",
                   "program", "walk", "descend", "enable", "summary"}
  BY DEF ToSet, Phases

-----------------------------------------------------------------------------
(* Addresses.                                                              *)

LEMMA Constants ==
  /\ ActivePorts \subseteq {0, 1, 2} /\ MaxTroubles \in Nat
  /\ \A p \in ActivePorts : p + 1 \in Buses /\ p + 1 # 0
  /\ Buses \subseteq Nat /\ 0 \in Buses /\ SentinelBus \in Buses /\ Widest \in Buses
  BY NicAssumption DEF Buses, SentinelBus, Widest

LEMMA AllPortsTyped == AllPorts \in Seq(ActivePorts)
<1>1. IfActive(0) \in Seq(ActivePorts) /\ IfActive(1) \in Seq(ActivePorts)
  BY DEF IfActive
<1>2. IfActive(2) \in Seq(ActivePorts)
  BY DEF IfActive
<1> QED
  BY <1>1, <1>2 DEF AllPorts

\* Who can answer at an address, once each bridge has a bus of its own.
LEMMA AnswersSole ==
  ASSUME TypeOK, OwnBuses, NEW at \in Buses \X (0 .. 2), NEW who \in Answering(at)
  PROVE  \/ who = Nobody
         \/ /\ who = Sole(at) /\ who \in Devices
            /\ at[1] = 0 => who[1] = "bridge" /\ at[2] \in ActivePorts
            /\ at[1] # 0 => /\ who[1] = "endpoint" /\ at[1] - 1 \in ActivePorts
                            /\ classes[at[1] - 1] # "none"
<1>1. CASE at[1] = 0
  <2>1. who = IF at[2] \in ActivePorts THEN <<"bridge", at[2]>> ELSE Nobody
    BY <1>1 DEF Answering
  <2> QED
    BY <1>1, <2>1 DEF Sole, Devices
<1>2. CASE at[1] # 0
  <2>1. who = Nobody \/ \E p \in Forwarding(at[1]) : who = Behind(p, at)
    BY <1>2 DEF Answering
  <2>2. ASSUME NEW p \in ActivePorts, who = Behind(p, at), who # Nobody
        PROVE  /\ who = <<"endpoint", p>> /\ at[1] = p + 1 /\ who \in Devices
               /\ classes[p] # "none"
    BY <1>2, <2>2 DEF Behind, OwnBuses, Devices
  <2>3. Forwarding(at[1]) \subseteq ActivePorts
    BY DEF Forwarding
  <2>4. SUFFICES ASSUME who # Nobody
                 PROVE  /\ who = Sole(at) /\ who \in Devices
                        /\ who[1] = "endpoint" /\ at[1] - 1 \in ActivePorts
                        /\ classes[at[1] - 1] # "none"
    BY <1>2
  <2>5. PICK p \in ActivePorts : /\ who = <<"endpoint", p>> /\ at[1] = p + 1
                                 /\ who \in Devices /\ classes[p] # "none"
    BY <2>1, <2>2, <2>3, <2>4
  <2>6. at[1] - 1 = p
    BY <2>5, Constants
  <2> QED
    BY <1>2, <2>5, <2>6 DEF Sole
<1> QED
  BY <1>1, <1>2

-----------------------------------------------------------------------------
(* The steps that leave the walks and the registers alone.                 *)

\* Before the second walk, during it, and after it.
Before == {"power", "watch", "busy", "retry", "poll", "kick", "repoll", "root", "program"}
During == {"walk", "descend"}
Afterwards == {"enable", "summary", "escaped"}

Quiet ==
    /\ UNCHANGED <<todo, field, info, bridges, devices, nic, classes, sec, sub, master>>
    /\ up' \in BOOLEAN /\ link' \subseteq ActivePorts
    /\ alive' \in BOOLEAN /\ troubles' \in 0 .. MaxTroubles
    /\ \/ UNCHANGED <<phase, inside>>
       \/ ~inside' /\ inside' \in BOOLEAN /\ phase' \in Before \cup During \cup Afterwards
    /\ phase \in During => phase' \notin Before
    /\ phase \in Afterwards => phase' \in Afterwards

LEMMA EndsTyped ==
  ASSUME TypeOK, NEW o \in Outcomes, NEW r, o = "fault" \/ r = o, Ends(r)
  PROVE  alive' \in BOOLEAN /\ troubles' \in 0 .. MaxTroubles
<1>1. alive \in BOOLEAN /\ troubles \in 0 .. MaxTroubles /\ MaxTroubles \in Nat
  BY Constants DEF TypeOK
<1>2. alive' \in BOOLEAN
  BY DEF Ends
<1>3. CASE o = "ok" \/ ~alive
  <2>1. troubles' = troubles
    BY <1>1, <1>3 DEF Ends, Outcomes
  <2> QED
    BY <1>1, <1>2, <2>1
<1>4. CASE o # "ok" /\ alive
  <2>1. troubles < MaxTroubles
    BY <1>4 DEF Outcomes
  <2>2. troubles' \in {troubles, troubles + 1}
    BY <1>1 DEF Ends
  <2> QED
    BY <1>1, <1>2, <2>1, <2>2
<1> QED
  BY <1>3, <1>4

LEMMA OutcomeEnds ==
  ASSUME TypeOK, NEW o \in Outcomes, Ends(o)
  PROVE  alive' \in BOOLEAN /\ troubles' \in 0 .. MaxTroubles
  BY EndsTyped DEF Outcomes

LEMMA PhaseTyped ==
  ASSUME TypeOK
  PROVE  phase \in Before \cup During \cup Afterwards
  BY PhasesAre DEF TypeOK, Before, During, Afterwards

LEMMA SkipQuiet == ASSUME TypeOK, Skip PROVE Quiet
<1>1. phase \in {"watch", "poll", "kick", "root", "program", "walk", "enable"}
  BY DEF Skip, Gated
<1>2. inside' = FALSE
  BY DEF Skip, Leave
<1>3. phase' = IF phase \in {"poll", "kick"} THEN "root"
               ELSE IF phase = "walk" THEN "enable" ELSE After(phase)
  BY DEF Skip, Leave
<1>4. /\ phase' \in Before \cup During \cup Afterwards
      /\ phase \in During => phase' \notin Before
      /\ phase \in Afterwards => phase' \in Afterwards
  BY <1>1, <1>3, AfterIs DEF Before, During, Afterwards
<1>5. /\ UNCHANGED <<todo, field, info, bridges, devices, nic, classes, sec, sub, master>>
      /\ UNCHANGED <<up, link, alive, troubles>>
  BY DEF Skip, walk, found, hardware, registers
<1>6. up \in BOOLEAN /\ link \subseteq ActivePorts /\ alive \in BOOLEAN /\ troubles \in 0 .. MaxTroubles
  BY DEF TypeOK
<1> QED
  BY <1>2, <1>4, <1>5, <1>6 DEF Quiet

LEMMA EntryRaisesQuiet == ASSUME TypeOK, EntryRaises PROVE Quiet
<1>1. phase' = "escaped" /\ inside' = FALSE
  BY DEF EntryRaises, Leave
<1>2. /\ UNCHANGED <<todo, field, info, bridges, devices, nic, classes, sec, sub, master>>
      /\ UNCHANGED <<up, link>>
  BY DEF EntryRaises, walk, found, registers
<1>3. /\ up \in BOOLEAN /\ link \subseteq ActivePorts /\ alive \in BOOLEAN
      /\ troubles \in 0 .. MaxTroubles /\ MaxTroubles \in Nat
  BY Constants DEF TypeOK
<1>4. \/ troubles < MaxTroubles /\ troubles' = troubles + 1 /\ alive' \in BOOLEAN
      \/ UNCHANGED <<troubles, alive>>
  BY DEF EntryRaises
<1>5. alive' \in BOOLEAN /\ troubles' \in 0 .. MaxTroubles
  BY <1>3, <1>4
<1> QED
  BY <1>1, <1>2, <1>3, <1>5 DEF Quiet, Before, During, Afterwards

\* What is left of the sections that only wait, poll or kick.
LEMMA WaitingQuiet ==
  ASSUME TypeOK, PowerUp \/ Watch \/ BusyCheck \/ Poll \/ Kick \/ EnableBar
  PROVE  Quiet
<1>1. /\ UNCHANGED <<todo, field, info, bridges, devices, nic, classes, sec, sub, master>>
      /\ up' \in BOOLEAN /\ link' \subseteq ActivePorts
  <2>1. up \in BOOLEAN /\ link \subseteq ActivePorts
    BY DEF TypeOK
  <2> QED
    BY <2>1 DEF PowerUp, Watch, BusyCheck, Poll, Kick, EnableBar, Access, walk, found, registers
<1>2. alive' \in BOOLEAN /\ troubles' \in 0 .. MaxTroubles
  <2>1. CASE BusyCheck
    <3>1. PICK o \in Outcomes : Ends(IF o = "fault" THEN "stall" ELSE o)
      BY <2>1 DEF BusyCheck
    <3> QED
      BY <3>1, EndsTyped
  <2>2. CASE PowerUp \/ Watch \/ Poll \/ Kick \/ EnableBar
    <3>1. \E o \in Outcomes : Ends(o)
      BY <2>2 DEF PowerUp, Watch, Poll, Kick, EnableBar, Access
    <3> QED
      BY <3>1, OutcomeEnds
  <2> QED
    BY <2>1, <2>2
<1>3. /\ inside' = FALSE
      /\ \/ phase \in Before /\ phase' \in Before
         \/ phase = "enable" /\ phase' = "summary"
  BY AfterIs DEF PowerUp, Watch, BusyCheck, Poll, Kick, EnableBar, Leave, In, Before
<1> QED
  BY <1>1, <1>2, <1>3 DEF Quiet, Before, During, Afterwards

LEMMA LinksQuiet ==
  ASSUME TypeOK, NEW p \in ActivePorts, LinkTrains(p) \/ LinkDrops(p) \/ Programmed
  PROVE  Quiet
<1>1. /\ up \in BOOLEAN /\ link \subseteq ActivePorts /\ alive \in BOOLEAN
      /\ troubles \in 0 .. MaxTroubles /\ MaxTroubles \in Nat
  BY Constants DEF TypeOK
<1>2. CASE LinkTrains(p)
  BY <1>1, <1>2 DEF LinkTrains, Quiet, walk, found, registers, Before, During, Afterwards
<1>3. CASE LinkDrops(p)
  BY <1>1, <1>3 DEF LinkDrops, Quiet, walk, found, registers, Before, During, Afterwards
<1>4. CASE Programmed
  BY <1>1, <1>4 DEF Programmed, Leave, In, Quiet, walk, found, hardware, registers,
                    Before, During, Afterwards
<1> QED
  BY <1>2, <1>3, <1>4

\* Such a step keeps all of it.
LEMMA QuietKeeps == ASSUME NicInv, Quiet PROVE NicInv'
<1>1. TypeOK'
  <2>1. phase' \in ToSet(Phases) \cup {"escaped"} /\ inside' \in BOOLEAN
    BY PhasesAre DEF NicInv, TypeOK, Quiet, Before, During, Afterwards
  <2> QED
    BY <2>1 DEF NicInv, TypeOK, Quiet
<1>2. Walking' => Walking
  BY DEF Quiet, Walking, In
<1>3. OwnBuses'
  BY DEF NicInv, Quiet, OwnBuses
<1>4. OnPath' /\ AtHand'
  BY <1>2 DEF NicInv, Quiet, OnPath, AtHand, Named
<1>5. DevicesSay'
  <2>1. phase' \notin During \cup Afterwards => devices' = <<>>
    BY PhaseTyped DEF NicInv, DevicesSay, Quiet, Before, During, Afterwards
  <2>2. ASSUME phase' \in During
        PROVE  \A n \in DOMAIN devices' :
                  devices'[n].secondary = 0 \/ Named(devices[n].secondary)'
    BY <2>2, PhaseTyped DEF NicInv, DevicesSay, Quiet, Before, During, Afterwards, Named
  <2> QED
    BY <2>1, <2>2 DEF DevicesSay, During, Afterwards
<1>6. Recorded'
  BY DEF NicInv, Quiet, Recorded, Honest
<1>7. EnablesNic'
  <2>1. phase' \notin Afterwards => phase \notin Afterwards
    BY DEF Quiet
  <2>2. In("enable")' => In("enable")
    BY DEF Quiet, In
  <2> QED
    BY <2>1, <2>2 DEF NicInv, Quiet, EnablesNic, Afterwards
<1> QED
  BY <1>1, <1>3, <1>4, <1>5, <1>6, <1>7 DEF NicInv

-----------------------------------------------------------------------------
(* Probing.                                                                *)

\* What a read may be told, and by whom.
LEMMA Told ==
  ASSUME TypeOK, OwnBuses, NEW at \in Buses \X (0 .. 2), NEW o, NEW who \in Returns(at, o)
  PROVE  /\ Supplied(who) \subseteq {Sole(at)} /\ Supplied(who) \subseteq Devices
         /\ ClassOf(who) \in {"net", "other", "bridge"}
         /\ ClassOf(who) = "net" => /\ at[1] # 0 /\ at[1] - 1 \in ActivePorts
                                    /\ classes[at[1] - 1] = "net"
         /\ who[1] = "bridge" => at[1] = 0
<1>1. CASE who = Sentinel \/ who = Nobody
  <2>1. who[1] \notin {"bridge", "endpoint"}
    BY <1>1 DEF Sentinel, Nobody
  <2>2. Supplied(who) = {}
    BY <2>1 DEF Supplied, Devices
  <2>3. ClassOf(who) = "other"
    BY <2>1, Zenon DEF ClassOf
  <2> QED
    BY <2>1, <2>2, <2>3
<1>2. CASE who # Sentinel /\ who # Nobody
  <2>1. /\ who = Sole(at) /\ who \in Devices
        /\ at[1] = 0 => who[1] = "bridge" /\ at[2] \in ActivePorts
        /\ at[1] # 0 => /\ who[1] = "endpoint" /\ at[1] - 1 \in ActivePorts
                        /\ classes[at[1] - 1] # "none"
    BY <1>2, AnswersSole DEF Returns
  <2>2. Supplied(who) = {Sole(at)} /\ Supplied(who) \subseteq Devices
    BY <2>1 DEF Supplied
  <2>3. CASE at[1] = 0
    <3>1. ClassOf(who) = "bridge"
      BY <2>1, <2>3, Zenon DEF ClassOf
    <3> QED
      BY <2>2, <2>3, <3>1
  <2>4. CASE at[1] # 0
    <3>1. who[1] = "endpoint" /\ who[2] = at[1] - 1
      BY <2>1, <2>4 DEF Sole
    <3>2. "endpoint" # "bridge"
      OBVIOUS
    <3>3. ClassOf(who) = classes[who[2]]
      BY <3>1, <3>2, Zenon DEF ClassOf
    <3>4. classes[at[1] - 1] \in {"net", "other", "none"}
      BY <2>1, <2>4, NicAssumption DEF TypeOK
    <3> QED
      BY <2>1, <2>2, <2>4, <3>1, <3>3, <3>4
  <2> QED
    BY <2>3, <2>4
<1> QED
  BY <1>1, <1>2

LEMMA AtTyped ==
  ASSUME TypeOK, Probing
  PROVE  /\ At \in Buses \X (0 .. 2) /\ At = todo[1] /\ 1 \in DOMAIN todo
         /\ Tail(todo) \in Seq(Buses \X (0 .. 2))
         /\ \A n \in DOMAIN Tail(todo) : n + 1 \in DOMAIN todo /\ Tail(todo)[n] = todo[n + 1]
<1>1. todo \in Seq(Buses \X (0 .. 2)) /\ todo # <<>>
  BY DEF TypeOK, Probing
<1> QED
  BY <1>1 DEF At

\* Any step of a probe, from what it does to the record.
Probes ==
    /\ Probing
    /\ UNCHANGED <<phase, inside, nic, up, classes, link, sec, sub, master>>
    /\ alive' \in BOOLEAN /\ troubles' \in 0 .. MaxTroubles
    /\ todo' \in {todo, Tail(todo)} /\ field' \in {"vid", "class", "header", "bus"}
    /\ info' \in Infos /\ Honest(info')

LEMMA ProbeKeeps ==
  ASSUME NicInv, Probes, AtHand', DevicesSay', bridges' \in Seq(Infos), devices' \in Seq(Infos),
         \A n \in DOMAIN bridges' : Honest(bridges'[n]),
         \A n \in DOMAIN devices' : Honest(devices'[n])
  PROVE  NicInv'
<1>1. TypeOK'
  <2>1. todo' \in Seq(Buses \X (0 .. 2))
    BY AtTyped DEF NicInv, TypeOK, Probes
  <2> QED
    BY <2>1 DEF NicInv, TypeOK, Probes
<1>2. OwnBuses'
  BY DEF NicInv, Probes, OwnBuses
<1>3. OnPath'
  <2>1. \A n \in DOMAIN todo : IF todo[n][1] = 0 THEN todo[n][2] \in ActivePorts
                                                ELSE Named(todo[n][1])
    BY DEF NicInv, OnPath, Probes, Probing
  <2>2. \A n \in DOMAIN todo' : \E m \in DOMAIN todo : todo'[n] = todo[m]
    BY AtTyped DEF NicInv, Probes
  <2>3. \A b : Named(b) => Named(b)'
    BY DEF Named, Probes
  <2>4. \A n \in DOMAIN todo' : IF todo'[n][1] = 0 THEN todo'[n][2] \in ActivePorts
                                                  ELSE Named(todo[n][1])'
    BY <2>1, <2>2, <2>3
  <2> QED
    BY <2>4 DEF OnPath
<1>4. Recorded'
  <2>1. \A rec : Honest(rec) => Honest(rec)'
    BY DEF Honest, Probes
  <2> QED
    BY <2>1 DEF NicInv, Recorded, Probes, Honest
<1>5. EnablesNic'
  BY DEF NicInv, EnablesNic, Probes, Probing, Walking, In
<1> QED
  BY <1>1, <1>2, <1>3, <1>4, <1>5 DEF NicInv

LEMMA WalkingPhase == ASSUME Walking PROVE phase \in {"root", "walk", "descend"} /\ inside
  BY DEF Walking, In

LEMMA AccessTyped ==
  ASSUME TypeOK, NEW o \in Outcomes, Access(o)
  PROVE  /\ alive' \in BOOLEAN /\ troubles' \in 0 .. MaxTroubles
         /\ UNCHANGED <<classes, link, sec, sub, master>>
  BY OutcomeEnds DEF Access, registers

\* The devices as they are, while the bridges keep their buses.
LEMMA DevicesKept ==
  ASSUME NicInv, UNCHANGED <<phase, bridges, devices, classes, sec>>
  PROVE  /\ DevicesSay' /\ bridges' \in Seq(Infos) /\ devices' \in Seq(Infos)
         /\ \A n \in DOMAIN bridges' : Honest(bridges'[n])
         /\ \A n \in DOMAIN devices' : Honest(devices'[n])
<1>1. DevicesSay'
  BY DEF NicInv, DevicesSay, Named
<1> QED
  BY <1>1 DEF NicInv, TypeOK, Recorded

\* A record that is kept.
LEMMA RecordKept ==
  ASSUME NicInv, Probing, UNCHANGED <<phase, classes, sec>>, NEW rec \in Infos, Honest(rec),
         rec.secondary = 0 \/ Named(rec.secondary), Record(rec)
  PROVE  /\ DevicesSay' /\ bridges' \in Seq(Infos) /\ devices' \in Seq(Infos)
         /\ \A n \in DOMAIN bridges' : Honest(bridges'[n])
         /\ \A n \in DOMAIN devices' : Honest(devices'[n])
         /\ nic' = nic /\ up' = up
<1>1. bridges \in Seq(Infos) /\ devices \in Seq(Infos)
  BY DEF NicInv, TypeOK
<1>2. /\ \A n \in DOMAIN bridges : Honest(bridges[n])
      /\ \A n \in DOMAIN devices : Honest(devices[n])
  BY DEF NicInv, Recorded
<1>3. /\ bridges' \in {bridges, Append(bridges, rec)}
      /\ devices' = IF phase # "root" THEN Append(devices, rec) ELSE devices
      /\ nic' = nic /\ up' = up
  BY DEF Record
<1>4. bridges' \in Seq(Infos) /\ \A n \in DOMAIN bridges' : Honest(bridges'[n])
  BY <1>1, <1>2, <1>3
<1>5. devices' \in Seq(Infos) /\ \A n \in DOMAIN devices' : Honest(devices'[n])
  BY <1>1, <1>2, <1>3
<1>6. DevicesSay'
  <2>1. phase \in {"root", "walk", "descend"}
    BY WalkingPhase DEF Probing
  <2>2. CASE phase = "root"
    BY <1>3, <2>2 DEF NicInv, DevicesSay
  <2>3. CASE phase # "root"
    <3>1. devices' = Append(devices, rec)
      BY <1>3, <2>3
    <3>2. \A n \in DOMAIN devices : devices[n].secondary = 0 \/ Named(devices[n].secondary)
      BY <2>1, <2>3 DEF NicInv, DevicesSay
    <3>3. \A n \in DOMAIN devices' : devices'[n].secondary = 0 \/ Named(devices'[n].secondary)
      BY <1>1, <3>1, <3>2
    <3>4. \A b : Named(b) => Named(b)'
      BY DEF Named
    <3>5. \A n \in DOMAIN devices' : devices'[n].secondary = 0 \/ Named(devices[n].secondary)'
      BY <3>3, <3>4
    <3> QED
      BY <2>1, <2>3, <3>5 DEF DevicesSay
  <2> QED
    BY <2>2, <2>3
<1> QED
  BY <1>3, <1>4, <1>5, <1>6

LEMMA ProbeVidKeeps == ASSUME NicInv, ProbeVid PROVE NicInv'
<1>0. TypeOK /\ OwnBuses /\ Probing /\ field = "vid" /\ Honest(info) /\ info \in Infos
  BY DEF ProbeVid, Reading, NicInv, TypeOK, Recorded
<1>1. /\ UNCHANGED <<phase, inside, bridges, devices, nic, up>>
      /\ \E o \in Outcomes : Access(o)
  BY DEF ProbeVid, found
<1>2. /\ alive' \in BOOLEAN /\ troubles' \in 0 .. MaxTroubles
      /\ UNCHANGED <<classes, link, sec, sub, master>>
  BY <1>0, <1>1, AccessTyped
<1>3. \/ NextDevice /\ info' = info
      \/ \E o \in Outcomes : \E who \in Returns(At, o) :
             /\ info' = [NoInfo(At) EXCEPT !.from = Supplied(who)]
             /\ field' = "class" /\ todo' = todo
  BY DEF ProbeVid
<1>4. CASE NextDevice /\ info' = info
  <2>1. Probes
    BY <1>0, <1>1, <1>2, <1>4 DEF Probes, NextDevice
  <2>2. AtHand'
    BY <1>4 DEF AtHand, NextDevice
  <2> QED
    BY <1>1, <1>2, <2>1, <2>2, DevicesKept, ProbeKeeps
<1>5. CASE ~(NextDevice /\ info' = info)
  <2>1. PICK o \in Outcomes : \E who \in Returns(At, o) :
             /\ info' = [NoInfo(At) EXCEPT !.from = Supplied(who)]
             /\ field' = "class" /\ todo' = todo
    BY <1>3, <1>5
  <2>2. PICK who \in Returns(At, o) :
             /\ info' = [NoInfo(At) EXCEPT !.from = Supplied(who)]
             /\ field' = "class" /\ todo' = todo
    BY <2>1
  <2>3. At \in Buses \X (0 .. 2)
    BY <1>0, AtTyped
  <2>4. Supplied(who) \subseteq {Sole(At)} /\ Supplied(who) \subseteq Devices
    BY <1>0, <2>3, Told
  <2>5. info' = [at |-> At, class |-> "?", header |-> 0, secondary |-> 0, from |-> Supplied(who)]
    BY <2>2 DEF NoInfo
  <2>6. info' \in Infos /\ Honest(info')
    BY <2>3, <2>4, <2>5, Constants DEF Infos, Honest
  <2>7. Probes
    BY <1>0, <1>1, <1>2, <2>2, <2>6 DEF Probes
  <2>8. AtHand'
    BY <1>0, <2>2, <2>5 DEF AtHand, Probing, At
  <2> QED
    BY <1>1, <1>2, <2>7, <2>8, DevicesKept, ProbeKeeps
<1> QED
  BY <1>4, <1>5

LEMMA ProbeClassKeeps == ASSUME NicInv, ProbeClass PROVE NicInv'
<1>0. TypeOK /\ OwnBuses /\ Probing /\ field = "class" /\ Honest(info) /\ info \in Infos
  BY DEF ProbeClass, Reading, NicInv, TypeOK, Recorded
<1>1. /\ UNCHANGED <<phase, inside, todo, bridges, devices, nic, up>> /\ field' = "header"
      /\ \E o \in Outcomes : Access(o)
  BY DEF ProbeClass, found
<1>2. /\ alive' \in BOOLEAN /\ troubles' \in 0 .. MaxTroubles
      /\ UNCHANGED <<classes, link, sec, sub, master>>
  BY <1>0, <1>1, AccessTyped
<1>3. info.at = At /\ info.secondary = 0 /\ todo # <<>>
  BY <1>0 DEF NicInv, AtHand, Probing, At
<1>4. \/ info' = info
      \/ \E o \in Outcomes : \E who \in Returns(At, o) :
             info' = [info EXCEPT !.class = ClassOf(who), !.from = @ \cup Supplied(who)]
  BY DEF ProbeClass
<1>5. info' \in Infos /\ Honest(info') /\ info'.at = At /\ info'.secondary = 0
  <2>1. CASE info' = info
    BY <1>0, <1>3, <2>1
  <2>2. CASE info' # info
    <3>1. PICK o \in Outcomes : \E who \in Returns(At, o) :
             info' = [info EXCEPT !.class = ClassOf(who), !.from = @ \cup Supplied(who)]
      BY <1>4, <2>2
    <3>2. PICK who \in Returns(At, o) :
             info' = [info EXCEPT !.class = ClassOf(who), !.from = @ \cup Supplied(who)]
      BY <3>1
    <3>3. At \in Buses \X (0 .. 2)
      BY <1>0, AtTyped
    <3>4. /\ Supplied(who) \subseteq {Sole(At)} /\ Supplied(who) \subseteq Devices
          /\ ClassOf(who) \in {"net", "other", "bridge"}
          /\ ClassOf(who) = "net" => /\ At[1] # 0 /\ At[1] - 1 \in ActivePorts
                                     /\ classes[At[1] - 1] = "net"
      BY <1>0, <3>3, Told
    <3>5. /\ info'.at = At /\ info'.secondary = 0 /\ info'.class = ClassOf(who)
          /\ info'.from = info.from \cup Supplied(who)
      BY <1>0, <1>3, <3>2 DEF Infos
    <3>6. info' \in Infos
      BY <1>0, <3>2, <3>4 DEF Infos
    <3> QED
      BY <1>0, <1>3, <3>4, <3>5, <3>6 DEF Honest
  <2> QED
    BY <2>1, <2>2
<1>6. Probes
  BY <1>0, <1>1, <1>2, <1>5 DEF Probes
<1>7. AtHand'
  BY <1>1, <1>3, <1>5 DEF AtHand, At
<1> QED
  BY <1>1, <1>2, <1>6, <1>7, DevicesKept, ProbeKeeps

LEMMA ProbeHeaderKeeps == ASSUME NicInv, ProbeHeader PROVE NicInv'
<1>0. TypeOK /\ OwnBuses /\ Probing /\ field = "header" /\ Honest(info) /\ info \in Infos
  BY DEF ProbeHeader, Reading, NicInv, TypeOK, Recorded
<1>1. /\ UNCHANGED <<phase, inside>> /\ \E o \in Outcomes : Access(o)
  BY DEF ProbeHeader
<1>2. /\ alive' \in BOOLEAN /\ troubles' \in 0 .. MaxTroubles
      /\ UNCHANGED <<classes, link, sec, sub, master>>
  BY <1>0, <1>1, AccessTyped
<1>3. info.at = At /\ info.secondary = 0 /\ todo # <<>>
  BY <1>0 DEF NicInv, AtHand, Probing, At
<1> DEFINE rec(who) == [info EXCEPT !.header = IF who[1] = "bridge" THEN 1 ELSE 0,
                                    !.from = @ \cup Supplied(who)]
<1>4. PICK o \in Outcomes :
         \E who \in IF Raised(o) THEN {Nobody} ELSE Returns(At, o) :
             /\ info' = rec(who)
             /\ IF rec(who).header = 1 THEN field' = "bus" /\ UNCHANGED <<todo, found>>
                ELSE NextDevice /\ Record(rec(who))
  BY DEF ProbeHeader
<1>5. PICK who \in IF Raised(o) THEN {Nobody} ELSE Returns(At, o) :
             /\ info' = rec(who)
             /\ IF rec(who).header = 1 THEN field' = "bus" /\ UNCHANGED <<todo, found>>
                ELSE NextDevice /\ Record(rec(who))
  BY <1>4
<1>6. At \in Buses \X (0 .. 2)
  BY <1>0, AtTyped
<1>7. /\ Supplied(who) \subseteq {Sole(At)} /\ Supplied(who) \subseteq Devices
      /\ who[1] = "bridge" => At[1] = 0
  <2>1. CASE who = Nobody
    BY <2>1 DEF Nobody, Supplied, Devices
  <2>2. CASE who \in Returns(At, o)
    BY <1>0, <1>6, <2>2, Told
  <2> QED
    BY <2>1, <2>2
<1>8. /\ rec(who).at = At /\ rec(who).secondary = 0 /\ rec(who).class = info.class
      /\ rec(who).from = info.from \cup Supplied(who)
      /\ rec(who).header = IF who[1] = "bridge" THEN 1 ELSE 0
  BY <1>0, <1>3 DEF Infos
<1>9. rec(who) \in Infos
  BY <1>0, <1>7 DEF Infos
<1>10. Honest(rec(who))
  BY <1>0, <1>3, <1>7, <1>8 DEF Honest
<1> HIDE DEF rec
<1>11. CASE rec(who).header = 1
  <2>1. field' = "bus" /\ UNCHANGED <<todo, bridges, devices, nic, up>>
    BY <1>5, <1>11 DEF found
  <2>2. At[1] = 0
    BY <1>7, <1>8, <1>11
  <2>3. AtHand'
    BY <1>3, <1>5, <1>8, <2>1, <2>2 DEF AtHand, At
  <2>4. Probes
    BY <1>0, <1>1, <1>2, <1>5, <1>9, <1>10, <2>1 DEF Probes
  <2> QED
    BY <1>1, <1>2, <2>1, <2>3, <2>4, DevicesKept, ProbeKeeps
<1>12. CASE rec(who).header # 1
  <2>1. NextDevice /\ Record(rec(who))
    BY <1>5, <1>12
  <2>2. AtHand'
    BY <2>1 DEF AtHand, NextDevice
  <2>3. /\ DevicesSay' /\ bridges' \in Seq(Infos) /\ devices' \in Seq(Infos)
        /\ \A n \in DOMAIN bridges' : Honest(bridges'[n])
        /\ \A n \in DOMAIN devices' : Honest(devices'[n])
        /\ nic' = nic /\ up' = up
    BY <1>0, <1>1, <1>2, <1>8, <1>9, <1>10, <2>1, RecordKept
  <2>4. Probes
    BY <1>0, <1>1, <1>2, <1>5, <1>9, <1>10, <2>1, <2>3 DEF Probes, NextDevice
  <2> QED
    BY <2>2, <2>3, <2>4, ProbeKeeps
<1> QED
  BY <1>11, <1>12

LEMMA ProbeBusKeeps == ASSUME NicInv, ProbeBus PROVE NicInv'
<1>0. TypeOK /\ Probing /\ field = "bus" /\ Honest(info) /\ info \in Infos
  BY DEF ProbeBus, Reading, NicInv, TypeOK, Recorded
<1>1. /\ UNCHANGED <<phase, inside>> /\ NextDevice /\ \E o \in Outcomes : Access(o)
  BY DEF ProbeBus
<1>2. /\ alive' \in BOOLEAN /\ troubles' \in 0 .. MaxTroubles
      /\ UNCHANGED <<classes, link, sec, sub, master>>
  BY <1>0, <1>1, AccessTyped
<1>3. info.at = At /\ At[1] = 0 /\ todo # <<>>
  BY <1>0 DEF NicInv, AtHand, Probing, At
<1>4. At[2] \in ActivePorts
  BY <1>0, <1>3, AtTyped DEF NicInv, OnPath, Probing
<1>5. PICK bus \in {0, SentinelBus, sec[At[2]]} :
         info' = [info EXCEPT !.secondary = bus] /\ Record([info EXCEPT !.secondary = bus])
  <2>1. PICK o \in Outcomes :
           LET bus == CASE Raised(o) -> 0
                        [] o = "fault" -> SentinelBus
                        [] OTHER -> sec[At[2]]
               rec == [info EXCEPT !.secondary = bus]
           IN  info' = rec /\ Record(rec)
    BY DEF ProbeBus
  <2> DEFINE bus == CASE Raised(o) -> 0
                      [] o = "fault" -> SentinelBus
                      [] OTHER -> sec[At[2]]
  <2>2. info' = [info EXCEPT !.secondary = bus] /\ Record([info EXCEPT !.secondary = bus])
    BY <2>1
  <2>3. bus \in {0, SentinelBus, sec[At[2]]}
    <3>1. CASE Raised(o) /\ o # "fault"
      BY <3>1, Zenon
    <3>2. CASE o = "fault"
      <4>1. ~Raised(o)
        BY <3>2 DEF Raised
      <4> QED
        BY <3>2, <4>1, Zenon
    <3>3. CASE ~Raised(o) /\ o # "fault"
      BY <3>3, Zenon
    <3> QED
      BY <3>1, <3>2, <3>3
  <2> HIDE DEF bus
  <2> QED
    BY <2>2, <2>3
<1>6. bus \in Buses /\ (bus = 0 \/ Named(bus))
  BY <1>0, <1>4, Constants DEF TypeOK, Named
<1> DEFINE rec == [info EXCEPT !.secondary = bus]
<1>7. /\ rec \in Infos /\ rec.secondary = bus /\ rec.at = info.at /\ rec.class = info.class
      /\ rec.from = info.from
  BY <1>0, <1>6 DEF Infos
<1>8. info' = rec /\ Record(rec)
  BY <1>5
<1> HIDE DEF rec
<1>9. Honest(rec)
  BY <1>0, <1>7 DEF Honest
<1>10. /\ DevicesSay' /\ bridges' \in Seq(Infos) /\ devices' \in Seq(Infos)
       /\ \A n \in DOMAIN bridges' : Honest(bridges'[n])
       /\ \A n \in DOMAIN devices' : Honest(devices'[n])
       /\ nic' = nic /\ up' = up
  BY <1>0, <1>1, <1>2, <1>6, <1>7, <1>8, <1>9, RecordKept
<1>11. Probes
  BY <1>0, <1>1, <1>2, <1>7, <1>8, <1>9, <1>10 DEF Probes, NextDevice
<1>12. AtHand'
  BY <1>1 DEF AtHand, NextDevice
<1> QED
  BY <1>10, <1>11, <1>12, ProbeKeeps

-----------------------------------------------------------------------------
(* Between the walks.                                                      *)

LEMMA BelowTyped ==
  ASSUME NEW roots \in Seq(Infos), NEW n \in 1 .. 3
  PROVE  /\ Below(roots, n) \in Seq(Buses \X (0 .. 2))
         /\ \A k \in DOMAIN Below(roots, n) :
               \E m \in DOMAIN roots : /\ roots[m].secondary # 0
                                       /\ Below(roots, n)[k][1] = roots[m].secondary
<1>1. CASE n \in DOMAIN roots /\ roots[n].secondary # 0
  <2>0. roots[n] \in Infos
    BY <1>1
  <2>1. roots[n].secondary \in Buses
    BY <2>0 DEF Infos
  <2>2. Below(roots, n) = <<<<roots[n].secondary, 0>>, <<roots[n].secondary, 1>>>>
    BY <1>1 DEF Below
  <2>3. /\ <<roots[n].secondary, 0>> \in Buses \X (0 .. 2)
        /\ <<roots[n].secondary, 1>> \in Buses \X (0 .. 2)
    BY <2>1
  <2>4. Below(roots, n) \in Seq(Buses \X (0 .. 2))
    BY <2>2, <2>3
  <2>5. \A k \in DOMAIN Below(roots, n) : Below(roots, n)[k][1] = roots[n].secondary
    BY <2>2
  <2> QED
    BY <1>1, <2>4, <2>5
<1>2. CASE ~(n \in DOMAIN roots /\ roots[n].secondary # 0)
  BY <1>2 DEF Below
<1> QED
  BY <1>1, <1>2

LEMMA DownstreamTyped ==
  ASSUME NEW roots \in Seq(Infos)
  PROVE  /\ Downstream(roots) \in Seq(Buses \X (0 .. 2))
         /\ \A k \in DOMAIN Downstream(roots) :
               \E m \in DOMAIN roots : /\ roots[m].secondary # 0
                                       /\ Downstream(roots)[k][1] = roots[m].secondary
<1> DEFINE b1 == Below(roots, 1)
           b2 == Below(roots, 2)
           b3 == Below(roots, 3)
           Good(s) == \A k \in DOMAIN s :
               \E m \in DOMAIN roots : roots[m].secondary # 0 /\ s[k][1] = roots[m].secondary
<1>1. /\ b1 \in Seq(Buses \X (0 .. 2)) /\ Good(b1)
      /\ b2 \in Seq(Buses \X (0 .. 2)) /\ Good(b2)
      /\ b3 \in Seq(Buses \X (0 .. 2)) /\ Good(b3)
  BY BelowTyped
<1>2. ASSUME NEW s \in Seq(Buses \X (0 .. 2)), NEW t \in Seq(Buses \X (0 .. 2)), Good(s), Good(t)
      PROVE  s \o t \in Seq(Buses \X (0 .. 2)) /\ Good(s \o t)
  <2>1. s \o t \in Seq(Buses \X (0 .. 2))
    OBVIOUS
  <2>2. \A k \in DOMAIN (s \o t) : (\E i \in DOMAIN s : (s \o t)[k] = s[i])
                                     \/ (\E i \in DOMAIN t : (s \o t)[k] = t[i])
    <3> SUFFICES ASSUME NEW k \in 1 .. Len(s) + Len(t)
                 PROVE  (\E i \in 1 .. Len(s) : (s \o t)[k] = s[i])
                          \/ (\E i \in 1 .. Len(t) : (s \o t)[k] = t[i])
      OBVIOUS
    <3>1. CASE k <= Len(s)
      BY <3>1
    <3>2. CASE k > Len(s)
      <4>1. (s \o t)[k] = t[k - Len(s)] /\ k - Len(s) \in 1 .. Len(t)
        BY <3>2
      <4> QED
        BY <4>1
    <3> QED
      BY <3>1, <3>2
  <2> QED
    BY <1>2, <2>1, <2>2
<1>3. Downstream(roots) = (b1 \o b2) \o b3
  BY DEF Downstream
<1> HIDE DEF b1, b2, b3
<1>4. b1 \o b2 \in Seq(Buses \X (0 .. 2)) /\ Good(b1 \o b2)
  BY <1>1, <1>2
<1>5. (b1 \o b2) \o b3 \in Seq(Buses \X (0 .. 2)) /\ Good((b1 \o b2) \o b3)
  BY <1>1, <1>2, <1>4
<1> QED
  BY <1>3, <1>5

\* The first one is one.
LEMMA FirstNetIsOne ==
  ASSUME devices \in Seq(Infos)
  PROVE  /\ \A rec \in FirstNet : /\ rec.class = "net"
                                  /\ \E n \in DOMAIN devices : rec = devices[n]
         /\ \A r1, r2 \in FirstNet : r1 = r2
         /\ Cardinality(FirstNet) <= 1
<1>1. \A rec \in FirstNet : rec.class = "net" /\ \E n \in DOMAIN devices : rec = devices[n]
  BY DEF FirstNet
<1>2. \A r1, r2 \in FirstNet : r1 = r2
  <2> SUFFICES ASSUME NEW j \in 1 .. Len(devices), NEW k \in 1 .. Len(devices),
                      devices[j].class = "net", devices[k].class = "net",
                      \A m \in 1 .. Len(devices) : m < j => devices[m].class # "net",
                      \A m \in 1 .. Len(devices) : m < k => devices[m].class # "net"
               PROVE  j = k
    BY DEF FirstNet
  <2> QED
    OBVIOUS
<1>3. CASE FirstNet = {}
  BY <1>1, <1>2, <1>3, FS_EmptySet
<1>4. CASE FirstNet # {}
  <2>1. PICK r \in FirstNet : TRUE
    BY <1>4
  <2>2. FirstNet = {r}
    BY <1>2, <2>1
  <2> QED
    <3>1. Cardinality({r}) = 1
      BY FS_Singleton
    <3> QED
      BY <1>1, <1>2, <2>2, <3>1
<1> QED
  BY <1>3, <1>4

LEMMA WalkedKeeps == ASSUME NicInv, Walked PROVE NicInv'
<1>1. /\ Walking /\ todo = <<>> /\ field = "vid" /\ phase \in {"root", "walk", "descend"}
      /\ inside /\ master = {}
  BY WalkingPhase DEF Walked, NicInv, AtHand, EnablesNic
<1>2. UNCHANGED <<field, info, bridges, devices, up, classes, link, sec, sub, master, alive, troubles>>
  BY DEF Walked, hardware, registers
<1>3. nic' = IF phase = "descend" THEN FirstNet ELSE {}
  BY DEF Walked
<1>4. \/ /\ phase = "walk" /\ phase' = "descend" /\ inside' = inside
         /\ todo' = Downstream(devices)
      \/ /\ phase = "root" /\ phase' = "program" /\ inside' = FALSE /\ todo' = todo
      \/ /\ phase = "descend" /\ phase' = "enable" /\ inside' = FALSE /\ todo' = todo
  BY <1>1, AfterIs DEF Walked, Leave
<1>5. devices \in Seq(Infos) /\ \A n \in DOMAIN devices : Honest(devices[n])
  BY DEF NicInv, TypeOK, Recorded
<1>6. /\ nic' \subseteq Infos /\ Cardinality(nic') <= 1
      /\ \A rec \in nic' : Honest(rec) /\ rec.class = "net"
      /\ \A r1, r2 \in nic' : r1 = r2
  <2>1. CASE phase = "descend"
    <3>1. nic' = FirstNet
      BY <1>3, <2>1
    <3>2. \A rec \in FirstNet : rec \in Infos
      BY <1>5, FirstNetIsOne
    <3> QED
      BY <1>5, <3>1, <3>2, FirstNetIsOne
  <2>2. CASE phase # "descend"
    BY <1>3, <2>2, FS_EmptySet
  <2> QED
    BY <2>1, <2>2
<1>7. TypeOK'
  <2>1. todo' \in Seq(Buses \X (0 .. 2))
    BY <1>4, <1>5, DownstreamTyped DEF NicInv, TypeOK
  <2>2. phase' \in ToSet(Phases) \cup {"escaped"} /\ inside' \in BOOLEAN
    BY <1>1, <1>4, PhasesAre
  <2> QED
    BY <1>2, <1>6, <2>1, <2>2 DEF NicInv, TypeOK
<1>8. OwnBuses'
  BY <1>2 DEF NicInv, OwnBuses
<1>9. OnPath'
  <2>1. CASE phase' = "descend"
    <3>1. phase = "walk" /\ todo' = Downstream(devices)
      BY <1>4, <2>1
    <3>2. \A n \in DOMAIN devices : devices[n].secondary = 0 \/ Named(devices[n].secondary)
      BY <3>1 DEF NicInv, DevicesSay
    <3>3. \A n \in DOMAIN todo' : todo'[n][1] # 0 /\ Named(todo'[n][1])
      BY <1>5, <3>1, <3>2, DownstreamTyped
    <3>4. \A b : Named(b) => Named(b)'
      BY <1>2 DEF Named
    <3>5. \A n \in DOMAIN todo' : todo'[n][1] # 0 /\ Named(todo[n][1])'
      BY <3>3, <3>4
    <3> QED
      BY <3>5 DEF OnPath
  <2>2. CASE phase' # "descend"
    BY <1>4, <2>2 DEF OnPath, Walking, In
  <2> QED
    BY <2>1, <2>2
<1>10. AtHand'
  BY <1>1, <1>2 DEF AtHand
<1>11. DevicesSay'
  BY <1>2, <1>4 DEF NicInv, DevicesSay, Named
<1>12. Recorded'
  <2>1. \A rec : Honest(rec) => Honest(rec)'
    BY <1>2 DEF Honest
  <2> QED
    BY <1>2, <1>6, <2>1 DEF NicInv, Recorded, Honest
<1>13. EnablesNic'
  BY <1>1, <1>2, <1>4 DEF EnablesNic, In
<1> QED
  BY <1>7, <1>8, <1>9, <1>10, <1>11, <1>12, <1>13 DEF NicInv

LEMMA EnterTodo ==
  ASSUME Enter
  PROVE  /\ phase \in {"root", "walk"} => todo' = [n \in DOMAIN AllPorts |-> <<0, AllPorts[n]>>]
         /\ phase = "program" => todo' = [n \in DOMAIN bridges |-> bridges[n].at]
         /\ phase = "enable" => todo' = <<(CHOOSE n \in nic : TRUE).at>>
         /\ phase \notin {"root", "walk", "program", "enable"} => todo' = <<>>
<1>1. todo' = CASE phase \in {"root", "walk"} -> [n \in DOMAIN AllPorts |-> <<0, AllPorts[n]>>]
                [] phase = "program" -> [n \in DOMAIN bridges |-> bridges[n].at]
                [] phase = "enable" -> <<(CHOOSE n \in nic : TRUE).at>>
                [] OTHER -> <<>>
  BY DEF Enter
<1>2. CASE phase \in {"root", "walk"}
  <2>1. phase # "program" /\ phase # "enable"
    BY <1>2
  <2> QED
    BY <1>1, <1>2, <2>1, Zenon
<1>3. CASE phase = "program"
  <2>1. phase \notin {"root", "walk"} /\ phase # "enable"
    BY <1>3
  <2> QED
    BY <1>1, <1>3, <2>1, Zenon
<1>4. CASE phase = "enable"
  <2>1. phase \notin {"root", "walk"} /\ phase # "program"
    BY <1>4
  <2> QED
    BY <1>1, <1>4, <2>1, Zenon
<1>5. CASE phase \notin {"root", "walk", "program", "enable"}
  <2>1. phase \notin {"root", "walk"} /\ phase # "program" /\ phase # "enable"
    BY <1>5
  <2> QED
    BY <1>1, <1>5, <2>1, Zenon
<1> QED
  BY <1>2, <1>3, <1>4, <1>5

LEMMA EnterKeeps == ASSUME NicInv, Enter PROVE NicInv'
<1>1. /\ phase \in {"watch", "poll", "kick", "root", "program", "walk", "enable", "retry", "repoll"}
      /\ inside' = TRUE /\ (phase = "enable" => nic # {})
      /\ field' = IF phase \in {"program", "enable"} THEN "cmd" ELSE "vid"
  BY DEF Enter, Starts, Gated, Ungated, Wanted
<1>2. /\ UNCHANGED <<phase, info, bridges, devices, nic, up>>
      /\ UNCHANGED <<classes, link, sec, sub, master, alive, troubles>>
  BY DEF Enter, found, hardware, registers
<1>3. AllPorts \in Seq(ActivePorts)
  BY AllPortsTyped
<1>4. phase = "enable" => \E rec \in nic : todo' = <<rec.at>>
  <2> SUFFICES ASSUME phase = "enable" PROVE \E rec \in nic : todo' = <<rec.at>>
    OBVIOUS
  <2> DEFINE c == CHOOSE n \in nic : TRUE
  <2>1. c \in nic
    BY <1>1
  <2>2. todo' = <<c.at>>
    BY EnterTodo
  <2> HIDE DEF c
  <2> QED
    BY <2>1, <2>2
<1>5. todo' \in Seq(Buses \X (0 .. 2))
  <2>1. CASE phase \in {"root", "walk"}
    <3>1. todo' = [n \in DOMAIN AllPorts |-> <<0, AllPorts[n]>>]
      BY <2>1, EnterTodo
    <3>2. \A n \in DOMAIN AllPorts : <<0, AllPorts[n]>> \in Buses \X (0 .. 2)
      <4>1. \A n \in DOMAIN AllPorts : AllPorts[n] \in ActivePorts
        BY <1>3
      <4>2. 0 \in Buses /\ ActivePorts \subseteq 0 .. 2
        BY Constants, NicAssumption
      <4> QED
        BY <4>1, <4>2
    <3> QED
      BY <1>3, <3>1, <3>2
  <2>2. CASE phase = "program"
    <3>1. todo' = [n \in DOMAIN bridges |-> bridges[n].at] /\ bridges \in Seq(Infos)
      BY <2>2, EnterTodo DEF NicInv, TypeOK
    <3>2. \A n \in DOMAIN bridges : bridges[n].at \in Buses \X (0 .. 2)
      <4>1. \A n \in DOMAIN bridges : bridges[n] \in Infos
        BY <3>1
      <4> QED
        BY <4>1 DEF Infos
    <3> QED
      BY <3>1, <3>2
  <2>3. CASE phase = "enable"
    <3>1. PICK rec \in nic : todo' = <<rec.at>>
      BY <1>4, <2>3
    <3>2. rec \in Infos
      BY DEF NicInv, TypeOK
    <3>3. rec.at \in Buses \X (0 .. 2)
      BY <3>2 DEF Infos
    <3> QED
      BY <3>1, <3>3
  <2>4. CASE phase \notin {"root", "walk", "program", "enable"}
    BY <2>4, EnterTodo
  <2> QED
    BY <2>1, <2>2, <2>3, <2>4
<1>6. TypeOK'
  BY <1>1, <1>2, <1>5 DEF NicInv, TypeOK
<1>7. OwnBuses'
  BY <1>2 DEF NicInv, OwnBuses
<1>8. OnPath'
  <2> SUFFICES ASSUME Walking' PROVE \A n \in DOMAIN todo' : todo'[n][1] = 0 /\ todo'[n][2] \in ActivePorts
    BY DEF OnPath
  <2>1. phase \in {"root", "walk"}
    BY <1>1, <1>2 DEF Walking, In
  <2>2. todo' = [n \in DOMAIN AllPorts |-> <<0, AllPorts[n]>>]
    BY <2>1, EnterTodo
  <2> QED
    BY <1>3, <2>2
<1>9. AtHand'
  BY <1>1, <1>2 DEF AtHand, Walking, In
<1>10. DevicesSay'
  BY <1>2 DEF NicInv, DevicesSay, Named
<1>11. Recorded'
  BY <1>2 DEF NicInv, Recorded, Honest
<1>12. EnablesNic'
  BY <1>2, <1>4 DEF NicInv, EnablesNic, In
<1> QED
  BY <1>6, <1>7, <1>8, <1>9, <1>10, <1>11, <1>12 DEF NicInv

LEMMA ProgramKeeps == ASSUME NicInv, ProgramCmd \/ ProgramSec \/ ProgramSub PROVE NicInv'
<1>1. TypeOK /\ phase = "program" /\ todo # <<>> /\ master = {} /\ devices = <<>>
  BY DEF ProgramCmd, ProgramSec, ProgramSub, Programming, In, NicInv, EnablesNic, DevicesSay
<1>2. /\ UNCHANGED <<phase, inside, info, bridges, devices, nic, up, classes, link, master>>
      /\ todo' \in {todo, Tail(todo)} /\ field' \in {"cmd", "sec", "sub"}
  BY DEF ProgramCmd, ProgramSec, ProgramSub, Access, found, registers, NextBridge
<1>3. alive' \in BOOLEAN /\ troubles' \in 0 .. MaxTroubles
  <2>1. \E o \in Outcomes : Ends(o)
    BY DEF ProgramCmd, ProgramSec, ProgramSub, Access
  <2> QED
    BY <1>1, <2>1, OutcomeEnds
<1>4. /\ sec' = sec \/ sec' = [sec EXCEPT ![At[2]] = SecondaryOf(At[2])]
      /\ sub' = sub \/ sub' = [sub EXCEPT ![At[2]] = Widest]
  BY DEF ProgramCmd, ProgramSec, ProgramSub, Access, registers
<1>5. sec \in [ActivePorts -> Buses] /\ sub \in [ActivePorts -> Buses]
  BY <1>1 DEF TypeOK
<1>6. \A p \in ActivePorts : SecondaryOf(p) = p + 1 /\ p + 1 \in Buses
  BY Constants DEF SecondaryOf
<1>7. \A p \in ActivePorts : sec'[p] \in {sec[p], p + 1}
  BY <1>4, <1>5, <1>6
<1>8. sec' \in [ActivePorts -> Buses] /\ sub' \in [ActivePorts -> Buses]
  BY <1>4, <1>5, <1>6, <1>7, Constants
<1>9. todo' \in Seq(Buses \X (0 .. 2))
  <2>1. todo \in Seq(Buses \X (0 .. 2))
    BY <1>1 DEF TypeOK
  <2>2. Tail(todo) \in Seq(Buses \X (0 .. 2))
    BY <1>1, <2>1
  <2> QED
    BY <1>2, <2>1, <2>2
<1>10. TypeOK'
  BY <1>2, <1>3, <1>8, <1>9 DEF NicInv, TypeOK
<1>11. OwnBuses'
  BY <1>7 DEF NicInv, OwnBuses
<1>12. OnPath' /\ AtHand' /\ DevicesSay'
  BY <1>1, <1>2 DEF OnPath, AtHand, DevicesSay, Walking, In
<1>13. Recorded'
  BY <1>2 DEF NicInv, Recorded, Honest
<1>14. EnablesNic'
  BY <1>1, <1>2 DEF EnablesNic, In
<1> QED
  BY <1>10, <1>11, <1>12, <1>13, <1>14 DEF NicInv

LEMMA EnableCmdKeeps == ASSUME NicInv, EnableCmd PROVE NicInv'
<1>1. TypeOK /\ OwnBuses /\ phase = "enable" /\ inside /\ field = "cmd"
  BY DEF EnableCmd, In, NicInv
<1>2. UNCHANGED <<todo, info, bridges, devices, nic, up, classes, link, sec, sub>>
  BY DEF EnableCmd, found
<1>3. PICK o \in Outcomes :
         \E made \in (IF o = "fault" THEN BOOLEAN ELSE Made(o)) : \E who \in Answering(At) :
            /\ Ends(o)
            /\ master' = master \cup {p \in ActivePorts : made /\ who = <<"endpoint", p>>}
  BY DEF EnableCmd
<1>4. PICK who \in Answering(At) :
         /\ Ends(o)
         /\ master' \subseteq master \cup {p \in ActivePorts : who = <<"endpoint", p>>}
  BY <1>3
<1>5. alive' \in BOOLEAN /\ troubles' \in 0 .. MaxTroubles
  BY <1>1, <1>4, OutcomeEnds
<1>6. /\ field' \in {"cmd", "bar"} /\ phase' \in {"enable", "summary"} /\ inside' \in BOOLEAN
      /\ inside' => phase' = "enable"
  BY <1>1 DEF EnableCmd, Leave
<1>7. PICK rec \in nic : todo = <<rec.at>>
  BY <1>1 DEF NicInv, EnablesNic, In
<1>8. At = rec.at /\ At \in Buses \X (0 .. 2)
  <2>1. rec \in Infos
    BY <1>1 DEF TypeOK
  <2>2. rec.at \in Buses \X (0 .. 2)
    BY <2>1 DEF Infos
  <2> QED
    BY <1>7, <2>2 DEF At
<1>9. \A p \in ActivePorts : who = <<"endpoint", p>> => rec.at[1] = p + 1
  <2> SUFFICES ASSUME NEW p \in ActivePorts, who = <<"endpoint", p>> PROVE rec.at[1] = p + 1
    OBVIOUS
  <2>1. who # Nobody /\ who[1] = "endpoint"
    BY DEF Nobody
  <2>2. who = Sole(At) /\ At[1] # 0
    BY <1>1, <1>8, <2>1, AnswersSole
  <2>3. p = At[1] - 1
    BY <2>2 DEF Sole
  <2>4. At[1] \in Nat
    BY <1>8, Constants
  <2> QED
    BY <1>8, <2>3, <2>4
<1>10. TypeOK'
  <2>1. phase' \in ToSet(Phases) \cup {"escaped"}
    BY <1>6, PhasesAre
  <2>2. master' \subseteq ActivePorts
    BY <1>1, <1>4 DEF TypeOK
  <2> QED
    BY <1>1, <1>2, <1>5, <1>6, <2>1, <2>2 DEF TypeOK
<1>11. OwnBuses'
  BY <1>1, <1>2 DEF OwnBuses
<1>12. OnPath' /\ AtHand' /\ DevicesSay'
  BY <1>6 DEF OnPath, AtHand, DevicesSay, Walking, In
<1>13. Recorded'
  BY <1>2 DEF NicInv, Recorded, Honest
<1>14. EnablesNic'
  <2>1. \A p \in master' : \E r \in nic : r.at[1] = p + 1
    BY <1>4, <1>7, <1>9 DEF NicInv, EnablesNic
  <2> QED
    BY <1>2, <1>6, <1>7, <2>1 DEF EnablesNic, In
<1> QED
  BY <1>10, <1>11, <1>12, <1>13, <1>14 DEF NicInv

-----------------------------------------------------------------------------
(* The theorems.                                                           *)

LEMMA InitKeeps == ASSUME Init PROVE NicInv
<1>1. /\ phase \in {"power", "root"} /\ inside = FALSE /\ todo = <<>> /\ field = "vid"
      /\ info = [at |-> <<0, 0>>, class |-> "?", header |-> 0, secondary |-> 0, from |-> {}]
      /\ bridges = <<>> /\ devices = <<>> /\ nic = {} /\ up = FALSE /\ master = {}
      /\ alive = TRUE /\ troubles = 0 /\ classes \in [ActivePorts -> Classes]
  BY DEF Init, NoInfo
<1>2. PICK old \in IF phase = "power" THEN {{}} ELSE SUBSET ActivePorts :
         /\ link = old
         /\ sec = [p \in ActivePorts |-> IF p \in old THEN p + 1 ELSE 0]
         /\ sub = [p \in ActivePorts |-> IF p \in old THEN Widest ELSE 0]
  BY DEF Init
<1>3. info \in Infos
  BY <1>1, Constants DEF Infos
<1>4. link \subseteq ActivePorts
  BY <1>2
<1>5. sec \in [ActivePorts -> Buses] /\ sub \in [ActivePorts -> Buses] /\ OwnBuses
  BY <1>2, Constants DEF OwnBuses
<1>6. Cardinality(nic) <= 1
  BY <1>1, FS_EmptySet
<1>7. phase \in ToSet(Phases) /\ MaxTroubles \in Nat
  BY <1>1, PhasesAre, Constants
<1>8. TypeOK
  <2>1. /\ todo \in Seq(Buses \X (0 .. 2)) /\ bridges \in Seq(Infos)
        /\ devices \in Seq(Infos) /\ nic \subseteq Infos /\ master \subseteq ActivePorts
    BY <1>1
  <2>2. inside \in BOOLEAN /\ up \in BOOLEAN /\ alive \in BOOLEAN
    BY <1>1
  <2>3. troubles \in 0 .. MaxTroubles
    <3>1. troubles = 0
      BY <1>1
    <3> QED
      BY <1>7, <3>1
  <2> QED
    BY <1>1, <1>3, <1>4, <1>5, <1>6, <1>7, <2>1, <2>2, <2>3 DEF TypeOK
<1>9. Honest(info)
  BY <1>1 DEF Honest
<1> QED
  BY <1>1, <1>5, <1>8, <1>9
     DEF NicInv, OnPath, AtHand, DevicesSay, Recorded, EnablesNic, Walking, In

LEMMA StepKeeps == ASSUME NicInv, [Next]_vars PROVE NicInv'
<1>0. TypeOK
  BY DEF NicInv
<1>1. CASE Skip
  BY <1>0, <1>1, SkipQuiet, QuietKeeps
<1>2. CASE EntryRaises
  BY <1>0, <1>2, EntryRaisesQuiet, QuietKeeps
<1>3. CASE PowerUp \/ Watch \/ BusyCheck \/ Poll \/ Kick \/ EnableBar
  BY <1>0, <1>3, WaitingQuiet, QuietKeeps
<1>4. ASSUME NEW p \in ActivePorts, LinkTrains(p) \/ LinkDrops(p) PROVE NicInv'
  BY <1>0, <1>4, LinksQuiet, QuietKeeps
<1>5. CASE Programmed
  <2>1. PICK p \in ActivePorts : TRUE
    BY NicAssumption
  <2> QED
    BY <1>0, <1>5, <2>1, LinksQuiet, QuietKeeps
<1>6. CASE Enter
  BY <1>6, EnterKeeps
<1>7. CASE ProbeVid \/ ProbeClass \/ ProbeHeader \/ ProbeBus
  BY <1>7, ProbeVidKeeps, ProbeClassKeeps, ProbeHeaderKeeps, ProbeBusKeeps
<1>8. CASE Walked
  BY <1>8, WalkedKeeps
<1>9. CASE ProgramCmd \/ ProgramSec \/ ProgramSub
  BY <1>9, ProgramKeeps
<1>10. CASE EnableCmd
  BY <1>10, EnableCmdKeeps
<1>11. CASE UNCHANGED vars
  <2>1. Quiet
    <3>1. /\ UNCHANGED <<todo, field, info, bridges, devices, nic, classes, sec, sub, master>>
          /\ UNCHANGED <<phase, inside, up, link, alive, troubles>>
      BY <1>11 DEF vars, walk, found, hardware, registers
    <3>2. /\ up \in BOOLEAN /\ link \subseteq ActivePorts /\ alive \in BOOLEAN
          /\ troubles \in 0 .. MaxTroubles
      BY <1>0 DEF TypeOK
    <3> QED
      BY <3>1, <3>2 DEF Quiet, Before, During, Afterwards
  <2> QED
    BY <2>1, QuietKeeps
<1> QED
  BY <1>1, <1>2, <1>3, <1>4, <1>5, <1>6, <1>7, <1>8, <1>9, <1>10, <1>11 DEF Next, Host

\* The inductive invariant of nic_bringup.py, for every set of ports.
THEOREM WalkIsHonest == Spec => []NicInv
<1>1. Init => NicInv
  BY InitKeeps
<1>2. NicInv /\ [Next]_vars => NicInv'
  BY StepKeeps
<1> QED
  BY <1>1, <1>2, PTL DEF Spec

\* The script's state keeps its types, whatever answers a config access.
THEOREM NicTypeCorrect == Spec => []TypeOK
<1>1. NicInv => TypeOK
  BY DEF NicInv
<1> QED
  BY <1>1, WalkIsHonest, PTL

LEMMA AtMostOne ==
  ASSUME NEW x, NEW S \in SUBSET {x}
  PROVE  Cardinality(S) <= 1
<1>1. Cardinality({}) = 0 /\ Cardinality({x}) = 1
  BY FS_EmptySet, FS_Singleton
<1>2. S = {} \/ S = {x}
  OBVIOUS
<1> QED
  BY <1>1, <1>2

\* A record of probe_device is never put together from two devices, however the
\* links and the bridges' windows change between its reads.
THEOREM RecordsAreWhole == Spec => []NoChimera
<1>1. NicInv => NoChimera
  <2> SUFFICES ASSUME NicInv, NEW rec \in ToSet(devices) \cup ToSet(bridges) \cup {info}
               PROVE  Cardinality(rec.from) <= 1
    BY DEF NoChimera
  <2>1. rec.from \subseteq {Sole(rec.at)}
    BY DEF NicInv, Recorded, Honest, ToSet
  <2> QED
    BY <2>1, AtMostOne
<1> QED
  BY <1>1, WalkIsHonest, PTL

\* ecam_walk touches the root functions of active ports, the buses that bridges
\* have as their secondary numbers, and after a faulted read of such a number the
\* bus of the sentinel; nothing else.
THEOREM OnlyActivePortsWalked == Spec => []OnlyActiveProbed
<1>1. NicInv => OnlyActiveProbed
  BY DEF NicInv, OnPath, OnlyActiveProbed, Named, ToSet
<1> QED
  BY <1>1, WalkIsHonest, PTL

\* enable_nic sets MEM and BUSMASTER of a network device and of no second one,
\* although the address may have changed hands since the walk.
THEOREM MasterIsTheNic == Spec => []MasterIsNic
<1>1. NicInv => MasterIsNic
  <2> SUFFICES ASSUME NicInv PROVE MasterIsNic
    OBVIOUS
  <2>1. \A p \in master : p \in ActivePorts /\ \E rec \in nic : rec.at[1] = p + 1
    BY DEF NicInv, EnablesNic, TypeOK
  <2>2. \A p \in ActivePorts : (p + 1) - 1 = p
    BY Constants
  <2>3. \A p \in master : classes[p] = "net"
    BY <2>1, <2>2 DEF NicInv, Recorded, Honest
  <2>4. \A p, q \in master : p = q
    <3> SUFFICES ASSUME NEW p \in master, NEW q \in master PROVE p = q
      OBVIOUS
    <3>1. PICK r \in nic : r.at[1] = p + 1
      BY <2>1
    <3>2. r.at[1] = q + 1
      BY <2>1, <3>1 DEF NicInv, Recorded
    <3> QED
      BY <2>1, <2>2, <3>1, <3>2
  <2>5. Cardinality(master) <= 1
    <3>1. CASE master = {}
      BY <3>1, FS_EmptySet
    <3>2. CASE master # {}
      <4>1. PICK p \in master : TRUE
        BY <3>2
      <4>2. master \in SUBSET {p}
        BY <2>4
      <4> QED
        BY <4>2, AtMostOne
    <3> QED
      BY <3>1, <3>2
  <2> QED
    BY <2>3, <2>5 DEF MasterIsNic
<1> QED
  BY <1>1, WalkIsHonest, PTL
=============================================================================
