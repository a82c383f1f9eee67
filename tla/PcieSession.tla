---------------------------- MODULE PcieSession ----------------------------
(***************************************************************************)
(* A whole boot: main() of Scripts/m1n1/perstn.py runs the sections the    *)
(* flags ask for, one after the other, against an m1n1 that any section    *)
(* may leave dead.  Phase D and Phase F are here by what they promise:     *)
(* PmgrChain and SharedInit model them call by call.                       *)
(*                                                                         *)
(* What passes from one section to the next is read from attributes of     *)
(* `apcie` (flagD, rcAxi, sharedUp, phaseB, table); what really holds is   *)
(* in the PMGR gates, which the hardware may also switch off between       *)
(* sections.                                                               *)
(***************************************************************************)
EXTENDS Naturals, Sequences, FiniteSets

CONSTANTS
    Boots,           \* the orders main() may be given
    PowerGates,      \* apcie.power_gates
    Virtual,         \* those of them without a PS register
    PhySw,           \* gate 151
    Direct,          \* gate 151 and its parents
    Chain,           \* gate 151 and every gate above it
    MayDrift,        \* the hardware may gate a clock on its own
    RecoveryProbes   \* liveness probes after a pcie_init that raised (30)

Real == PowerGates \ Virtual
Gates == Real \cup Chain

ASSUME SessionAssumption ==
    /\ Virtual \subseteq PowerGates /\ PhySw \in Direct /\ Direct \subseteq Chain
    /\ MayDrift \in BOOLEAN
    /\ RecoveryProbes \in Nat \ {0}

-----------------------------------------------------------------------------
(* The sections of a boot, in the order of main().                         *)

\* A gated section is skipped when m1n1 does not answer; `then` is what its
\* body goes on with.
Section(name) == [name |-> name, gated |-> FALSE, then |-> <<>>]
Gated(name, then) == [name |-> name, gated |-> TRUE, then |-> then]

When(b, flag, sections) == IF flag \in b.flags THEN sections ELSE <<>>

Preinit(b) ==
    <<Section("phase0")>>
    \o When(b, "gate_poke",
            <<Section("D")>> \o When(b, "phy_ip_probe", <<Section("E")>>)
            \o When(b, "t8140_replay", <<Section("F")>>))
    \o When(b, "pmgr_enable",
            <<Section("B")>> \o When(b, "pmgr_per_port", <<Section("C")>>))

Start(b) ==
    <<Section("rails")>> \o When(b, "preinit_probe", Preinit(b))
    \o When(b, "refclk_pre", <<Section("refclk")>>)
    \o <<Section(IF "no_pcie_init" \in b.flags THEN "no_init" ELSE "init"),
         Gated("ecam", <<Gated("nic", <<>>)>>)>>

\* What a pcie_init that returned is followed by.
PostInit(b) ==
    <<Section("dump_early")>>
    \o When(b, "refclk_post", <<Gated("refclk", <<>>)>>)
    \o <<Section("watch")>>
    \o When(b, "endpoint_diag", <<Gated("endpoint_diag", <<>>)>>)
    \o When(b, "perst_resequence", <<Gated("perst", <<Gated("watch", <<>>)>>)>>)
    \o When(b, "replay_post_init", <<Gated("verify", <<Section("F")>>)>>)
    \o When(b, "post_init_phy_ip", <<Gated("phy_ip", <<>>)>>)
    \o <<Section("dump"), Gated("kick", <<Gated("dump", <<>>)>>)>>
    \o When(b, "t602x_init", <<Gated("t602x", <<Gated("dump", <<>>), Gated("watch", <<>>)>>)>>)

-----------------------------------------------------------------------------
VARIABLES
    boot,      \* the order
    todo,      \* the sections still to come
    ended,     \* "no", "summary", or "crash": an exception left main()
    m1n1,      \* "alive", "busy" with a request nobody waits for, or "dead"
    probes,    \* recovery probes left
    on,        \* the gates that are ACTIVE
    flagD,     \* apcie.phaseD_gate151_active
    rcAxi,     \* apcie.phaseE_rc_axi_ok: "unset", "ok" or "bad"
    sharedUp,  \* apcie.phaseF_shared_up
    phaseB,    \* what apcie.phaseB_gate_state shows
    table,     \* apcie.phase0_dev_by_idx: "none", or a device table that is
               \* "whole" or, with entries that could not be decoded, "partial"
    events     \* what happened so far (history)

flags == <<flagD, rcAxi, sharedUp, phaseB, table>>
vars == <<boot, todo, ended, m1n1, probes, on, flags, events>>

\* phaseB: no gate recorded; one recorded as off; every recorded gate on but
\* some unread; every gate read, and on.
Recorded == {"nothing", "off", "partly", "all_on"}
Tables == {"none", "partial", "whole"}
Events == {"mmio_behind_off_gate", "unchecked", "F_below_off_gate", "init_returned",
           "F_up", "harvest"}

TypeOK ==
    /\ boot \in Boots /\ ended \in {"no", "summary", "crash"}
    /\ m1n1 \in {"alive", "busy", "dead"} /\ probes \in 0 .. RecoveryProbes
    /\ on \subseteq Gates
    /\ flagD \in BOOLEAN /\ rcAxi \in {"unset", "ok", "bad"} /\ sharedUp \in BOOLEAN
    /\ phaseB \in Recorded /\ table \in Tables /\ events \subseteq Events

Init ==
    /\ boot \in Boots /\ todo = Start(boot) /\ ended = "no"
    /\ m1n1 = "alive" /\ probes = 0
    /\ on \in SUBSET Gates
    /\ flagD = FALSE /\ rcAxi = "unset" /\ sharedUp = FALSE /\ phaseB = "nothing"
    /\ table = "none" /\ events = {}

-----------------------------------------------------------------------------
(* Helpers.                                                                *)

sec == Head(todo)
Next1(names) == ended = "no" /\ probes = 0 /\ todo # <<>> /\ sec.name \in names
Opens(names) == Next1(names) /\ (sec.gated => m1n1 = "alive")

GoesOn(then) == todo' = then \o Tail(todo) /\ UNCHANGED <<boot, ended, probes>>

Notes(es) == events' = events \cup es
If(c, e) == IF c THEN {e} ELSE {}

MayDie == m1n1' \in IF m1n1 = "alive" THEN {"alive", "dead"} ELSE {m1n1}

\* m1n1's pmgr_adt_power_enable: gates come up, or stay as they are.
Raises(gates) == on' \in {on \cup up : up \in SUBSET gates}

\* Reads of the shared apcie MMIO, which these gates are before.
Mmio(gates, gatesOn) == If(~(gates \subseteq gatesOn), "mmio_behind_off_gate")

-----------------------------------------------------------------------------
(* Before pcie_init.                                                       *)

\* SMC power, CLKREQ, PERSTN and the LINKSTS watch: they catch what m1n1 does
\* to them and leave no attribute anybody tests.
Plain ==
    /\ Opens({"rails", "watch"})
    /\ GoesOn(sec.then) /\ MayDie /\ Notes({})
    /\ UNCHANGED <<on, flags>>

\* Phase 0 (and 0.5 and A, which leave nothing behind): the device table of the
\* PMGR is kept for the phases to come.  A load that fails leaves none, and
\* nobody stores one later; an entry that cannot be decoded is left out.
Phase0 ==
    /\ Opens({"phase0"}) /\ GoesOn(<<>>) /\ MayDie /\ Notes({})
    /\ table' \in Tables
    /\ UNCHANGED <<on, flagD, rcAxi, sharedUp, phaseB>>

\* Phase D, as PmgrChain promises of any handoff: the flag is set for a gate
\* that was handed over ACTIVE, or that was poked under ACTIVE parents.  Without
\* the table of Phase 0 it loads one of its own.
PhaseD ==
    /\ Opens({"D"})
    /\ GoesOn(<<>>) /\ MayDie /\ Notes({})
    /\ IF m1n1 = "alive" THEN Raises(Chain) ELSE UNCHANGED on
    /\ flagD' \in {FALSE} \cup {d \in {TRUE} : m1n1 = "alive" /\ PhySw \in on'
                                         /\ (PhySw \in on \/ Direct \subseteq on')}
    /\ UNCHANGED <<rcAxi, sharedUp, phaseB, table>>

\* The gates the reads of Phase E are behind.
NeededByE == Real \cup Direct

\* The gates its re-verification may be unable to look up: all of them without
\* the table of Phase 0, which is not loaded again; those the table lacks; and
\* parents of gate 151 when their accessor raises.
LostToE ==
    CASE table = "none" -> {NeededByE}
      [] table = "partial" -> SUBSET NeededByE
      [] table = "whole" -> SUBSET (Direct \ (Real \cup {PhySw}))

\* Mutant of SafeForE: the flag of Phase D is taken for the state of the gates.
TrustsPhaseD(lost) == flagD

\* The re-verification: power_gates, gate 151 and its parents, but for what was
\* lost, which is passed over.
SafeForE(lost) == NeededByE \ lost \subseteq on

\* A gate that reads off, or an exception count that cannot be read, ends the
\* phase before it has an opinion.
PhaseE ==
    /\ Opens({"E"}) /\ GoesOn(<<>>)
    /\ \/ ~flagD /\ Notes({}) /\ UNCHANGED <<m1n1, rcAxi>>
       \/ flagD /\ Notes({}) /\ MayDie /\ UNCHANGED rcAxi
       \/ /\ flagD /\ m1n1 = "alive"
          /\ \E lost \in LostToE :
                 /\ SafeForE(lost)
                 /\ Notes(Mmio(NeededByE, on) \cup If(lost # {}, "unchecked"))
          /\ MayDie /\ rcAxi' \in {"ok", "bad"} /\ (m1n1' = "dead" => rcAxi' = "bad")
    /\ UNCHANGED <<on, flagD, sharedUp, phaseB, table>>

\* Phase F, as SharedInit promises: success only with m1n1 answering.
PhaseF ==
    /\ Opens({"F"}) /\ GoesOn(<<>>)
    /\ \/ /\ ~(flagD /\ rcAxi # "bad" /\ m1n1 = "alive")
          /\ sharedUp' = FALSE /\ Notes({}) /\ UNCHANGED <<m1n1, on>>
       \/ /\ flagD /\ rcAxi # "bad" /\ m1n1 = "alive"
          /\ MayDie /\ Raises(Real)
          /\ sharedUp' \in {FALSE, m1n1' = "alive"}
          /\ Notes(If(~(Chain \subseteq on), "F_below_off_gate")
                   \cup If(sharedUp', "F_up"))
    /\ UNCHANGED <<flagD, rcAxi, phaseB, table>>

\* Mutant of Shows: a gate that could not be read is a state of its own.
ShowsUnread(unread, gatesOn) ==
    CASE ~(Real \ unread \subseteq gatesOn) -> "off"
      [] unread # {} -> "unread"
      [] OTHER -> "all_on"

\* phaseB_gate_state after the read-back: a gate that could not be read is
\* not in it, one without a register always is.
Shows(unread, gatesOn) ==
    CASE ~(Real \ unread \subseteq gatesOn) -> "off"
      [] PowerGates = unread -> "nothing"
      [] unread # {} -> "partly"
      [] OTHER -> "all_on"

\* Phase B: m1n1's own power-up, then every gate is read back; the shared MMIO
\* is read when each of them was, and is on.  Without a table, Phase 0's or its
\* own, it reads nothing.
PhaseB ==
    /\ Opens({"B"}) /\ GoesOn(<<>>)
    /\ \/ m1n1 # "alive" /\ phaseB' = "nothing" /\ Notes({}) /\ UNCHANGED <<m1n1, on>>
       \/ /\ m1n1 = "alive" /\ Raises(Real) /\ MayDie
          /\ \/ phaseB' = "nothing" /\ Notes({})
             \/ \E unread \in SUBSET Real :
                    /\ phaseB' = Shows(unread, on')
                    /\ \/ Notes({})
                       \/ phaseB' = "all_on" /\ Notes(Mmio(Real, on'))
    /\ UNCHANGED <<flagD, rcAxi, sharedUp, table>>

SafeForC(gatesOn) == Real \subseteq gatesOn

\* Phase C powers the bridges, which may disturb the shared gates, and reads
\* port_base if they still read as on.  When neither Phase 0 nor it could load
\* the table, it reads port_base all the same.
PhaseC ==
    /\ Opens({"C"}) /\ GoesOn(<<>>)
    /\ \/ /\ phaseB \notin {"partly", "all_on"} \/ m1n1 # "alive"
          /\ Notes({}) /\ UNCHANGED <<m1n1, on>>
       \/ /\ phaseB \in {"partly", "all_on"} /\ m1n1 = "alive"
          /\ on' \in SUBSET Gates /\ MayDie
          /\ \/ Notes({})
             \/ SafeForC(on') /\ Notes(Mmio(Real, on'))
             \/ table = "none" /\ Notes(Mmio(Real, on') \cup {"unchecked"})
    /\ UNCHANGED flags

-----------------------------------------------------------------------------
(* pcie_init and after.                                                    *)

\* The dump, and all that waits for pcie_init, is skipped.
SkipsInit == GoesOn(<<>>) /\ Notes({})

NoPcieInit ==
    /\ Opens({"no_init"})
    /\ UNCHANGED <<m1n1, on, flags>> /\ SkipsInit

PcieInit ==
    /\ Opens({"init"})
    /\ \/ /\ m1n1 = "alive" /\ UNCHANGED m1n1 /\ Raises(Gates)
          /\ todo' = PostInit(boot) \o Tail(todo)
          /\ Notes({"init_returned"})
          /\ UNCHANGED <<boot, ended, probes>>
       \/ /\ m1n1' \in IF m1n1 = "alive" THEN {"alive", "busy", "dead"} ELSE {m1n1}
          /\ Raises(Gates) /\ probes' = RecoveryProbes
          /\ Notes({}) /\ UNCHANGED <<boot, todo, ended>>
    /\ UNCHANGED flags

\* Mutant of RecoveryProbe: the loop has no bound.
ProbesForEver ==
    /\ ended = "no" /\ probes > 0
    /\ UNCHANGED <<m1n1, on, flags>>
    /\ \/ m1n1 = "alive" /\ probes' = 0 /\ todo' = Tail(todo)
          /\ UNCHANGED <<boot, ended>> /\ Notes({})
       \/ m1n1 # "alive" /\ UNCHANGED <<boot, todo, ended, probes, events>>

\* One liveness probe a second; whatever it finds, pcie_init counts as failed.
RecoveryProbe ==
    /\ ended = "no" /\ probes > 0
    /\ UNCHANGED <<m1n1, on, flags>>
    /\ \/ /\ m1n1 = "alive" \/ probes = 1
          /\ probes' = 0 /\ todo' = Tail(todo)
          /\ UNCHANGED <<boot, ended>> /\ Notes({})
       \/ /\ m1n1 # "alive" /\ probes > 1 /\ probes' = probes - 1
          /\ UNCHANGED <<boot, todo, ended, events>>

\* liveness_gate: the section is skipped.
GateShut ==
    /\ Next1({sec.name}) /\ sec.gated /\ m1n1 # "alive"
    /\ GoesOn(<<>>) /\ Notes({})
    /\ UNCHANGED <<m1n1, on, flags>>

\* Mutant of Harvests: the dump takes a pcie_init that returned for enough.
HarvestsAnyway == sec.name = "dump" /\ "tier3" \in boot.flags

\* phy_ip is read by a tier-3 dump when Phase F reported success.
Harvests == sec.name = "dump" /\ "tier3" \in boot.flags /\ sharedUp

\* `with guarded(...): try_(...)`: entering the guard is outside the try, and
\* raises through main() when m1n1 does not answer.
GuardedSections ==
    {"refclk", "dump_early", "dump", "endpoint_diag", "perst", "kick", "t602x",
     "ecam", "nic"}

GuardedSection ==
    /\ Opens(GuardedSections)
    /\ \/ /\ m1n1 # "alive" /\ ended' = "crash" /\ Notes({})
          /\ UNCHANGED <<boot, todo, probes, m1n1>>
       \/ /\ m1n1 = "alive" /\ MayDie /\ Notes(If(Harvests, "harvest"))
          /\ \/ GoesOn(sec.then)
             \/ sec.name = "ecam" /\ GoesOn(<<>>)
    /\ UNCHANGED <<on, flags>>

\* The post-init verification reads the gates of power_gates, and a failure
\* leaves flagD as it was.
Verify ==
    /\ Opens({"verify"}) /\ GoesOn(sec.then) /\ MayDie /\ Notes({})
    /\ (Real \subseteq on /\ flagD' = TRUE) \/ UNCHANGED flagD
    /\ UNCHANGED <<on, rcAxi, sharedUp, phaseB, table>>

\* post_init_phy_ip_apply: pcie_init returned, and that is enough for it.
PostInitPhyIp ==
    /\ Opens({"phy_ip"}) /\ GoesOn(<<>>) /\ MayDie /\ Notes({})
    /\ UNCHANGED <<on, flags>>

Summarise ==
    /\ ended = "no" /\ todo = <<>> /\ ended' = "summary"
    /\ UNCHANGED <<boot, todo, m1n1, probes, on, flags, events>>

-----------------------------------------------------------------------------
(* The hardware.                                                           *)

\* A request pcie_init was given up on ends after all, or never does.
Finishes ==
    /\ m1n1 = "busy" /\ m1n1' \in {"alive", "dead"}
    /\ UNCHANGED <<boot, todo, ended, probes, on, flags, events>>

Drift ==
    /\ MayDrift /\ ended = "no"
    /\ \E g \in on : on' = on \ {g}
    /\ UNCHANGED <<boot, todo, ended, m1n1, probes, flags, events>>

Host ==
    \/ Plain \/ Phase0 \/ PhaseD \/ PhaseE \/ PhaseF \/ PhaseB \/ PhaseC
    \/ NoPcieInit \/ PcieInit \/ RecoveryProbe \/ GateShut \/ GuardedSection
    \/ Verify \/ PostInitPhyIp \/ Summarise

Next == Host \/ Finishes \/ Drift

Spec == Init /\ [][Next]_vars /\ WF_vars(Host)

-----------------------------------------------------------------------------
(* Properties.                                                             *)

\* Phases E, B and C read the shared apcie MMIO while a gate before it is off
\* only on a boot on which a gate could not be looked up: no table was kept by
\* Phase 0, it lacks the gate, or the parents accessor raised.  As long as the
\* tables are read in full, no flag of an earlier phase, however stale, makes a
\* phase read a dead block; such a read stalls the bus and costs the boot.
MmioBehindGates == "mmio_behind_off_gate" \in events => "unchecked" \in events

\* "Final safeguard: re-verify every real apcie power gate right before we touch
\* phy_ip MMIO": no phase reads the MMIO behind a gate that is off, table or no
\* table.
EveryReadVerified == "mmio_behind_off_gate" \notin events

\* The dump reads phy_ip only on a boot whose Phase F came up, after pcie_init
\* returned: RUN 15 died of reading it otherwise.
HarvestIsEarned == "harvest" \in events => {"F_up", "init_returned"} \subseteq events

\* Whatever dies, main() comes to an end.
Terminates == <>(ended # "no")

\* "every ancestor of gate 151 reached ACTUAL=0xf" before Phase F replays.
ReplayOverChain == "F_below_off_gate" \notin events
=============================================================================
