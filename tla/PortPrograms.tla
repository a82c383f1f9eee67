---------------------------- MODULE PortPrograms ----------------------------
(***************************************************************************)
(* The register programs of Scripts/m1n1/perstn.py, access by access: the  *)
(* naked probes of Phase F, and the experiments main() runs on the ports   *)
(* around p.pcie_init.                                                     *)
(***************************************************************************)
EXTENDS Programs

CONSTANTS
    ActivePorts,  \* the ports whose pci-bridge exists
    Tunables      \* Tunables[prop]: offset, mask and value of each entry

\* A property the device tree lacks has no entries.
ASSUME PortAssumption ==
    /\ ActivePorts \subseteq Ports /\ NicPort \in ActivePorts
    /\ Tunables \in [{"axi2af", "pcieclkgen", "cio3pllcore"} ->
                         Seq([off : Offsets, mask : SUBSET Bits, value : SUBSET Bits])]

\* for i in active_ports
EachPort(ops(_)) ==
    Opt(0 \in ActivePorts, ops(0)) \o Opt(1 \in ActivePorts, ops(1))
    \o Opt(2 \in ActivePorts, ops(2))

-----------------------------------------------------------------------------
(* The experiments on the ports.                                           *)

\* deassert_perstn: a probe of pin 0, then a cold reset of the endpoint.
DeassertPerstn(pin) ==
    <<Access("read", "leaves", pin, {}, {})>> \o Drive(pin, 0) \o Drive(pin, 1)

Snap(i) == <<Read(Lane(i)), Read(PortWord(i))>>

\* _poll_ack: an acknowledgement that never comes is reported, and no more.
PollAck(i) == Read(Lane(i))

SetupRefclk(i, cgen) ==
    Snap(i)
    \o <<Set32(Lane(i), {0}), PollAck(i), Set32(Lane(i), {1}), PollAck(i),
         Set32(Lane(i), {9, 10})>>
    \o Opt(cgen, <<Set32(Lane(i), {30, 31})>>) \o Snap(i)

\* The LTSSM configuration and, last, the START bit.
LtssmWrites(i) ==
    <<Write32(Ltssm(i), {1}), Write32(Ltssm(i), {2}), Set32(Ltssm(i), {1}),
      Write32(Start(i), {0})>>

ResetCycle(i) ==
    <<Clear32(PortReset(i), {0}), Read(PortReset(i)),
      Set32(PortReset(i), {0}), Read(PortReset(i))>>

\* Mutant of PerstResequence: the port is started while its endpoint is in reset.
StartThenPerst(i) ==
    Snap(i) \o Drive(Perst(NicPort), 0) \o ResetCycle(i)
    \o LtssmWrites(i) \o Drive(Perst(NicPort), 1) \o Snap(i)

\* perst_resequence: the one pin main() resolved is driven for every port.
PerstResequence(i) ==
    Snap(i) \o Drive(Perst(NicPort), 0) \o ResetCycle(i) \o Drive(Perst(NicPort), 1)
    \o <<Read(PortWord(i))>> \o LtssmWrites(i) \o <<Read(Start(i))>> \o Snap(i)

\* endpoint_diag: SMC keys, LINKSTS and the LTSSM window, read only.
EndpointDiag ==
    LET links(i) == <<Read(PortWord(i))>>
        sweep(i) == <<Read(Ltssm(i)), Read(Start(i))>>
    IN  <<Watch(Smc)>> \o EachPort(links) \o EachPort(sweep)

\* One register of t602x_port_init_replay, read before and after its write.
Replayed(write) == <<Read(write.reg), write, Read(write.reg)>>

\* Mutant of Disarm: the mode is left only where LTSSM was not started.
DisarmUnlessStarted(o) ==
    IF "t602x_aggressive" \in o.flags THEN <<>> ELSE Replayed(Clear32(RcCtl, {0}))

\* L843: config-write mode is left again.
Disarm(o) == Replayed(Clear32(RcCtl, {0}))

T602xReplay(o, i) ==
    <<Read(PortWord(i))>> \o Replayed(Set32(RcCtl, {0}))
    \o Replayed(Write32(PortWord(i), {1}))              \* +0x10, +0x104, +0x397c
    \o Replayed(Clear32(Lane(i), {14})) \o <<Read(PortWord(i))>>
    \o Opt("t602x_aggressive" \in o.flags,
           LtssmWrites(i) \o <<Clear32(PortWord(i), {8}), Read(PortWord(i))>>)
    \o Opt("t602x_do_again" \in o.flags,
           ResetCycle(i) \o <<Read(PortWord(i))>> \o LtssmWrites(i)
           \o <<Read(PortWord(i))>>)
    \o Opt("t602x_msimap" \in o.flags, <<Write32(PortWord(i), {31})>>)
    \o <<Write32(PortWord(i), {0, 1}), Read(PortWord(i))>>   \* +0x4020, intr2axi
    \o Disarm(o) \o <<Read(PortWord(i))>>

\* try_ltssm_kick: sequence A, B if asked to, and C, whose two accesses share
\* one try.
LtssmKick(o, i) ==
    <<Read(PortWord(i))>> \o Replayed(Set32(RcCtl, {0}))
    \o Replayed(Write32(PortWord(i), {1})) \o <<Read(PortWord(i))>>
    \o Opt("kick_aggressive" \in o.flags,
           LtssmWrites(i) \o <<Clear32(PortWord(i), {8}), Read(PortWord(i))>>)
    \o <<Access("write", "pairs", PortReset(i), {}, {0}), Set32(PortReset(i), {0}),
         Read(PortWord(i))>>

\* dump_pcie_regs: port and root complex, and from tier 3 the PHY and LTSSM.
Dump(tier) ==
    LET tier1(i) == <<Read(PortWord(i))>>
        tier3(i) == <<Read(Ltssm(i)), Read(Start(i))>>
        tier2(i) == <<Read(Lane(i))>>
    IN  <<Read(RcCtl)>> \o EachPort(tier1)
        \o Opt(tier = 3, <<Read(PhyCommon)>> \o EachPort(tier2) \o EachPort(tier3))

WatchLinksts == LET watch(i) == <<Watch(PortWord(i))>> IN EachPort(watch)
GatedWatch == <<Program("watch", "none", TRUE, {}, WatchLinksts)>>

-----------------------------------------------------------------------------
(* The naked probes of Phase F.                                            *)

\* One entry of _NAKED_WRITE_TARGETS: the value a tunable was to land.
Target(window, value) == [window |-> window, value |-> value]

NakedTargets ==
    <<Target("axi_sub5", {0, 9, 11}), Target("axi_sub6", {0, 9, 11}),
      Target("rc", {0, 9, 11, 18}), Target("axi", {2, 3, 4, 31})>>

\* probe_naked_write_test: the pre-read of a gated window is its first touch.
NakedWriteTest(write) ==
    LET pre(t) == Access("touch", "checks", <<t.window, 0>>, {}, {})
        rest(t) == <<Write32(<<t.window, 0>>, t.value), Read(<<t.window, 0>>)>>
        target(t) == <<pre(t)>> \o Opt(write, rest(t))
    IN  target(NakedTargets[1]) \o target(NakedTargets[2])
        \o target(NakedTargets[3]) \o target(NakedTargets[4])

\* probe_naked_extra_apply: pre-read, write and post-read of every entry.
NakedApply(window, prop) ==
    LET entry(n) == Tunables[prop][(n + 2) \div 3]
        reg(n) == <<window, entry(n).off>>
        access(n) ==
            CASE n % 3 = 1 -> Access("hold", "entry", reg(n), entry(n).value, entry(n).mask)
              [] n % 3 = 2 -> Access("rmw", "checks", reg(n), entry(n).value, entry(n).mask)
              [] OTHER -> Read(reg(n))
    IN  [n \in 1 .. 3 * Len(Tunables[prop]) |-> access(n)]

-----------------------------------------------------------------------------
(* The part of main() about the ports.                                     *)

FirstTouchWindows == {"axi_sub5", "axi_sub6"}

\* Mutant of Needs: the flag of axi_sub6 stands for both.
NeedsEither(window) == IF window = "axi_sub5" THEN {"axi_sub6"} ELSE {}

Needs(window) == {window} \cap FirstTouchWindows

Apply(window, prop) == Guarded("apply", Needs(window), NakedApply(window, prop))

\* probe_reachable_scan, window by window.
ReachableScan ==
    LET scan(w) == Guarded("scan", Needs(w), <<Read(<<w, 0>>)>>)
    IN  scan("rc") \o scan("phy_common") \o scan("phy_shared") \o scan("axi")
        \o scan("axi_sub5") \o scan("axi_sub6")

PhaseF(o) ==
    LET has(flag, programs) == Opt(flag \in o.flags, programs)
        diag == has("reachable_scan", ReachableScan)
    IN  diag
        \o has("naked_write_test", Guarded("write test", {}, NakedWriteTest(TRUE)) \o diag)
        \o has("naked_readonly", Guarded("write test", {}, NakedWriteTest(FALSE)) \o diag)
        \o has("axi2af_naked", Apply("axi", "axi2af") \o diag)
        \o has("pcieclkgen_naked", Apply("axi_sub5", "pcieclkgen") \o diag)
        \o has("cio3_sub5", Apply("axi_sub5", "cio3pllcore") \o diag)
        \o has("cio3_common", Apply("phy_common", "cio3pllcore") \o diag)

\* The part of main() about the ports, from the pins to the last watch.
PerstnMain(o) ==
    LET has(flag, programs) == Opt(flag \in o.flags, programs)
        refclk(i) == SetupRefclk(i, "refclk_cgen" \in o.flags)
        replay(i) == T602xReplay(o, i)
        kick(i) == LtssmKick(o, i)
        tier == IF "tier3" \in o.flags THEN 3 ELSE 1
    IN  Bare("clkreq", IF "clkreq_periph" \in o.flags THEN Periph(Clkreq)
                       ELSE Drive(Clkreq, 0))
        \o Bare("perstn", DeassertPerstn(Perst(NicPort)))
        \o has("t8140_replay", PhaseF(o))
        \o has("refclk_pre", Section("refclk", EachPort(refclk)))
        \o Opt("no_pcie_init" \notin o.flags,
             Bare("pcie_init", <<Access("init", "leaves", Smc, {}, {})>>)
             \o Section("dump", Dump(1))
             \o has("refclk_post", Gated("refclk", EachPort(refclk)))
             \o Bare("watch", WatchLinksts)
             \o has("endpoint_diag", Gated("endpoint_diag", EndpointDiag))
             \o has("perst_resequence",
                    Gated("resequence", EachPort(PerstResequence)) \o GatedWatch)
             \o Section("dump", Dump(tier))
             \o Opt("no_kick" \notin o.flags,
                    Gated("kick", EachPort(kick)) \o Gated("dump", Dump(tier)))
             \o has("t602x_init",
                    Gated("t602x", EachPort(replay)) \o Gated("dump", Dump(tier))
                    \o GatedWatch))
=============================================================================
