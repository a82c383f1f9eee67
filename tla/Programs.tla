------------------------------ MODULE Programs ------------------------------
(***************************************************************************)
(* How the programs of PortPrograms and SocPrograms are written down: the  *)
(* registers they access, an access and what its caller does when it       *)
(* raises, and a program, which is a list of accesses.                     *)
(***************************************************************************)
EXTENDS Naturals, Sequences

CONSTANTS NicPort  \* the port whose PERST# and CLKREQ# pins main() resolves

Ports == 0 .. 2
Bits == 0 .. 31

\* A register is a window and the offset of a word of it, or a name and a port.
Sub5(off) == <<"axi_sub5", off>>
Sub6(off) == <<"axi_sub6", off>>
RcCtl == <<"rc", 60>>
PhyCommon == <<"phy_common", 0>>
Lane(i) == <<"phy+0x000", i>>
PortWord(i) == <<"port", i>>
PortReset(i) == <<"port+0x82c", i>>
Ltssm(i) == <<"ltssm", i>>
Start(i) == <<"ltssm+0x14", i>>
Perst(i) == <<"perst", i>>
Clkreq == <<"clkreq", NicPort>>
Smc == <<"smc", NicPort>>

\* Words of soc_bringup.py: two of the gates of a block, RVBAR and the status
\* of the target core, the CPU-start words, regions of the pmgr window.
AcioGate(n) == <<"acio gate", n>>
CpuGate(n) == <<"cpu gate", n>>
Acio(n) == <<"acio", n>>
Core(n) == <<"core", n>>
Rvbar == <<"rvbar", 0>>
CpuStart(off) == <<"cpustart", off>>
ScanWord(n) == <<"pmgr", n>>
Smp == <<"smp_start_secondaries", 0>>

Windows == {"axi_sub5", "axi_sub6", "axi", "rc", "phy_common", "phy_shared"}
Offsets == {0, 60, 256}
PortNames == {"phy+0x000", "port", "port+0x82c", "ltssm", "ltssm+0x14", "perst"}
SocNames == {"acio gate", "cpu gate", "acio", "core"}
Regs == (Windows \X Offsets) \cup (PortNames \X Ports) \cup (SocNames \X {0, 1})
        \cup {Clkreq, Smc, Rvbar, Smp, CpuStart(4), CpuStart(8)}
        \cup {ScanWord(n) : n \in 0 .. 2}

\* GUARD_SENTINEL, 0xacce5515.
Sentinel == {0, 2, 4, 8, 10, 12, 14, 17, 18, 19, 22, 23, 26, 27, 29, 31}

-----------------------------------------------------------------------------
(* Accesses.                                                               *)

\* on: what a raised access leads to.  "checks": the program ends if m1n1 is
\* dead; "leaves": it ends; "swallows": it goes on; "pairs" and "drops": like
\* these two, but the next access is skipped too; "entry": like checks, but the
\* rest of the entry is.
Access(do, on, reg, set, clear) ==
    [do |-> do, on |-> on, reg |-> reg, set |-> set, clear |-> clear]

Read(reg) == Access("read", "checks", reg, {}, {})
Watch(reg) == Access("read", "swallows", reg, {}, {})
Write32(reg, bits) == Access("write", "checks", reg, bits, Bits)
Set32(reg, bits) == Access("write", "checks", reg, bits, {})
Clear32(reg, bits) == Access("write", "checks", reg, {}, bits)

\* gpio_set_output and gpio_set_periph: nothing in them is caught.
Pin(reg, set, clear) ==
    <<Access("hold", "leaves", reg, {}, {}), Access("rmw", "leaves", reg, set, clear),
      Access("read", "leaves", reg, {}, {})>>

ModeBits == {1, 2, 3}
PeriphBits == {5, 6}
OutputBits == {0} \cup ModeBits \cup PeriphBits

Drive(reg, level) == Pin(reg, {1} \cup (IF level = 1 THEN {0} ELSE {}), OutputBits)
Periph(reg) == Pin(reg, {6, 9}, PeriphBits)

Opt(c, ops) == IF c THEN ops ELSE <<>>

-----------------------------------------------------------------------------
(* Programs.                                                               *)

\* guarding: "none"; "section", one guarded() around the program in main();
\* "access", one around each access.  gated: behind a liveness_gate.  needs:
\* the windows that must have come back from a first touch, or the gates of which
\* one must have been read ACTIVE.
Program(name, guarding, gated, needs, ops) ==
    [name |-> name, guarding |-> guarding, gated |-> gated, needs |-> needs, ops |-> ops]

Bare(name, ops) == <<Program(name, "none", FALSE, {}, ops)>>
Section(name, ops) == <<Program(name, "section", FALSE, {}, ops)>>
Gated(name, ops) == <<Program(name, "section", TRUE, {}, ops)>>
Guarded(name, needs, ops) == <<Program(name, "access", FALSE, needs, ops)>>
=============================================================================
