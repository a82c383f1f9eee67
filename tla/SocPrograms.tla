---------------------------- MODULE SocPrograms ----------------------------
(***************************************************************************)
(* The register programs of Scripts/m1n1/soc_bringup.py.  Each probe runs  *)
(* in a try_ of main(), so what escapes it ends the probe and no more.     *)
(* enable_core_parse reads the device tree only and has no program.        *)
(***************************************************************************)
EXTENDS Programs

\* PS_ACTUAL of a gate is 0xf.
On == 4
\* The device has no PS register; its On is what the device tree says.
Virtual == 31
PsWords == {{}, {On}, {On, Virtual}}

\* _read_pmgr_gate_state, reported or counted; what it raises is swallowed.
Look(gate) == Access("look", "swallows", gate, {}, {})
Gate(gate) == Access("gate", "swallows", gate, {}, {})

SmpStart == Bare("smp start", <<Access("write", "swallows", Smp, {0}, {})>>)

SmpDiag == Bare("smp diag", <<Look(CpuGate(0)), Look(CpuGate(1))>>)

\* smp_probe: RVBAR and status of a core, then the CPU-start words.
SmpProbe ==
    Guarded("smp probe", {}, <<Read(Rvbar), Read(Core(0)), Read(CpuStart(4)), Read(CpuStart(8))>>)

CpustartDecode == Guarded("decode", {}, <<Read(ScanWord(0)), Read(ScanWord(0))>>)

\* cpustart_scan: a word of each region.
CpustartScan ==
    Guarded("scan", {}, <<Read(ScanWord(0)), Read(ScanWord(1)), Read(ScanWord(2))>>)

RvbarLock == 0
RvbarNotAddress == 0 .. 11

\* Mutant of SmpReleaseProbe: the lock is not read back.
ReleaseUnchecked ==
    Bare("release",
        <<Access("hold", "leaves", Rvbar, {}, {}),
          Access("rmw", "leaves", Rvbar, {}, RvbarNotAddress),
          Access("write", "leaves", CpuStart(4), {1}, Bits),
          Access("write", "leaves", CpuStart(8), {1}, Bits)>>)

\* smp_release_probe: unlock RVBAR, see that it is unlocked, enable the core
\* and strobe its start bit.  No guard around any of it.
SmpReleaseProbe ==
    Bare("release",
        <<Access("hold", "leaves", Rvbar, {}, {}),
          Access("read", "drops", CpuStart(4), {}, {}), Watch(CpuStart(8)),
          Access("rmw", "leaves", Rvbar, {}, RvbarNotAddress),
          Access("stop if", "leaves", Rvbar, {RvbarLock}, {}),
          Access("write", "leaves", CpuStart(4), {1}, Bits),
          Access("write", "leaves", CpuStart(8), {1}, Bits)>>)

\* core_diff_scan: any ACTIVE CPU gate will do.
CoreDiffScan ==
    Bare("core gates", <<Gate(CpuGate(0)), Gate(CpuGate(1))>>)
    \o Guarded("core diff", {"cpu gate"}, <<Read(Core(0)), Read(Core(1))>>)

SocRecon == Bare("recon", <<Look(AcioGate(0)), Look(AcioGate(1))>>)

\* acio_status, for one node with two gates: CPU_CONTROL and CPU_STATUS.
AcioStatus ==
    Bare("acio gates", <<Gate(AcioGate(0)), Gate(AcioGate(1))>>)
    \o Guarded("acio", {"acio gate"}, <<Read(Acio(0)), Read(Acio(1))>>)

SocMain(o) ==
    LET has(flag, programs) == Opt(flag \in o.flags, programs)
    IN  has("smp_start", SmpStart)
        \o has("smp_diag", SmpDiag)
        \o has("smp_probe", SmpProbe)
        \o has("cpustart_decode", CpustartDecode)
        \o has("cpustart_scan", CpustartScan)
        \o has("smp_release_probe", SmpReleaseProbe)
        \o has("core_diff_scan", CoreDiffScan)
        \o has("soc_recon", SocRecon)
        \o has("acio_status", AcioStatus)
=============================================================================
