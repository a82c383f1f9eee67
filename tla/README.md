# Verification of the Apple silicon M4 bring-up

The repository brings up parts of an M4 Mac (a J773g, SoC t8132) from a host,
over a serial line, through the m1n1 boot loader: Python scripts on the host
call m1n1's proxy (`p.read32`, `p.write32`, `p.mask32`, `p.pcie_init`, ...), and
a small C payload runs on the target. The hardware is unforgiving. A read of a
clock-gated window stalls the bus, m1n1 never answers again, and the boot, with
everything it was to measure, is lost. Most of the logic of the scripts is
about the order in which things may be touched, what a failed call means for
the next one, and what may be believed of a value that was read a while ago.
That logic is what these modules state and check.

Paths below are relative to the repository; `perstn.py` and its neighbours
are in `Scripts/m1n1/`.

## The system

| component | files | state it keeps | operations | talks to |
|---|---|---|---|---|
| PMGR parent walk (Phase D) | `perstn.py` 860-1115 | visited set, recursion; `apcie.phaseD_gate151_active`, `phaseD_failing_gate` | read PS register, raise PS_TARGET, raise the PS_AUTO floor, poll PS_ACTUAL | PMGR registers, which ramp, refuse and gate by themselves |
| Shared PHY replay (Phase F) | `perstn.py` 2458-3683, `pcie_regs.py` | `phaseF_last_step`, `phaseF_shared_up`, `axi_sub5_reachable`, the exception count `exc_running` | steps, poll steps, probes, naked reads, tunables, verification reads | Phases D and E through attributes of `apcie`; the controller's MMIO |
| Boot session | `perstn.py` 416-855, 1118-1253, 3686-3898, 4798-5899 | attributes of `apcie`; the log | rails, Phases 0, D, E, F, B, C, `pcie_init` and its recovery probes, dumps, experiments | every other part of `perstn.py` |
| RUN dispatcher | `perstn-run.sh` | none | maps a RUN to flags | the argument parser of `perstn.py` |
| Proxy guard and liveness | `m4_common.py` | the exception guard mode and serial timeout of the line | `guarded`, `check_alive`, `check_alive_fast`, `_read32_live`, `try_` | m1n1's proxy |
| Naked register probes | `perstn.py` 1380-1984 | `axi_subN_reachable` | the naked write test, the masked read-modify-writes, the reachable scan | Phase F |
| Port experiments | `perstn.py` 3791-4689, `pcie_common.py` 140-240 | none of their own; pins, the config-write mode and the reset and start bits of the ports | pins, REFCLK, PERST# resequencing, T602X replay, LTSSM kick, dumps | Boot session |
| Trace planner and replay | `trace_ops.py`, `trace_replay.py` | the planned steps; progress through them | plan a segment; write, rmw, read, poll | recorded MMIO traces; the controller |
| PCIe helpers | `pcie_common.py`, `pcie_regs.py` | none | ECAM walk, `probe_device`, `enable_nic`, SMC rails, LTSSM kick, LINKSTS watch and poll | Boot session, NIC bring-up |
| NIC bring-up | `nic_bringup.py` | bus numbers of the bridges | wait for the link, kick, number the bridges, walk again | PCIe helpers |
| SoC bring-up | `soc_bringup.py` | RVBAR of the target core and its lock; the gates found ACTIVE | SMP start and probe, scans for the CPU-start word, release probe, core diff, ACIO status | m1n1's SMP entry points, PMGR |
| C payload | `src/src/*`, `src/linker.ld`, `upload_and_call.py` | the log buffer and its length | append, format, panic | the host, which reads the buffer |
| Recon | `recon.py`, `pcie_up.py` | none | dump the device tree and registers | files |
| Shell wrappers | `*.sh`, `Makefile` | none | find the serial port, start a script | - |

The scripts are sequential: there is one host thread and no callback. What
makes them hard is everything else.

* **The hardware is a second actor.** A PMGR gate that was asked to come up
  does so some time later or never; a gate with AUTO_ENABLE set is moved by the
  hardware; gates may drop between two sections.
* **A call can end in five ways**: it returns, it returns m1n1's sentinel
  because the access took a SYNC (and m1n1's exception count grows), it raises
  in the host, it runs out of time while m1n1 is still busy, or it stalls the
  bus and nothing ever answers again.
* **Failures surface late.** An exception is only found when somebody compares
  the exception count; a dead m1n1 is only found when somebody asks.
* **Sections talk through attributes** of one `apcie` object. An attribute that
  was never set, was set by an earlier section, or was set from part of the
  evidence reads like any other.
* **The order comes from flags.** Some forty switches, composed by the RUN
  arms of a shell script, decide which of some hundred calls are made.

What makes each component correct:

* Phase D: a gate is poked only under parents that are up; a refusal stops
  everything below it; the flag means that the whole chain is ACTIVE; the walk
  ends on any graph.
* Phase F: `phy_ip` is left alone until both clock requests are acknowledged,
  but for the one probe a RUN may select, a read or the write of zero of
  `--phy-ip-write-probe`; the slice of a port without a bridge
  is never touched; success means that the handshake is through, m1n1 answers
  and no exception is unaccounted for; the phase ends.
* Session: the shared MMIO is read only behind gates that were just seen on, as
  long as each of them could be looked up; `phy_ip` is dumped only after a
  replay that came up; whatever dies, `main()` ends, though not always with its
  summary (a guard entered on a dead m1n1 raises out of it).
* Guard: the serial timeout is restored on every way out but one, a
  `set_exc_guard` that raises on the way in; m1n1's guard is off again unless one
  of its two calls raised or m1n1 is dead.
* Naked probes: outside the write test, a write changes the bits of its mask
  only, and a window nobody has seen answer is scanned or rewritten only after its
  first touch. The write test itself writes all its targets in full, also one
  whose first touch raised.
* Port experiments: what is asserted, armed or opened is put back whatever
  fails between; a port is started only out of reset.
* SoC: a block is read only behind a gate that is really on; a core is strobed
  only with its RVBAR unlocked.
* Trace planner: the planned steps do to every register what the trace did, in
  the order of its writes.
* NIC bring-up: no two bridges with one bus number, so that a record describes
  one device and bus mastering reaches the device that was classified; the walks
  keep to active ports and their buses, but for the bus 0x15 that a faulted read
  of a bus number spells.
* Payload: the log stays inside its buffer and is always terminated (left to
  unit tests).

## The modules

    PowerOrder          what parents-first power-up promises
      ^ refines
    PmgrChain           Phase D, one action per proxy call
      MCPmgrChain       parent graphs for TLC
      PmgrChainProofs   theorems about PmgrChain
    PerstnRuns          the flags of each RUN
    SharedInit          Phase F, a program per boot, one action per call
      MCSharedInit      the boots and the J773g's tunables
      SharedInitProofs  theorems about SharedInit
    PcieSession         main(), one action per section
      MCPcieSession     the boots and the J773g's gates
      PcieSessionProofs theorems about PcieSession
    TracePlan           plan_segment, as functions
      TracePlanProofs   theorems about the plan of every trace
      TraceReplay       the executor of the plan, one action per proxy call
        MCTraceReplay   traces for TLC
        TraceReplayProofs   theorems about TraceReplay
    Programs            how a list of register accesses is written down
      PortPrograms      the register programs of perstn.py
      SocPrograms       the register programs of soc_bringup.py
        RegisterPrograms    what executes them against m1n1 and the hardware
          MCRegisterPrograms  the boots of PerstnRuns on the J773g
          ProgramShape        lemmas about every program of every boot
            RegisterProgramsProofs  theorems about RegisterPrograms
    NicBringup          nic_bringup.py: links, bus numbers, walks
      MCNicBringup      the J773g's ports
      NicBringupProofs  theorems about NicBringup

### PmgrChain and PowerOrder

`_pmgr_direct_poke_chain` is recursive. Its call stack is `gateAt`, `slotAt`
(the gate of each call in progress and the parent slot it is at) and `depth`;
`pc` says which proxy call comes next: `call` is the entry of the function, with
`arg` the gate, `walk` its loop over the parents, and `write1`, `poll1`,
`write2`, `poll2` are the stages of `_pmgr_direct_poke_gate`. One action is one
proxy call with the local code up to the next. A PS register is kept to what
the walk can tell apart: whether PS_ACTUAL is 0xf (`actual`), whether
AUTO_ENABLE is set (`auto`), and which of the two writes it was given
(`target`, `floor`). `Ramp` and `AutoMove` are the PMGR block. A call that
raises ends up where the code's `except` clauses, or their absence, send it:
`Write1Raises` lets the write land or not, `PollRaises` leaves Phase D
altogether, `DescendUnread` is the fast-path read whose failure is ignored.

`PowerOrder` is the promise: gates come up one at a time, each under gates that
are up, none goes down, and the caller is told `active` only when all it needs
is up. `PmgrChain` implements it (`ParentsFirstPowerUp`) with
`on <- {g : actual[g]}` and the verdict read off `pc` and `active`.

### PerstnRuns

A boot is the set of switches its RUN passes, the checkpoint of its `phy_ip`
probe, whether that probe is a write (`phy_ip_write_probe`, RUN P and RUN 5), and
the way steps 6.g and 6.h write `phy_ip`. The switches that steer neither Phase F
nor the sections are left out.

### SharedInit

`Plan(boot)` is the sequence of proxy calls Phase F makes for a boot: the steps
of `probe_phaseF_t8140_replay` in program order, each with the window it
touches and its kind. The kinds differ in how a failure ends:

| kind | code | a raise or a fault | a dead m1n1 |
|---|---|---|---|
| `step`, `poll` | `step`, `poll_step` | ends the phase, also when an earlier call caused the exception | entering the guard raises through the phase |
| `peek` | read-back under `guarded` alone | goes unnoticed until the next step | the same |
| `probe`, `write_probe`, `first_touch`, `gated` | diagnostics and naked applies | logged, counted from a baseline of its own | the probe is passed over |
| `naked`, `gated_naked` | a read outside the guard | ends the phase; a fault is deadly | ends the phase |
| `verify`, `stub_verify` | reads that check `phy_ip` | the exception is added to `exc_running` | the same as `step` |

At the selected checkpoint `diag` reads the head of `phy_ip` or, with
`--phy-ip-write-probe`, writes the word at +0x38 (`PhyIpProbe`); RUN P selects a
checkpoint ahead of the handshake.

`pending` says that m1n1 counted an exception `exc_running` does not include,
`alive` that m1n1 answers. The naked write test, the reachable scan and the
PMGR read-back before 6.g are one call each here: in the order of the phase
their addresses do not matter, only the way they fail. `PortPrograms` has the
first two access by access.

### PcieSession

`todo` is the list of sections `main()` has still to run; a section whose body
ends with further sections (those that `pcie_init` opens, or a dump after a
kick) puts them at its head. A `Gated` section is behind `liveness_gate`; a
section of `GuardedSections` enters `guarded()` outside any `try`, so on a dead
m1n1 it ends `main()` by an exception. `on` is what the PMGR gates really are,
the other variables what the attributes say of them. Phase D and Phase F appear
by what `PmgrChain` and `SharedInit` establish: Phase D sets its flag for a gate
that was handed over ACTIVE (its parents unseen) or that was raised under
ACTIVE parents; Phase F reports success only with m1n1 answering.

`table` is `apcie.phase0_dev_by_idx`, the PMGR device table Phase 0 loads: none
if the load failed, partial if entries could not be decoded. Phases D and B load
one of their own when there is none. Phase E does not, and passes over a gate
it cannot look up (`LostToE`): all of them without a table, those missing from a
partial one, and the parents of gate 151 when their accessor raises. Phase C reads
`port_base` unverified when its own load failed as well. Such a read leaves
`unchecked` in `events`.

`Drift` drops a gate between two sections; the read-back of gates at the start of
a section and the MMIO reads right behind it are one step, since no host code can
close the window between two of its own calls.

### TracePlan and TraceReplay

A trace is a sequence of accesses, a register value the set of its bits, so the
set and clear masks of a read-modify-write are set differences. `PlanOf(t)` is
`plan_segment`: its rules are `Write` (a write, fused or not), `Acknowledges`,
`Fuses` and `Grouped`; a step names by its index the access the code keeps in
`Step.op`. What a plan owes to its trace is stated without the planner's rules
(`WritesOf`, `KeepsOrder`, `Answers`, `PollsToTheEnd`).

`TraceReplay` executes plans. `pc = "modify"` is the point between the pre-read
of a read-modify-write and its write. A read returns any value of its width,
since other agents and the hardware change registers; `held` keeps what the
register held when the pre-read was made, `pre` what the call returned, which is
the sentinel when it faulted. A step whose access raises with m1n1 alive is
passed over; one after which m1n1 does not answer raises `ReplayWedged`. An order
(`IsJob`) is what the command line may name: recorded accesses (`Recorded`, of
`Registers` and the widths the executor knows) in segments, in any order. A poll
is one action: what it reads before it ends changes nothing. The statistics,
and the bus numbers `--ecam` assigns after the replay, are left out.

The pre-read is compared with the sentinel at width 4 only (`Unusable`), so
`DeltaOnly` claims the untouched bits for that width. A poll for acknowledge
bits takes a sentinel that has them set for an answer (`trace_replay.py:185`);
nothing follows from it but a line of the log, the probe decides.

### Programs, PortPrograms, SocPrograms and RegisterPrograms

Most of `perstn.py` and all of `soc_bringup.py` is straight-line: a list of
register accesses, with each its own answer to a raise. So the code is data. An
access (`Access`) is what is done (`read`, `write`, a pre-read that is `hold`-ed
for the `rmw` after it, the first `touch` of a window, the `look` at a gate), to
which register, which bits it sets and clears, and what its caller does when it
raises:

| `on` | code | after a raise |
|---|---|---|
| `checks` | `_read32_live`, `_w`, `_set`: `except` and then `check_alive` | goes on if m1n1 answers, else `DumpAborted` ends the program |
| `leaves` | the pins, the release probe: nothing is caught | ends the program |
| `swallows` | `watch_linksts`, gates: `except` alone | goes on |
| `pairs`, `drops` | two accesses in one `try` | goes on after the second |
| `entry` | the pre-read of a tunable | goes on with the next entry |

A program is a list of accesses with the guard around it (`none`, one
`guarded()` per program or per access), whether a `liveness_gate` precedes it,
and the windows or gates it needs to have been seen. `PerstnMain` and `SocMain`
are the two `main()`s as sequences of programs chosen by the flags. A register's
value is the set of its bits; `Sentinel` is the real `0xacce5515`. Offsets of a
port that no property tells apart share the word `PortWord`.

`RegisterPrograms` executes a boot. `OpenProgram`, `EntryRaises`, `CloseProgram`,
`AccessEntryRaises` and `AccessExitFails` are `guarded()`: the timeout is
shortened before the guard is turned on, outside the `try`, and put back before
the guard is turned off. An access is answered, dropped by the fabric (a write),
faulted, lost (the write may have been made) or stalls; a fault without the
guard takes m1n1 down. An access to a block none of whose gates is on always
stalls (`Unclocked`).

### NicBringup

`phase` is the section of `main()`, `inside` that its `liveness_gate` is passed
and its guard on; `todo` and `field` are the loops of the walks and of the
numbering, with one action per config access. What answers a config access
(`Answering`) follows from the bridges' bus number registers and the links: a
bridge forwards the buses of its window, and when two windows hold one bus any
of the two may answer. The links train and drop at any time. `from` records
which devices supplied the fields of a record. A phase of its own, `descend`, is
the second half of `ecam_walk`. `--no-bringup` starts with the bus numbers an
earlier run left.

## The runs

Each run's configuration is the `.cfg` of its name.

| run | expects | what it shows |
|---|---|---|
| `chain_closed` | pass | On the J773g's parent graph and every handoff in which no gate is up below one that is off: `ChainActive`, `ParentsFirst`, `NothingPokedBelowRefusal`, `RefusalWasEscalated` (a gate is only called refusing after the PS_AUTO escalation), the inductive invariant `WalkInv`, and the refinement of `PowerOrder`. |
| `chain_malformed` | pass | Cycle, self-parent, unlisted id, a path deeper than the bound, PMGR gating at will: the walk ends. |
| `chain_fastpath` | violation of `ChainActive` | The fast path takes the parents of an ACTIVE gate to be up (`perstn.py:1016`). |
| `shared_all` | pass | All boots that run Phase F, every window faulting, raising or stalling at will: `OneEarlyTouch`, `InactiveSliceUntouched`, `TunablesAfterHandshake` (nothing but the selected probe, be it the write, reaches `phy_ip` before the acknowledgements), `UpIsEarned`, and the phase ends. |
| `shared_verify` | violation of `UpMeansPhyIpAnswers` | A verification read that faulted counts as passed. |
| `session_all` | pass | Boots of every shape, m1n1 dying anywhere, gates dropping between sections, the PMGR table missing or incomplete: no shared read behind a gate that is off where every gate could be looked up (`MmioBehindGates`), `HarvestIsEarned`, and `main()` ends, by its summary or by an exception. |
| `session_untabled` | violation of `EveryReadVerified` | Without the table of Phase 0, or with gates missing from it, Phase E reads behind a gate it passed over (`perstn.py:1168`). |
| `session_ancestor` | violation of `ReplayOverChain` | The post-init verification reads `power_gates`, not the ancestors of gate 151. |
| `trace_replay` | pass | Every trace of up to four accesses as the preamble, and RUN T and RUN U, on registers that read as anything, fault, raise and stall: `PlanKeepsOrder`, `ReadsAnswered`, `DeltaOnly`, `AfterProbe`, and the replay ends. |
| `port_programs` | pass | Twenty boots of `perstn.py` and `soc_bringup.py`, any two accesses going wrong: PERST# is released again (`EndpointReleased`), config-write mode is left (`ConfigModeClosed`), ports start out of reset (`StartsReleased`), masks are respected on boots without the write test (`HandoffBitsKept`), but for the write test, unseen windows get a first touch only (`TouchedFirst`), the timeout is put back unless turning the guard on raised, the guard unless one of its calls did (`GuardBalanced`), un-clocked blocks are left alone (`ClockedOnly`), cores are strobed unlocked (`StrobeWhenUnlocked`), and the boot ends. |
| `nic_all` | pass | Any endpoints behind the two ports, links that train and drop, any two accesses or links going wrong: a record describes one device (`NoChimera`), bus mastering reaches one network device (`MasterIsNic`), only active ports, numbered buses and the bus of the sentinel are walked (`OnlyActiveProbed`), and `main()` ends, by its summary or by an exception. |
| `nic_milestone` | violation of `PassIsMilestone` | With both links up the WLAN of port 0 passes for the NIC. |

The runs that expect a violation each check one statement the repository makes
about itself; `PROJECT.json` quotes it with its line. Two such statements
contradict each other outright: `dump_pcie_regs` calls `phy_ip` touchable only
once `phaseF_shared_up` is set, `post_init_phy_ip_apply` touches it after any
`pcie_init` that returned. The models carry what each does.

Other places where a comment and the code differ, met while modelling and shown
by no run, because one line of code decides them and no order of events:

* "Steps 6.g/6.h are the first phy_ip writes this script ever does"
  (`perstn.py:2513`), yet with `--phy-ip-write-probe` a checkpoint writes
  `phy_ip+0x38` (`perstn.py:2624`, `1835`): RUN P at one ahead of the handshake
  (`perstn-run.sh:487`), RUN 5 at one ahead of 6.g. The model has the write
  (`WriteProbe`), and `TunablesAfterHandshake` allows it by name.
* The write test "catches an AXI stall before the write step", since "the pre-read
  is the first-touch" (`perstn.py:1437`); a pre-read that raised with m1n1 still
  answering leaves the flag of the window unset, and the write is made
  (`perstn.py:1504-1537`). The model does the same; `TouchedFirst` leaves the write
  test out.
* "NO candidate word ... (full curated coverage, no SError)"
  (`soc_bringup.py:608-617`) is printed for a scan in which words faulted: the
  sentinel is dropped like a zero (`soc_bringup.py:585`).
* RUN O, Q and R "never probe phy_ip" (`perstn-run.sh:471`), yet `BASE_FLAGS`
  holds `--t8140-replay`, whose steps 6.g and 6.h write it.
* A Phase E that gave up leaves its attribute unset, and Phase F's default for
  it is meant for a phase that was skipped (`perstn.py:2524`, `2539`).
* Phase C tests the entries Phase B recorded; a gate that could not be read has
  none (`perstn.py:744`, `767`).
* `t602x_port_init_replay`: "Aggressive implies do_again == False"
  (`perstn.py:4309`); RUN 20 passes both, and both are done.
* `perst_resequence` drives one PERST# pin for every port it cycles; the device
  tree has a pin per port (`m4_recon/adt.txt`, `function-perst`).
* `ecam_walk` says `active_ports` filters the buses it touches
  (`pcie_common.py:341`); after a faulted read of a bus number it descends to bus
  0x15, which is nobody's (`pcie_common.py:371`).
* `try_ltssm_kick` sets the config-write bit and leaves it set;
  `ConfigModeClosed` is about the replay, which clears it.

Deadlock is not checked: the walk, the phase and the session really stop.

### Bounds, and why they are enough

* `chain_*`: the J773g's graph has ten devices, four of them virtual, with
  a shared ancestor reached by three paths; every handoff of its registers is
  an initial state. `chain_malformed` has recursion bound 2 instead of 10, so
  that a graph of four devices exceeds it. The invariants are proved for every
  graph (below).
* `SharedInit`: nothing is bounded but the choice of boots, which is all the RUN
  arms that run Phase F and the two switches no RUN uses. A tunables
  property is the sequence of the offsets of its entries: one real entry of each
  slice, the first and the last word of each slice, and a word past the window;
  what `classify_phy_ip_offset` makes of them is checked against the windows
  the device tree gives the ports.
* `PcieSession`: gate 150 stands for the parents of gate 151 and gate 148 for
  the gates above those; one aggregator, 379, stands for the five without a PS
  register. `RecoveryProbes` is 3 instead of 30: the loop tells apart only its
  last round from the others. A gate may drop at any point and any number of
  times.
* `port_programs`: the boots are those whose programs differ in what is
  modelled, and two that use switches no RUN uses. `MaxTroubles` is 2: every
  property ties a failure to at most one earlier one (an access that leaves
  something half done, and the one that was to put it back). An access whose
  clock is off stalls whatever the bound says, and does not count towards it. A scan or a sweep
  has two or three words of its block, since it treats all alike. The values
  iBoot leaves and the tunables are those of the J773g's logs.
* `nic_all`: the two ports of the J773g, each with a network device, another
  device or none; `MaxTroubles` 2 is one failed write of each bridge, or a write
  and a link.
* `trace_replay`: the planner looks one access back and one ahead and groups a
  run of reads, so four accesses over two registers and two widths reach every
  rule and every pair of rules; its executor meets each of those plans. Two bits
  tell the bits of a delta from the others, one of them above the narrow width.
  RUN T and RUN U get one trace that holds every kind of step.

### Fairness

The specifications assume weak fairness of the host's own steps and nothing of
the hardware. The scripts have one thread and every proxy call has a timeout, so
the next call is always made or fails; a gate need never come up and a request
need never finish. In `PmgrChain` the fair steps are those on which no call
raises, so no failure is ever assumed to help the walk end. In `RegisterPrograms`
every step is the host's, which is given no choice of how an access ends. In
`NicBringup` `Host` is fair and the links are not: `main()` ends even if none ever
trains.

## What is proved

TLC checks the instances below; TLAPS checks the theorems here for every value of
the constants, from the assumptions named next to their declarations (the types
of the constants) and from the hypotheses a theorem names. No invariant a run
checks is inductive as it stands: what a flag or a register says depends on what
every earlier step left behind, so each component has an inductive invariant
of its own, and the theorems follow from it.

### PmgrChainProofs

For every parent graph, every set of virtual devices and every root.

* `TypeCorrect`: `Spec => []TypeOK`, whatever the graph and the hardware.
* `WalkSettles`: under `Premise` (a closed handoff, an acyclic graph, no
  autonomous gating) the invariant `WalkInv` holds.
* `FlagIsHonest`: under `Premise`, `[]ChainActive`.
* `AskedParentsFirst`: under `Premise`, `ParentsFirst`.
* `RefusalStopsPoking`: under `Premise` and `WithinBound`,
  `[]NothingPokedBelowRefusal`.
* `RefusalsAreEscalated`: under `Premise` and with finitely many gates above the
  root, `[]RefusalWasEscalated`, whose own premise is the bound on the depth.
* `WalkImplementsOrder`: under `Premise`, `Spec => Order!OrderSpec`.

`ChainActive` is not inductive: that the flag is honest when Phase D sets it
depends on what every earlier call of the recursion left behind. `WalkInv` says
so. `HwOrdered`: a gate that is up, or was asked to come up, has its ancestors
up (a gate may ramp long after the walk went on, so being asked has to count).
`PathUp`: the frames are a path up the graph. `PassedUp`: the parent slots a
frame has passed lead to settled gates. `VisitedUp`: a visited gate is settled
or still in progress, which with acyclicity makes the `AlreadyVisited` exit
sound: the gate asked for is not in progress, since it would be its own
ancestor. `FlagUp` ties the flag to the root. The proofs split it into a part
about control and a part about the registers, with one lemma per shape of step.
The graph lemmas (parents are ancestors, ancestors of parents are ancestors)
follow from the definition of `AncestorsOf` as a least fixed point, without
induction.

The gate a failed walk names has refused both writes, and so has nothing below it
that was asked (`RefusalInv`) - unless the recursion bound ended the walk, which
names a gate nobody poked. `WithinBound`, no more gates above the root than the
recursion may go deep, rules that out: the frames are distinct ancestors of the
root, so a deeper frame would be one too many (`NotTooDeep`).

The premise of these theorems is needed: `chain_fastpath` is the counterexample
without the closed handoff, and with AUTO_ENABLE gating no flag about registers
stays true.

### SharedInitProofs

Phase F, for every set of boots (every combination of switches), every set of
windows that fault, and every content of the tunables.

* `PhaseInOrder`, `PhaseTypeCorrect`: the inductive invariant and `TypeOK`.
* `SuccessIsEarned`: `[]UpIsEarned`.
* `NothingBeforeHandshake`: `TunablesAfterHandshake`, for the boots with the
  write probe as for the others: before the acknowledgements the selected probe,
  read or write, is all that reaches `phy_ip`.
* `DeadSlicesUntouched`: `[]InactiveSliceUntouched`, where the `reg` entries of the
  ports agree with the slices and the entries of step 6.g, which one switch
  applies without the filter, are in the shared slice (`Layout`).
* `ProbedOncePerBoot`: `[]OneEarlyTouch`, where no boot has two switches the
  argument parser refuses together (`ParserAccepts`).

None of these is inductive: that a call comes after the handshake is a fact about
the program, and the state only shows what is left of it. `ProgramInv` says that
what is left still polls for the acknowledgements that are missing, ahead of
everything that touches `phy_ip` without being a probe (`PollsFor`, `InOrder`),
and that its last call is a poll (`EndsInPoll`), which is why a pending exception
cannot survive to the end: `step` and `poll_step` are where it is found. The
program is taken apart along its concatenations: everything before the handshake
is `Quiet`, the handshake polls for both, and what is in order stays so whatever is
appended. One lemma (`Advance`) covers every call that is made, one
(`CallKeeps`) every way a call can end. `Live` carries the slice arithmetic: what
`classify_phy_ip_offset` lets through is no word of an inactive port.

The one early touch is a fact about labels: `--phy-ip-probe-at` names one
checkpoint, and each part of the program passes the checkpoints of its own set of
labels at most once (`Selects`); the sets are disjoint, but for the step whose two
forms exclude each other. `EarlyInv` counts the rest: at most one early probe is
still ahead, none once it was made.

### PcieSessionProofs

The sections of `main()`, for every set of boots, every graph above gate 151 and
whatever the hardware does to the gates between two sections.

* `SessionInOrder`, `SessionTypeCorrect`: the inductive invariant and `TypeOK`.
* `HarvestEarned`: `[]HarvestIsEarned`.
* `NoReadBehindOffGate`: `[]MmioBehindGates`.

`SessionInv` adds to these that no dump is ahead before `pcie_init` returned
(`EarlyOnly`, a fact about the program of a boot that each section keeps) and that
`phaseF_shared_up` is what some Phase F of this boot reported. `MmioBehindGates`
speaks of the boots on which no gate was lost to a phase that reads
(`"unchecked" \notin events`); `session_untabled` shows that it is false of the
others. On these boots it needs none of what earlier sections recorded of the
gates: the phases read the gates they rely on in the phase itself, so that a stale
record cannot lead to a read. Under `Drift` it would otherwise be false.

### TracePlanProofs and TraceReplayProofs

The planner, for every trace; the executor, for every order and whatever the
registers answer.

* `PlansKeepOrder`: a plan performs the writes of its trace in order, with at most
  an adjacent read fused in (`KeepsOrder`).
* `PlansAnswerReads`: each read is in the plan, or in the step it was fused into or
  grouped with (`Answers`).
* `DeltasAreExact`: the masks of a read-modify-write turn what the trace read into
  what it wrote.
* `ReplayInOrder`, `ReplayTypeCorrect`: the invariant of the executor and `TypeOK`.
* `OrderIsKept`, `NoReadIsLost`: `[]PlanKeepsOrder`, `[]ReadsAnswered`.
* `OutsideTheDeltaKept`: `DeltaOnly`.
* `NothingPastUnprovenPhy`: `AfterProbe`, where an order begins with the preamble
  (`PreambleFirst`). RUN T, RUN U and the default of `--segments` do; the switch
  would take the segments in any order.

`PlanOf` is a recursive function, and the library's induction theorems take an
operator as a parameter. The induction is therefore over a set of numbers: the
positions the claim fails at would have a largest one (`FromTheRight`, from the
well-foundedness of `<`). The same way gives that the recursive function exists
(`RightRecursion`), without which nothing could be said of what `CHOOSE` picks. A
plan covers the stretch of the trace it was made from, and plans of adjoining
stretches join; `Part` is the claim for `Grouped`, which merges reads.

### ProgramShape and RegisterProgramsProofs

The register programs of both `main()`s, for every list of boots, every handoff,
all tunables, every set of active ports, and any number of troubles.

* `BootTypeCorrect`: `[]TypeOK`, with every program well-formed.
* `GuardIsBalanced`: `[]GuardBalanced`. It excuses the short timeout after a
  `set_exc_guard` that raised on the way into `guarded()`: there the code leaves
  it behind (`m4_common.py:157`), and the model carries that.
* `TouchedBeforeUse`: `TouchedFirst`, of every access but those of the write test.
* `HandoffBitsAreKept`: `[]HandoffBitsKept`, of boots without the write test and
  registers whose pre-read did not come back as the sentinel.
* `EndpointIsReleased`: `[]EndpointReleased`.
* `OnlyClockedBlocks`: `[]ClockedOnly`, where the gates of the cores are as iBoot
  leaves them (`GatesAsLeft`: `smp_probe` reads a core without having looked at a
  gate, so with such a boot in the list one of them is taken to be on).
* `StrobedWhenUnlocked`: `StrobeWhenUnlocked`.
* `ModeIsClosed`: `[]ConfigModeClosed`, where iBoot leaves config-write mode off
  (`ModeAsLeft`; the first read of `rc_base+0x3c` in the logs is 0). Without it a
  `pcie_init` that raises would leave the mode as it was found.
* `StartsWhenReleased`: `StartsReleased`.

`ProgramShape` proves what these need of the programs, all of it about the order of
accesses and all of it closed under concatenation: no failure leads past the end of
a program (`Fits`), every write of a read-modify-write follows its own pre-read,
with no way in between (`Paired`), and every write that resets the endpoint is
followed by one that releases it, with nothing between that could end the
program (`Restores`). In the programs that start ports, the same is shown of a
port put into reset (`Recovers`) and of config-write mode (`Settles`).
`ProgramSet` says what kinds of programs a boot has, and `AsNamed` what the name of
one tells: which words only the LTSSM kick, the replay and the resequencing write, and
that `pcie_init` and the cold reset of the endpoint are the two programs they are.
`Placed` is about their order in `main()`: whatever starts a port comes after both
of these, and when the replay is asked for, it comes after the kick with no
`pcie_init` between. `CodePrograms` says that every boot's programs are of these
kinds and in this order.

The invariants then relate a register to what is ahead in the open program. `GuardInv`:
the timeout saved when a section was entered is the long one unless turning the
guard on failed. `HeldFresh`: what a coming write puts back is what iBoot left,
outside the bits it is meant to change. `PinPending`: an endpoint in reset is about
to be released. `GateWords` and `ReachMeans`: a block counted as reachable has a gate
that is really on. `ReleaseInv`: the last accesses of the release probe stand behind
a lock that reads open and an enable that was made. `ModePending`: while the mode is
on, this program is going to leave it, or a replay that is still to come is.
`PortsReleased` and `PinDriven`: once `pcie_init` and the cold reset are over, each
port is released or the open program releases it before it starts one, and the pin
has been driven, so that `PinPending` speaks of it. A lemma for accesses that leave
the word alone covers most actions of each proof.

### NicBringupProofs

For every set of active ports, whatever sits behind them, and any number of
faults and of links that come and go.

* `WalkIsHonest`, `NicTypeCorrect`: the inductive invariant and `TypeOK`.
* `RecordsAreWhole`: `[]NoChimera`.
* `OnlyActivePortsWalked`: `[]OnlyActiveProbed`, the bus of the sentinel included
  in what may be walked.
* `MasterIsTheNic`: `[]MasterIsNic`.

`OwnBuses` is the reason: a bridge has no bus number or one of its own, so that an
address reaches one device only (`Sole`). What is still to be walked are root
functions of active ports and buses read from a bridge, or the sentinel's
(`OnPath`); the fields of one
record are read from one address (`AtHand`), so a record says what its one device
said (`Recorded`), and the command register written is the chosen record's
(`EnablesNic`).

### Only model-checked

* Termination, of every component: liveness under fairness is out of the prover's
  reach.
* The refuted claims of the violation runs: a counterexample is on one instance.

## What is not modelled, and why

* Values of registers, beyond what a guard or a verdict depends on; addresses;
  wording and layout of the log.
* RUN 24, which the source freezes; RUN 30, which differs from RUN 29 by an
  offset; RUN 32 and 33, which start `nic_bringup.py` without a flag that
  steers it (`NicBringup` is that script as they start it).
* The set-bit-5 probe of RUN 7 to 10, access by access: it is one call of
  `SharedInit`.
* What the scans and dumps print of the values they read, their summaries, and the
  decoding of CPU-start words. `enable_core_parse` reads the device tree only.
* `--no-ltssm-kick` of `nic_bringup.py`; what a BAR holds.
* The C payload: a bounded, terminated byte buffer of a hundred lines, written by
  one thread and read after it returned. A unit test reaches all of it.
* `--unblock-experiment`, `--pmgr-explore`, `--dart-power`: no RUN uses them.
* `recon.py` and `pcie_up.py`: dumps without state; `pcie_up.py` is the
  ancestor of `perstn.py`.
* m1n1 itself and its proxy library are not in this repository. A late answer
  taken for that of the next request is a hazard of their framing.
* The shell wrappers and the Makefile: pure I/O.

## Plan

In order; each item is a module, its runs and, where named, its theorems.

1. Done: `PowerOrder`, `PmgrChain`, `PmgrChainProofs` (the walk everything
   rests on), `PerstnRuns`, `SharedInit`, `SharedInitProofs`, `PcieSession`.
2. Done: `TracePlan`, `TraceReplay`.
3. Done: `Programs`, `PortPrograms`, `SocPrograms`, `RegisterPrograms`, with the
   naked probes and `guarded()`.
4. Done: `NicBringup`.
5. Done: the theorems of every component about its type invariant and its safety
   properties (above).
6. Done: the order of whole programs in `main()` (`Placed`), and from it
   `ConfigModeClosed` and `StartsReleased`.
